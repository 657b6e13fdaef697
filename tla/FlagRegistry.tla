------------------------------ MODULE FlagRegistry ------------------------------
(***************************************************************************)
(* The node- and edge-flag registries (src/runtime/src/flag_registry.rs)   *)
(* and the topic registry (src/runtime/src/topic_registry.rs).             *)
(*                                                                         *)
(* A flag's bit is its position, so `mask << 1' is position + 1 and a mask *)
(* is a set of positions.  A name is <<owner, name>>.  A registration      *)
(* answers [ok, reg]: a refused one leaves the registry as it is.          *)
(***************************************************************************)
EXTENDS Integers, Sequences, FiniteSets
LOCAL INSTANCE SequencesExt

NoBit == -1          \* next_plugin_bit of a registry without any flag
EmptyMap == [name \in {} |-> 0]

Accept(reg) == [ok |-> TRUE, reg |-> reg]
Refuse(reg) == [ok |-> FALSE, reg |-> reg]

Reserved(name) == name[1] = "engine"

With(map, name, number) == [n \in DOMAIN map \cup {name} |-> IF n = name THEN number ELSE map[n]]

-----------------------------------------------------------------------------
(* Flags.                                                                  *)

NewRegistry(width) == [width |-> width, byName |-> EmptyMap, specs |-> <<>>, next |-> NoBit]

Insert(reg, bit, spec) ==
  [reg EXCEPT !.byName = With(@, spec.name, bit), !.specs = Append(@, [bit |-> bit, spec |-> spec])]

RegisterEngine(reg, bit, spec) ==
  IF spec.name \in DOMAIN reg.byName
  THEN Refuse(reg)
  ELSE LET added == Insert(reg, bit, spec)
       IN  Accept(IF bit + 1 > reg.next THEN [added EXCEPT !.next = bit + 1] ELSE added)

(* The built-in tables: <<position, spec>> in the order of graph.rs.        *)
Seeded(width, builtins) ==
  FoldLeft(LAMBDA reg, entry : RegisterEngine(reg, entry[1], entry[2]).reg, NewRegistry(width), builtins)

Known(reg, spec) == \E i \in DOMAIN reg.specs : reg.specs[i].spec = spec

(* Mutant: the width of the flags is not looked at.                         *)
RegisterPluginUnbounded(reg, spec) ==
  IF Reserved(spec.name) THEN Refuse(reg)
  ELSE IF spec.name \in DOMAIN reg.byName
       THEN IF Known(reg, spec) THEN Accept(reg) ELSE Refuse(reg)
       ELSE Accept([Insert(reg, reg.next, spec) EXCEPT !.next = @ + 1])

RegisterPlugin(reg, spec) ==
  IF Reserved(spec.name) THEN Refuse(reg)
  ELSE IF spec.name \in DOMAIN reg.byName
       THEN IF Known(reg, spec) THEN Accept(reg) ELSE Refuse(reg)
       ELSE IF reg.next = NoBit \/ reg.next >= reg.width
            THEN Refuse(reg)
            ELSE Accept([Insert(reg, reg.next, spec) EXCEPT !.next = @ + 1])

(* The mask a lookup hands out, cast to the width of the flags: a bit that  *)
(* does not fit is cut off.                                                 *)
FlagMask(reg, name) ==
  IF name \in DOMAIN reg.byName THEN {reg.byName[name]} \cap 0 .. (reg.width - 1) ELSE {}

(* One bit per name, one name per bit, every bit within the width and below *)
(* the next free one; the specs ascend, so entries() sorts nothing.         *)
Sound(width, byName, specs, next) ==
  /\ width \in Nat /\ next \in Nat \cup {NoBit} /\ next <= width
  /\ byName \in [DOMAIN byName -> Nat]
  /\ specs \in Seq({specs[i] : i \in DOMAIN specs})
  /\ \A n \in DOMAIN byName : byName[n] < next
  /\ \A n1, n2 \in DOMAIN byName : byName[n1] = byName[n2] => n1 = n2
  /\ \A i \in DOMAIN specs :
       specs[i].spec.name \in DOMAIN byName /\ specs[i].bit = byName[specs[i].spec.name]
  /\ \A i, j \in DOMAIN specs : i < j => specs[i].bit < specs[j].bit

RegistryOK(reg) ==
  /\ reg = [width |-> reg.width, byName |-> reg.byName, specs |-> reg.specs, next |-> reg.next]
  /\ Sound(reg.width, reg.byName, reg.specs, reg.next)

-----------------------------------------------------------------------------
(* Topics: handles count from 0, in order of registration.                  *)

NewTopics == [byName |-> EmptyMap, specs |-> <<>>]

RegisterTopic(reg, spec) ==
  IF Reserved(spec.name) THEN Refuse(reg)
  ELSE IF spec.name \in DOMAIN reg.byName
       THEN IF reg.specs[reg.byName[spec.name] + 1] = spec THEN Accept(reg) ELSE Refuse(reg)
       ELSE Accept([byName |-> With(reg.byName, spec.name, Len(reg.specs)),
                    specs |-> Append(reg.specs, spec)])

TopicNamed(reg, handle) == reg.specs[handle + 1].name
=============================================================================
