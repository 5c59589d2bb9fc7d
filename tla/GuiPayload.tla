----------------------------- MODULE GuiPayload -----------------------------
(***************************************************************************)
(* Construction of a GuiSnapshot or a GuiDelta from collections the caller *)
(* owns (GuiFieldValidation.copyValues and copyKeys).                      *)
(*                                                                         *)
(* A constructor takes several reads of the caller's map and set: a size,  *)
(* an iteration, a second iteration.  The caller may still be writing to   *)
(* them, so the model takes every read as a step and lets another thread   *)
(* change the collections between two steps.  The collections are          *)
(* weakly consistent ones, like ConcurrentHashMap: an iteration reaches    *)
(* every key once, in any order, and sees it as it is at that moment.      *)
(***************************************************************************)
EXTENDS Integers, FiniteSets

CONSTANTS
    Keys,           \* field keys the caller may use
    ValidKeys,      \* the keys that match KEY_FORM
    Values,         \* field values the caller may use
    ValidValues,    \* the values that are not null and not too long
    Absent,         \* a key that has no value
    MaxFields,      \* 512 in the code
    MaxRevision,    \* bound on the revisions a delta goes between
    MaxMutations    \* bound on the caller's writes during the construction

ASSUME PayloadAssumption ==
    /\ IsFiniteSet(Keys)
    /\ ValidKeys \subseteq Keys
    /\ ValidValues \subseteq Values
    /\ Absent \notin Values
    /\ MaxFields \in Nat /\ MaxRevision \in Nat /\ MaxMutations \in Nat

VARIABLES
    values,     \* the caller's map
    removed,    \* the caller's set of removed keys
    args,       \* the other arguments
    pc,         \* where the constructor is
    unvisited,  \* keys the running iteration has still to reach
    copy,       \* copyValues' copy: the payload's values once published
    keyCopy,    \* copyKeys' copy: the payload's removed keys once published
    mutations,  \* writes of the caller since the constructor was called
    untouched   \* keys the caller has not written since then

vars == <<values, removed, args, pc, unvisited, copy, keyCopy, mutations, untouched>>

Maps == [Keys -> Values \cup {Absent}]
Empty == [k \in Keys |-> Absent]
KeySet(map) == {k \in Keys : map[k] # Absent}
Revisions == 0..MaxRevision

\* "complete": no required argument is null.
Arguments == [kind : {"snapshot", "delta"}, complete : BOOLEAN,
              from : Revisions, to : Revisions]

Steps == {"arguments", "valuesSize", "values", "keysSize", "keys", "keysCopy",
          "disjoint", "published", "refused"}

\* The constructor's variables keep their types.
TypeOK ==
    /\ values \in Maps
    /\ removed \subseteq Keys
    /\ args \in Arguments
    /\ pc \in Steps
    /\ unvisited \subseteq Keys
    /\ copy \in Maps
    /\ keyCopy \subseteq Keys
    /\ mutations \in 0..MaxMutations
    /\ untouched \subseteq Keys

Init ==
    /\ values \in Maps
    /\ removed \in SUBSET Keys
    /\ args \in Arguments
    /\ pc = "arguments"
    /\ unvisited = Keys
    /\ copy = Empty
    /\ keyCopy = {}
    /\ mutations = 0
    /\ untouched = Keys

-----------------------------------------------------------------------------
(* The constructor *)

\* The null checks, and a delta's revisions: toRevision.isAfter(fromRevision).
CheckArguments ==
    /\ pc = "arguments"
    /\ pc' = IF args.complete /\ (args.kind = "delta" => args.to > args.from)
               THEN "valuesSize" ELSE "refused"
    /\ UNCHANGED <<values, removed, args, unvisited, copy, keyCopy, mutations, untouched>>

\* An off-by-one at the limit.
CheckValuesSizeStrictly ==
    /\ pc = "valuesSize"
    /\ pc' = IF Cardinality(KeySet(values)) >= MaxFields THEN "refused" ELSE "values"
    /\ UNCHANGED <<values, removed, args, unvisited, copy, keyCopy, mutations, untouched>>

\* copyValues looks at the size of the caller's map once, before it iterates.
CheckValuesSize ==
    /\ pc = "valuesSize"
    /\ pc' = IF Cardinality(KeySet(values)) > MaxFields THEN "refused" ELSE "values"
    /\ UNCHANGED <<values, removed, args, unvisited, copy, keyCopy, mutations, untouched>>

\* The turn without a look at the value.
CopyEntryUnchecked(k, next) ==
    IF values[k] = Absent
      THEN pc' = next /\ UNCHANGED copy
    ELSE IF k \notin ValidKeys
      THEN pc' = "refused" /\ UNCHANGED copy
    ELSE pc' = next /\ copy' = [copy EXCEPT ![k] = values[k]]

\* One turn of values.forEach: the entry that is checked is the entry copied.
CopyEntry(k, next) ==
    IF values[k] = Absent
      THEN pc' = next /\ UNCHANGED copy
    ELSE IF k \notin ValidKeys \/ values[k] \notin ValidValues
      THEN pc' = "refused" /\ UNCHANGED copy
    ELSE pc' = next /\ copy' = [copy EXCEPT ![k] = values[k]]

VisitValue(k) ==
    /\ pc = "values"
    /\ k \in unvisited
    /\ unvisited' = unvisited \ {k}
    /\ CopyEntry(k, "values")
    /\ UNCHANGED <<values, removed, args, keyCopy, mutations, untouched>>

\* The snapshot is complete; the delta goes on with the removed keys.
EndValues ==
    /\ pc = "values" /\ unvisited = {}
    /\ pc' = IF args.kind = "snapshot" THEN "published" ELSE "keysSize"
    /\ unvisited' = Keys
    /\ UNCHANGED <<values, removed, args, copy, keyCopy, mutations, untouched>>

CheckKeysSize ==
    /\ pc = "keysSize"
    /\ pc' = IF Cardinality(removed) > MaxFields THEN "refused" ELSE "keys"
    /\ UNCHANGED <<values, removed, args, unvisited, copy, keyCopy, mutations, untouched>>

\* One turn of keys.forEach(requireKey): the key is checked, not copied.
VisitKey(k) ==
    /\ pc = "keys"
    /\ k \in unvisited
    /\ unvisited' = unvisited \ {k}
    /\ pc' = IF k \in removed /\ k \notin ValidKeys THEN "refused" ELSE "keys"
    /\ UNCHANGED <<values, removed, args, copy, keyCopy, mutations, untouched>>

\* The second iteration is left out.
EndKeysWithoutCopy ==
    /\ pc = "keys" /\ unvisited = {}
    /\ pc' = "disjoint"
    /\ UNCHANGED <<values, removed, args, unvisited, copy, keyCopy, mutations, untouched>>

EndKeys ==
    /\ pc = "keys" /\ unvisited = {}
    /\ pc' = "keysCopy"
    /\ unvisited' = Keys
    /\ UNCHANGED <<values, removed, args, copy, keyCopy, mutations, untouched>>

\* Set.copyOf(keys) iterates over the caller's set a second time.
CopyKey(k) ==
    /\ pc = "keysCopy"
    /\ k \in unvisited
    /\ unvisited' = unvisited \ {k}
    /\ keyCopy' = IF k \in removed THEN keyCopy \cup {k} ELSE keyCopy
    /\ UNCHANGED <<values, removed, args, pc, copy, mutations, untouched>>

EndKeysCopy ==
    /\ pc = "keysCopy" /\ unvisited = {}
    /\ pc' = "disjoint"
    /\ UNCHANGED <<values, removed, args, unvisited, copy, keyCopy, mutations, untouched>>

\* Collections.disjoint of the caller's collections.
OverlappingArguments == KeySet(values) \cap removed # {}

\* Collections.disjoint of the two copies.
Overlapping == KeySet(copy) \cap keyCopy # {}

CheckDisjoint ==
    /\ pc = "disjoint"
    /\ pc' = IF Overlapping THEN "refused" ELSE "published"
    /\ UNCHANGED <<values, removed, args, unvisited, copy, keyCopy, mutations, untouched>>

-----------------------------------------------------------------------------
(* The caller's other thread *)

Mutable == pc \notin {"published", "refused"} /\ mutations < MaxMutations

Touch(k) ==
    /\ mutations' = mutations + 1
    /\ untouched' = untouched \ {k}

Put(k, v) ==
    /\ Mutable /\ values[k] # v
    /\ values' = [values EXCEPT ![k] = v]
    /\ Touch(k)
    /\ UNCHANGED <<removed, args, pc, unvisited, copy, keyCopy>>

ToggleRemoved(k) ==
    /\ Mutable
    /\ removed' = IF k \in removed THEN removed \ {k} ELSE removed \cup {k}
    /\ Touch(k)
    /\ UNCHANGED <<values, args, pc, unvisited, copy, keyCopy>>

-----------------------------------------------------------------------------
Construct ==
    \/ CheckArguments \/ CheckValuesSize \/ EndValues
    \/ CheckKeysSize \/ EndKeys \/ EndKeysCopy \/ CheckDisjoint
    \/ \E k \in Keys : VisitValue(k) \/ VisitKey(k) \/ CopyKey(k)

Mutate ==
    \E k \in Keys : ToggleRemoved(k) \/ \E v \in Values \cup {Absent} : Put(k, v)

Next == Construct \/ Mutate

Spec == Init /\ [][Next]_vars

-----------------------------------------------------------------------------
(* Properties *)

Published == pc = "published"

\* No field is both updated and removed in a published payload, whatever the
\* caller writes meanwhile: the check is made on the copies (GuiDelta).
NeverUpdatedAndRemoved == Published => KeySet(copy) \cap keyCopy = {}

\* Every published entry has a valid key and a valid value, whatever the caller
\* writes meanwhile: the entry that was checked is the one that is copied.
ValuesValid ==
    Published => \A k \in KeySet(copy) : k \in ValidKeys /\ copy[k] \in ValidValues

\* A payload is the caller's data wherever the caller leaves it alone: keys not
\* written during the construction are published exactly as they are.
UntouchedPublished ==
    Published => \A k \in untouched :
        /\ copy[k] = values[k]
        /\ args.kind = "delta" => (k \in keyCopy <=> k \in removed)

\* What the constructors accept, said without their steps.
Acceptable ==
    /\ args.complete
    /\ Cardinality(KeySet(values)) <= MaxFields
    /\ \A k \in KeySet(values) : k \in ValidKeys /\ values[k] \in ValidValues
    /\ args.kind = "delta" =>
        /\ args.to > args.from
        /\ Cardinality(removed) <= MaxFields
        /\ removed \subseteq ValidKeys
        /\ removed \cap KeySet(values) = {}

\* With a caller that does not write meanwhile, exactly the acceptable
\* arguments are published; nothing acceptable is refused.
AcceptedWhenQuiet ==
    mutations = 0 => (Published => Acceptable) /\ (pc = "refused" => ~Acceptable)

\* "GUI field key is invalid": no published payload removes an invalid key.
RemovedKeysValid == Published => keyCopy \subseteq ValidKeys
=============================================================================
