-------------------------- MODULE GuiPayloadProofs --------------------------
(***************************************************************************)
(* Proofs about GuiPayload, for every set of keys and values, every limit  *)
(* and any number of writes by the caller.                                 *)
(***************************************************************************)
EXTENDS GuiPayload, FiniteSetTheorems, TLAPS

LEMMA InitType == Init => TypeOK
  BY PayloadAssumption DEF Init, TypeOK, Maps, Empty, Steps

\* A turn of values.forEach keeps the copy a map.
LEMMA CopyEntryType ==
    ASSUME TypeOK, NEW k \in Keys, CopyEntry(k, "values")
    PROVE  copy' \in Maps /\ pc' \in {"values", "refused"}
  <1>1. values[k] \in Values \cup {Absent}
    BY DEF TypeOK, Maps
  <1> QED
    BY <1>1 DEF CopyEntry, TypeOK, Maps

LEMMA NextType == TypeOK /\ [Next]_vars => TypeOK'
  <1> SUFFICES ASSUME TypeOK, [Next]_vars PROVE TypeOK'
    OBVIOUS
  <1> USE PayloadAssumption
  <1>1. ASSUME NEW k \in Keys, VisitValue(k) PROVE TypeOK'
    BY <1>1, CopyEntryType DEF VisitValue, TypeOK, Steps
  <1>2. ASSUME NEW k \in Keys, VisitKey(k) \/ CopyKey(k) PROVE TypeOK'
    BY <1>2 DEF VisitKey, CopyKey, TypeOK, Steps
  <1>3. ASSUME NEW k \in Keys, ToggleRemoved(k) PROVE TypeOK'
    BY <1>3 DEF ToggleRemoved, Mutable, Touch, TypeOK
  <1>4. ASSUME NEW k \in Keys, NEW v \in Values \cup {Absent}, Put(k, v) PROVE TypeOK'
    BY <1>4 DEF Put, Mutable, Touch, TypeOK, Maps
  <1>5. CASE CheckArguments \/ CheckValuesSize \/ CheckKeysSize \/ CheckDisjoint
    BY <1>5 DEF CheckArguments, CheckValuesSize, CheckKeysSize, CheckDisjoint, TypeOK, Steps
  <1>6. CASE EndValues \/ EndKeys \/ EndKeysCopy \/ UNCHANGED vars
    BY <1>6 DEF EndValues, EndKeys, EndKeysCopy, vars, TypeOK, Steps
  <1> QED
    BY <1>1, <1>2, <1>3, <1>4, <1>5, <1>6 DEF Next, Construct, Mutate

THEOREM TypeCorrect == Spec => []TypeOK
  BY InitType, NextType, PTL DEF Spec

-----------------------------------------------------------------------------
(* What a published payload is *)

\* Every copied entry was checked; before the copies are made they are empty;
\* a key that is still to be reached has left no trace; what an iteration left
\* behind for an untouched key is what the caller holds.
CopyChecked ==
    \A k \in Keys : copy[k] # Absent => k \in ValidKeys /\ copy[k] \in ValidValues

NoTraceYet ==
    /\ pc \in {"arguments", "valuesSize"} => unvisited = Keys /\ copy = Empty
    /\ pc = "values" => \A k \in unvisited : copy[k] = Absent
    /\ pc \in {"arguments", "valuesSize", "values", "keysSize", "keys"} => keyCopy = {}
    /\ pc = "keysCopy" => keyCopy \cap unvisited = {}

UntouchedCopied ==
    /\ pc = "values" => \A k \in untouched \ unvisited : copy[k] = values[k]
    /\ pc \in {"keysSize", "keys", "keysCopy", "disjoint", "published"} =>
         \A k \in untouched : copy[k] = values[k]
    /\ pc = "keysCopy" => \A k \in untouched \ unvisited : k \in keyCopy <=> k \in removed
    /\ pc = "disjoint" \/ (pc = "published" /\ args.kind = "delta") =>
         \A k \in untouched : k \in keyCopy <=> k \in removed
    /\ pc \in {"keysSize", "keys", "keysCopy", "disjoint"} => args.kind = "delta"

PayloadInv == TypeOK /\ CopyChecked /\ NoTraceYet /\ UntouchedCopied /\ NeverUpdatedAndRemoved

LEMMA InitPayloadInv == Init => PayloadInv
  BY InitType
  DEF Init, PayloadInv, CopyChecked, NoTraceYet, UntouchedCopied, NeverUpdatedAndRemoved,
      Published, Empty, KeySet

LEMMA VisitValueKeeps ==
    ASSUME PayloadInv, NEW k \in Keys, VisitValue(k)
    PROVE  CopyChecked' /\ NoTraceYet' /\ UntouchedCopied' /\ NeverUpdatedAndRemoved'
  <1>1. /\ pc = "values" /\ unvisited' = unvisited \ {k}
        /\ UNCHANGED <<values, removed, args, keyCopy, untouched>>
        /\ copy \in Maps /\ values \in Maps
    BY DEF VisitValue, PayloadInv, TypeOK
  <1>2. copy[k] = Absent
    BY DEF VisitValue, PayloadInv, NoTraceYet
  <1>3. \/ pc' = "refused" /\ copy' = copy
        \/ /\ pc' = "values"
           /\ copy' = [copy EXCEPT ![k] = values[k]]
           /\ values[k] # Absent => k \in ValidKeys /\ values[k] \in ValidValues
    BY <1>1, <1>2 DEF VisitValue, CopyEntry, Maps
  <1>4. CASE pc' = "refused" /\ copy' = copy
    BY <1>1, <1>4
    DEF PayloadInv, CopyChecked, NoTraceYet, UntouchedCopied, NeverUpdatedAndRemoved, Published
  <1>5. CASE /\ pc' = "values"
             /\ copy' = [copy EXCEPT ![k] = values[k]]
             /\ values[k] # Absent => k \in ValidKeys /\ values[k] \in ValidValues
    <2>1. copy'[k] = values[k] /\ \A j \in Keys \ {k} : copy'[j] = copy[j]
      BY <1>1, <1>5 DEF Maps
    <2>2. CopyChecked'
      BY <1>5, <2>1 DEF PayloadInv, CopyChecked
    <2>3. NoTraceYet'
      BY <1>1, <1>5, <2>1 DEF PayloadInv, TypeOK, NoTraceYet
    <2>4. UntouchedCopied'
      BY <1>1, <1>5, <2>1 DEF PayloadInv, TypeOK, UntouchedCopied
    <2> QED
      BY <1>5, <2>2, <2>3, <2>4 DEF NeverUpdatedAndRemoved, Published
  <1> QED
    BY <1>3, <1>4, <1>5

\* The caller's write moves a key out of "untouched" and leaves the copies alone.
LEMMA MutateKeeps ==
    ASSUME PayloadInv, Mutate
    PROVE  CopyChecked' /\ NoTraceYet' /\ UntouchedCopied' /\ NeverUpdatedAndRemoved'
  <1>1. PICK k \in Keys :
          /\ untouched' = untouched \ {k}
          /\ UNCHANGED <<args, pc, unvisited, copy, keyCopy>>
          /\ \A j \in Keys \ {k} : values'[j] = values[j] /\ (j \in removed' <=> j \in removed)
          /\ pc \notin {"published", "refused"}
    BY DEF Mutate, ToggleRemoved, Put, Touch, Mutable, PayloadInv, TypeOK, Maps
  <1> QED
    BY <1>1
    DEF PayloadInv, TypeOK, CopyChecked, NoTraceYet, UntouchedCopied, NeverUpdatedAndRemoved,
        Published

LEMMA NextPayloadInv == PayloadInv /\ [Next]_vars => PayloadInv'
  <1> SUFFICES ASSUME PayloadInv, [Next]_vars PROVE PayloadInv'
    OBVIOUS
  <1> DEFINE Rest == CopyChecked /\ NoTraceYet /\ UntouchedCopied /\ NeverUpdatedAndRemoved
  <1> USE DEF PayloadInv, TypeOK, CopyChecked, NoTraceYet, UntouchedCopied,
              NeverUpdatedAndRemoved, Published
  <1>1. ASSUME CheckArguments \/ CheckValuesSize \/ CheckKeysSize PROVE Rest'
    BY <1>1 DEF CheckArguments, CheckValuesSize, CheckKeysSize, Empty
  <1>2. ASSUME EndValues PROVE Rest'
    BY <1>2 DEF EndValues, Arguments
  <1>3. ASSUME EndKeys \/ EndKeysCopy PROVE Rest'
    BY <1>3 DEF EndKeys, EndKeysCopy
  <1>4. ASSUME CheckDisjoint PROVE Rest'
    BY <1>4 DEF CheckDisjoint, Overlapping, KeySet
  <1>5. ASSUME NEW k \in Keys, VisitKey(k) \/ CopyKey(k) PROVE Rest'
    BY <1>5 DEF VisitKey, CopyKey
  <1>6. ASSUME UNCHANGED vars PROVE Rest'
    BY <1>6 DEF vars, KeySet
  <1>7. ASSUME Mutate PROVE Rest'
    BY <1>7, MutateKeeps
  <1>8. ASSUME NEW k \in Keys, VisitValue(k) PROVE Rest'
    BY <1>8, VisitValueKeeps
  <1>9. Rest'
    BY <1>1, <1>2, <1>3, <1>4, <1>5, <1>6, <1>7, <1>8 DEF Next, Construct
  <1>10. TypeOK'
    BY NextType
  <1> QED
    BY <1>9, <1>10

LEMMA PayloadInvariance == Spec => []PayloadInv
  BY InitPayloadInv, NextPayloadInv, PTL DEF Spec

\* No field is both updated and removed, however the caller writes meanwhile.
THEOREM NeverUpdatedAndRemovedHolds == Spec => []NeverUpdatedAndRemoved
  BY PayloadInvariance, PTL DEF PayloadInv

\* Every published entry has a valid key and value.
THEOREM ValuesValidHolds == Spec => []ValuesValid
  <1>1. PayloadInv => ValuesValid
    BY DEF PayloadInv, CopyChecked, ValuesValid, KeySet
  <1> QED
    BY <1>1, PayloadInvariance, PTL

\* What the caller leaves alone is published as it is.
THEOREM UntouchedPublishedHolds == Spec => []UntouchedPublished
  <1>1. PayloadInv => UntouchedPublished
    BY DEF PayloadInv, UntouchedCopied, UntouchedPublished, Published
  <1> QED
    BY <1>1, PayloadInvariance, PTL

-----------------------------------------------------------------------------
(* What is accepted, when the caller does not write *)

ValidEntry(k) == values[k] # Absent => k \in ValidKeys /\ values[k] \in ValidValues

\* What the steps done so far have established of the caller's arguments; a
\* refusal is deserved.
AcceptInv ==
    mutations = 0 =>
        /\ untouched = Keys
        /\ pc = "refused" => ~Acceptable
        /\ pc \notin {"arguments", "refused"} =>
              args.complete /\ (args.kind = "delta" => args.to > args.from)
        /\ pc \notin {"arguments", "valuesSize", "refused"} =>
              Cardinality(KeySet(values)) <= MaxFields
        /\ pc = "values" => \A k \in Keys \ unvisited : ValidEntry(k)
        /\ pc \in {"keysSize", "keys", "keysCopy", "disjoint", "published"} =>
              \A k \in Keys : ValidEntry(k)
        /\ pc \in {"keys", "keysCopy", "disjoint", "published"} /\ args.kind = "delta" =>
              Cardinality(removed) <= MaxFields
        /\ pc = "keysSize" => unvisited = Keys
        /\ pc = "keys" => removed \ unvisited \subseteq ValidKeys
        /\ pc \in {"keysCopy", "disjoint", "published"} /\ args.kind = "delta" =>
              removed \subseteq ValidKeys
        /\ pc = "published" /\ args.kind = "delta" => removed \cap KeySet(values) = {}

\* The limits are compared with numbers.
LEMMA Counted ==
    ASSUME TypeOK
    PROVE  /\ Cardinality(KeySet(values)) \in Nat /\ Cardinality(removed) \in Nat
           /\ MaxFields \in Nat
  <1>1. KeySet(values) \subseteq Keys /\ removed \subseteq Keys
    BY DEF KeySet, TypeOK
  <1> QED
    BY <1>1, FS_Subset, FS_CardinalityType, PayloadAssumption

\* With a caller that does not write, the copies are its collections.
LEMMA CopiesExact ==
    ASSUME PayloadInv, AcceptInv, mutations = 0, pc = "disjoint"
    PROVE  Overlapping <=> removed \cap KeySet(values) # {}
  <1>1. /\ \A k \in Keys : copy[k] = values[k] /\ (k \in keyCopy <=> k \in removed)
        /\ keyCopy \subseteq Keys /\ removed \subseteq Keys
    BY DEF PayloadInv, UntouchedCopied, AcceptInv, TypeOK
  <1>2. KeySet(copy) = KeySet(values) /\ keyCopy = removed
    BY <1>1 DEF KeySet
  <1> QED
    BY <1>2 DEF Overlapping

LEMMA InitAcceptInv == Init => AcceptInv
  BY DEF Init, AcceptInv

LEMMA NextAcceptInv == PayloadInv /\ AcceptInv /\ [Next]_vars => AcceptInv'
  <1> SUFFICES ASSUME PayloadInv, AcceptInv, [Next]_vars, mutations' = 0 PROVE AcceptInv'
    BY DEF AcceptInv
  <1>0. TypeOK
    BY DEF PayloadInv
  <1>1. CASE Mutate
    BY <1>0, <1>1 DEF Mutate, ToggleRemoved, Put, Touch, TypeOK
  <1>2. CASE UNCHANGED vars
    BY <1>2 DEF vars, AcceptInv, Acceptable, ValidEntry, KeySet
  <1>3. SUFFICES ASSUME Construct PROVE AcceptInv'
    BY <1>1, <1>2 DEF Next
  <1>4. UNCHANGED <<values, removed, args, mutations, untouched>> /\ mutations = 0 /\ untouched = Keys
    BY <1>3 DEF Construct, CheckArguments, CheckValuesSize, VisitValue, EndValues, CheckKeysSize,
                VisitKey, EndKeys, CopyKey, EndKeysCopy, CheckDisjoint, AcceptInv
  <1>5. (Acceptable' <=> Acceptable) /\ \A k \in Keys : ValidEntry(k)' <=> ValidEntry(k)
    BY <1>4 DEF Acceptable, ValidEntry, KeySet
  <1>6. KeySet(values)' = KeySet(values)
    BY <1>4 DEF KeySet
  <1>7. CASE CheckArguments
    BY <1>4, <1>5, <1>6, <1>7 DEF CheckArguments, AcceptInv, Acceptable
  <1>8. CASE CheckValuesSize
    <2>1. CASE Cardinality(KeySet(values)) > MaxFields
      <3>1. ~Acceptable
        BY <1>0, <2>1, Counted DEF Acceptable
      <3> QED
        BY <1>4, <1>5, <1>6, <1>8, <2>1, <3>1 DEF CheckValuesSize, AcceptInv
    <2>2. CASE ~(Cardinality(KeySet(values)) > MaxFields)
      <3>1. Cardinality(KeySet(values)) <= MaxFields
        BY <1>0, <2>2, Counted
      <3>2. unvisited = Keys
        BY <1>8 DEF CheckValuesSize, PayloadInv, NoTraceYet
      <3> QED
        BY <1>4, <1>5, <1>6, <1>8, <2>2, <3>1, <3>2 DEF CheckValuesSize, AcceptInv
    <2> QED
      BY <2>1, <2>2
  <1>9. ASSUME NEW k \in Keys, VisitValue(k) PROVE AcceptInv'
    <2>1. CASE ValidEntry(k)
      <3>1. pc' = "values" /\ pc = "values" /\ unvisited' = unvisited \ {k}
        BY <1>9, <2>1 DEF VisitValue, CopyEntry, ValidEntry
      <3> QED
        BY <1>4, <1>5, <1>6, <2>1, <3>1 DEF AcceptInv
    <2>2. CASE ~ValidEntry(k)
      <3>1. pc' = "refused"
        BY <1>9, <2>2 DEF VisitValue, CopyEntry, ValidEntry
      <3>2. ~Acceptable
        BY <2>2 DEF Acceptable, ValidEntry, KeySet
      <3> QED
        BY <1>4, <1>5, <3>1, <3>2 DEF AcceptInv
    <2> QED
      BY <2>1, <2>2
  <1>10. CASE EndValues
    BY <1>0, <1>4, <1>5, <1>6, <1>10 DEF EndValues, AcceptInv, TypeOK, Arguments
  <1>11. CASE CheckKeysSize
    <2>1. args.kind = "delta"
      BY <1>11 DEF CheckKeysSize, PayloadInv, UntouchedCopied
    <2>2. CASE Cardinality(removed) > MaxFields
      <3>1. ~Acceptable
        BY <1>0, <2>1, <2>2, Counted DEF Acceptable
      <3> QED
        BY <1>4, <1>5, <1>11, <2>2, <3>1 DEF CheckKeysSize, AcceptInv
    <2>3. CASE ~(Cardinality(removed) > MaxFields)
      <3>1. Cardinality(removed) <= MaxFields
        BY <1>0, <2>3, Counted
      <3>2. unvisited = Keys /\ removed \subseteq Keys
        BY <1>0, <1>4, <1>11 DEF CheckKeysSize, AcceptInv, TypeOK
      <3> QED
        BY <1>4, <1>5, <1>6, <1>11, <2>3, <3>1, <3>2 DEF CheckKeysSize, AcceptInv
    <2> QED
      BY <2>2, <2>3
  <1>12. ASSUME NEW k \in Keys, VisitKey(k) PROVE AcceptInv'
    <2>1. CASE k \in removed /\ k \notin ValidKeys
      <3>1. args.kind = "delta"
        BY <1>12 DEF VisitKey, PayloadInv, UntouchedCopied
      <3> QED
        BY <1>4, <1>5, <1>12, <2>1, <3>1 DEF VisitKey, AcceptInv, Acceptable
    <2>2. CASE ~(k \in removed /\ k \notin ValidKeys)
      BY <1>4, <1>5, <1>6, <1>12, <2>2 DEF VisitKey, AcceptInv
    <2> QED
      BY <2>1, <2>2
  <1>13. CASE EndKeys \/ EndKeysCopy
    BY <1>4, <1>5, <1>6, <1>13 DEF EndKeys, EndKeysCopy, AcceptInv
  <1>14. ASSUME NEW k \in Keys, CopyKey(k) PROVE AcceptInv'
    BY <1>4, <1>5, <1>6, <1>14 DEF CopyKey, AcceptInv
  <1>15. CASE CheckDisjoint
    <2>1. args.kind = "delta" /\ pc = "disjoint"
      BY <1>15 DEF CheckDisjoint, PayloadInv, UntouchedCopied
    <2>2. Overlapping <=> removed \cap KeySet(values) # {}
      BY <1>4, <2>1, CopiesExact
    <2> QED
      BY <1>4, <1>5, <1>6, <1>15, <2>1, <2>2 DEF CheckDisjoint, AcceptInv, Acceptable
  <1> QED
    BY <1>3, <1>7, <1>8, <1>9, <1>10, <1>11, <1>12, <1>13, <1>14, <1>15 DEF Construct

\* A caller that does not write meanwhile has exactly the acceptable arguments
\* published, for any keys, values and limit.
THEOREM AcceptedWhenQuietHolds == Spec => []AcceptedWhenQuiet
  <1>1. AcceptInv => AcceptedWhenQuiet
    BY DEF AcceptInv, AcceptedWhenQuiet, Acceptable, Published, ValidEntry, KeySet
  <1> QED
    BY <1>1, InitPayloadInv, NextPayloadInv, InitAcceptInv, NextAcceptInv, PTL DEF Spec
=============================================================================
