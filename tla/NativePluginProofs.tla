------------------------- MODULE NativePluginProofs -------------------------
(***************************************************************************)
(* Theorems about NativePluginAdapter, for any number of callers and any   *)
(* limits.  Both counters are compared with the number of threads at       *)
(* certain places, so each step needs how a caller's move changes such a   *)
(* set, and by how much its cardinality: lemmas AtMove and AtCardinality.  *)
(***************************************************************************)
EXTENDS NativePluginAdapter, FiniteSetTheorems, TLAPS

\* The places of a call the breaker has let through and that is still open:
\* PastBreaker is the set of callers there.
PastLabels == {"limit", "enter", "execute", "settle", "fault", "success"}

\* A caller that moves joins or leaves a set of places and nobody else does.
LEMMA AtMove ==
    ASSUME TypeOK, NEW c \in Caller, NEW l \in Label, GoTo(c, l), NEW labels
    PROVE  At(labels)' = IF l \in labels THEN At(labels) \cup {c}
                                         ELSE At(labels) \ {c}
  BY DEF TypeOK, GoTo, At

\* The number of callers at certain places is a natural number, at most all of
\* them, and changes by one when a caller joins or leaves.
LEMMA AtCardinality ==
    ASSUME NEW labels, NEW c \in Caller
    PROVE  /\ Cardinality(At(labels)) \in Nat
           /\ Cardinality(At(labels)) <= Cardinality(Caller)
           /\ Cardinality(Caller) \in Nat
           /\ Cardinality(At(labels) \cup {c}) =
                IF c \in At(labels) THEN Cardinality(At(labels))
                                    ELSE Cardinality(At(labels)) + 1
           /\ Cardinality(At(labels) \ {c}) =
                IF c \in At(labels) THEN Cardinality(At(labels)) - 1
                                    ELSE Cardinality(At(labels))
           /\ c \in At(labels) => Cardinality(At(labels)) > 0
           /\ c \notin At(labels) => Cardinality(At(labels)) < Cardinality(Caller)
<1>1. IsFiniteSet(Caller)
  BY AdapterAssumption
<1>2. At(labels) \subseteq Caller
  BY DEF At
<1>3. /\ IsFiniteSet(At(labels))
      /\ Cardinality(At(labels)) <= Cardinality(Caller)
      /\ Cardinality(At(labels)) = Cardinality(Caller) => At(labels) = Caller
  BY <1>1, <1>2, FS_Subset
<1>4. Cardinality(At(labels)) \in Nat /\ Cardinality(Caller) \in Nat
  BY <1>1, <1>3, FS_CardinalityType
<1>5. Cardinality(At(labels) \cup {c}) =
         IF c \in At(labels) THEN Cardinality(At(labels))
                             ELSE Cardinality(At(labels)) + 1
  BY <1>3, FS_AddElement
<1>6. Cardinality(At(labels) \ {c}) =
         IF c \in At(labels) THEN Cardinality(At(labels)) - 1
                             ELSE Cardinality(At(labels))
  BY <1>3, FS_RemoveElement
<1>7. c \in At(labels) => Cardinality(At(labels)) > 0
  <2>1. c \in At(labels) => Cardinality(At(labels)) # 0
    BY <1>3, FS_EmptySet
  <2>2. QED
    BY <2>1, <1>4
<1>8. c \notin At(labels) => Cardinality(At(labels)) < Cardinality(Caller)
  <2>1. c \notin At(labels) => Cardinality(At(labels)) # Cardinality(Caller)
    BY <1>3
  <2>2. QED
    BY <2>1, <1>3, <1>4
<1>9. QED
  BY <1>3, <1>4, <1>5, <1>6, <1>7, <1>8

-----------------------------------------------------------------------------
\* The two counters never leave their ranges: with ActiveExact the decrement
\* after Execute finds a positive count.
Inv == TypeOK /\ ActiveExact

LEMMA InvInit == Init => Inv
<1> SUFFICES ASSUME Init PROVE Inv
  OBVIOUS
<1>1. TypeOK
  BY DEF Init, TypeOK, Label
<1>2. At({"execute"}) = {}
  BY DEF Init, At
<1>3. ActiveExact
  BY <1>2, FS_EmptySet DEF Init, ActiveExact
<1>4. QED
  BY <1>1, <1>3 DEF Inv

LEMMA InvStep == Inv /\ [Next]_vars => Inv'
<1> SUFFICES ASSUME Inv, [Next]_vars PROVE Inv'
  OBVIOUS
<1> USE DEF Inv
<1> DEFINE E == At({"execute"})
\* A step of one caller, by whether it starts and ends inside the plugin.
<1>a. ASSUME NEW c \in Caller, NEW l \in Label, GoTo(c, l),
             pc[c] # "execute", l # "execute", m_ActiveThreads' = m_ActiveThreads
      PROVE  ActiveExact'
  <2>1. E' = E \ {c}
    BY <1>a, AtMove
  <2>2. c \notin E
    BY <1>a DEF At
  <2>3. Cardinality(E') = Cardinality(E)
    BY <2>1, <2>2, AtCardinality
  <2>4. QED
    BY <1>a, <2>3 DEF ActiveExact
<1>b. ASSUME NEW c \in Caller, NEW l \in Label, GoTo(c, l),
             pc[c] = "execute", l # "execute",
             m_ActiveThreads' = m_ActiveThreads - 1
      PROVE  ActiveExact' /\ m_ActiveThreads' \in Nat
  <2>1. E' = E \ {c}
    BY <1>b, AtMove
  <2>0. c \in E
    BY <1>b DEF At
  <2>2. Cardinality(E) \in Nat /\ Cardinality(E) > 0
        /\ Cardinality(E') = Cardinality(E) - 1
    BY <2>0, <2>1, AtCardinality
  <2>3. QED
    BY <1>b, <2>2 DEF ActiveExact
<1>1. CASE \E c \in Caller, k \in Key \cup {NoKey} : Call(c, k)
  BY <1>1, <1>a DEF Call, GoTo, TypeOK, Label
<1>2. CASE \E c \in Caller : TestShutdown(c) \/ TestBreaker(c) \/ TestLimit(c)
  BY <1>2, <1>a DEF TestShutdown, TestBreaker, TestLimit, GoTo, TypeOK, Label
<1>3. CASE \E c \in Caller : Enter(c)
  <2> PICK c \in Caller : Enter(c)
    BY <1>3
  <2>1. TypeOK'
    BY DEF Enter, GoTo, TypeOK, Label
  <2>2. E' = E \cup {c}
    BY AtMove DEF Enter, Label
  <2>5. c \notin E
    BY DEF Enter, At
  <2>6. Cardinality(E') = Cardinality(E) + 1
    BY <2>2, <2>5, AtCardinality
  <2>3. ActiveExact'
    BY <2>6 DEF Enter, ActiveExact
  <2>4. QED
    BY <2>1, <2>3
<1>4. CASE \E c \in Caller : ExecuteThrows(c) \/ ExecuteReturns(c)
  BY <1>4, <1>b DEF ExecuteThrows, ExecuteReturns, GoTo, TypeOK, Label
<1>5. CASE \E c \in Caller : ReportCancelled(c)
  BY <1>5, <1>a DEF ReportCancelled, GoTo, TypeOK, Label
<1>6. CASE \E c \in Caller : Settle(c)
  <2> PICK c \in Caller : Settle(c)
    BY <1>6
  <2>1. PICK late \in BOOLEAN : GoTo(c, IF late THEN "fault" ELSE "success")
    BY DEF Settle
  <2>2. QED
    BY <2>1, <1>a DEF Settle, GoTo, TypeOK, Label
<1>7. CASE \E c \in Caller : CountFault(c) \/ ResetFaults(c)
  BY <1>7, <1>a DEF CountFault, ResetFaults, GoTo, TypeOK, Label
<1>8. CASE (\E k \in Key : Cancel(k)) \/ Shutdown \/ UNCHANGED vars
  BY <1>8 DEF Cancel, Shutdown, vars, TypeOK, ActiveExact, At
<1>9. QED
  BY <1>1, <1>2, <1>3, <1>4, <1>5, <1>6, <1>7, <1>8 DEF Next, CallStep

\* Types: in particular m_ActiveThreads never drops below zero.
THEOREM TypeCorrect == Spec => []TypeOK
  BY InvInit, InvStep, PTL DEF Spec, Inv

\* m_ActiveThreads is the number of threads inside the plugin, whatever way
\* they leave it.
THEOREM ActiveCountExact == Spec => []ActiveExact
  BY InvInit, InvStep, PTL DEF Spec, Inv

-----------------------------------------------------------------------------
\* A caller passes the breaker with the count at most kMaxFaults - 1 and at
\* most all the other callers past it; a counted fault trades a caller for a
\* fault.
LEMMA FaultsStep == TypeOK /\ FaultsBounded /\ [Next]_vars => FaultsBounded'
<1> SUFFICES ASSUME TypeOK, FaultsBounded, [Next]_vars PROVE FaultsBounded'
  OBVIOUS
<1> DEFINE P == At(PastLabels)
<1>p. PastBreaker = P /\ PastBreaker' = P'
  BY DEF PastBreaker, PastLabels
<1>n. m_FaultCount \in Nat /\ kMaxFaults \in Nat \ {0}
  BY AdapterAssumption DEF TypeOK
\* A step that does not bring its caller past the breaker, and counts nothing.
<1>a. ASSUME NEW c \in Caller, NEW l \in Label, GoTo(c, l),
             m_FaultCount' = m_FaultCount,
             pc[c] \in PastLabels \/ l \notin PastLabels
      PROVE  FaultsBounded'
  <2>0. pc[c] \in PastLabels => c \in P
    BY DEF At
  <2>1. P' = P \ {c} \/ (c \in P /\ P' = P \cup {c})
    BY <1>a, <2>0, AtMove
  <2>c. Cardinality(P) \in Nat /\ Cardinality(Caller) \in Nat
    BY AtCardinality
  <2>2. Cardinality(P') = Cardinality(P) \/ Cardinality(P') = Cardinality(P) - 1
    <3>1. CASE P' = P \ {c}
      BY <3>1, AtCardinality
    <3>2. CASE c \in P /\ P' = P \cup {c}
      BY <3>2, AtCardinality
    <3>3. QED
      BY <2>1, <3>1, <3>2
  <2>3. QED
    BY <1>a, <1>p, <1>n, <2>c, <2>2 DEF FaultsBounded
<1>b. ASSUME NEW c \in Caller, GoTo(c, "idle"), pc[c] \in PastLabels
      PROVE  /\ m_FaultCount' = m_FaultCount + 1 => FaultsBounded'
             /\ m_FaultCount' = 0 => FaultsBounded'
  <2>0. c \in P
    BY <1>b DEF At
  <2>1. P' = P \ {c} /\ c \in P
    BY <1>b, <2>0, AtMove DEF Label, PastLabels
  <2>2. Cardinality(P') = Cardinality(P) - 1
    BY <2>1, AtCardinality
  <2>3. Cardinality(P) \in Nat /\ Cardinality(Caller) \in Nat
    BY AtCardinality
  <2>4. QED
    BY <1>p, <1>n, <2>2, <2>3 DEF FaultsBounded
<1>1. CASE \E c \in Caller, k \in Key \cup {NoKey} : Call(c, k)
  BY <1>1, <1>a DEF Call, Label, PastLabels
<1>2. CASE \E c \in Caller : TestShutdown(c)
  BY <1>2, <1>a DEF TestShutdown, Label, PastLabels
<1>3. CASE \E c \in Caller : TestBreaker(c)
  <2> PICK c \in Caller : TestBreaker(c)
    BY <1>3
  <2>1. CASE IsDisabled
    BY <2>1, <1>a DEF TestBreaker, Label, PastLabels
  <2>2. CASE ~IsDisabled
    <3>0. c \notin P
      BY DEF TestBreaker, At, PastLabels
    <3>1. P' = P \cup {c} /\ c \notin P
      BY <2>2, <3>0, AtMove DEF TestBreaker, Label, PastLabels
    <3>2. /\ Cardinality(P') = Cardinality(P) + 1
          /\ Cardinality(P) < Cardinality(Caller)
      BY <3>1, AtCardinality
    <3>3. m_FaultCount' = m_FaultCount /\ m_FaultCount <= kMaxFaults - 1
      BY <2>2, <1>n DEF TestBreaker, IsDisabled
    <3>4. Cardinality(P) \in Nat /\ Cardinality(Caller) \in Nat
      BY AtCardinality
    <3>5. QED
      BY <1>p, <1>n, <3>2, <3>3, <3>4 DEF FaultsBounded
  <2>3. QED
    BY <2>1, <2>2
<1>4. CASE \E c \in Caller : TestLimit(c) \/ Enter(c)
  BY <1>4, <1>a DEF TestLimit, Enter, Label, PastLabels
<1>5. CASE \E c \in Caller : ExecuteThrows(c) \/ ExecuteReturns(c)
  BY <1>5, <1>a DEF ExecuteThrows, ExecuteReturns, Label, PastLabels
<1>6. CASE \E c \in Caller : ReportCancelled(c)
  BY <1>6, <1>a DEF ReportCancelled, Label, PastLabels
<1>7. CASE \E c \in Caller : Settle(c)
  <2> PICK c \in Caller : Settle(c)
    BY <1>7
  <2>1. PICK late \in BOOLEAN : GoTo(c, IF late THEN "fault" ELSE "success")
    BY DEF Settle
  <2>2. QED
    BY <2>1, <1>a DEF Settle, Label, PastLabels
<1>8. CASE \E c \in Caller : CountFault(c) \/ ResetFaults(c)
  BY <1>8, <1>b DEF CountFault, ResetFaults, PastLabels
<1>9. CASE (\E k \in Key : Cancel(k)) \/ Shutdown \/ UNCHANGED vars
  BY <1>9 DEF Cancel, Shutdown, vars, FaultsBounded, PastBreaker, At
<1>10. QED
  BY <1>1, <1>2, <1>3, <1>4, <1>5, <1>6, <1>7, <1>8, <1>9 DEF Next, CallStep

\* However many callers race past the breaker, m_FaultCount exceeds
\* kMaxFaults - 1 by at most one per caller.
THEOREM FaultCountBounded == Spec => []FaultsBounded
<1>1. Init => FaultsBounded
  <2> SUFFICES ASSUME Init PROVE FaultsBounded
    OBVIOUS
  <2>1. PastBreaker = {}
    BY DEF Init, PastBreaker, At
  <2>2. Cardinality({}) = 0
    BY FS_EmptySet
  <2>3. Cardinality(Caller) \in Nat /\ kMaxFaults \in Nat \ {0}
    BY AdapterAssumption, FS_CardinalityType
  <2>4. QED
    BY <2>1, <2>2, <2>3 DEF Init, FaultsBounded
<1>2. QED
  BY <1>1, FaultsStep, TypeCorrect, PTL DEF Spec

=============================================================================
