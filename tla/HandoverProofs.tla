--------------------------- MODULE HandoverProofs ---------------------------
(***************************************************************************)
(* Theorem about Handover: what it promises is enough for no version to    *)
(* meet the state of another.                                              *)
(***************************************************************************)
EXTENDS Handover, TLAPS

\* Types, as far as the steps keep them.
Typed ==
    /\ code \in [Script -> Version]
    /\ runs \in [Script -> Version \cup {None}]
    /\ state \in [Kind -> SUBSET Version]

\* While nothing was left broken, a job runs the source that is in place.
OwnCode == \A s \in Script : runs[s] \in {None, code[s]}

\* The inductive invariant: whatever may run has its own code and its own state.
OwnInv == Typed /\ (~broken => OwnCode /\ (Paused \/ Own))

\* What runs was started from the source in place and finds the state of those.
RunsOnOwnState ==
    ~broken => \A s \in Script : runs[s] # None => runs[s] = code[s] /\ Own

\* In Handover whatever runs, runs the sources in place on the state that those have
\* written, unless a source could once not be put back.
THEOREM HandoverKeepsVersionsApart == Spec => []RunsOnOwnState
<1>1. Init => OwnInv
  BY DEF Init, OwnInv, Typed, OwnCode, Own
<1>2. OwnInv /\ [Next]_vars => OwnInv'
  <2> SUFFICES ASSUME OwnInv, [Next]_vars PROVE OwnInv'
    OBVIOUS
  <2>1. ASSUME NEW s \in Script, Run(s) PROVE OwnInv'
    BY <2>1 DEF Run, OwnInv, Typed, OwnCode, Paused, Own
  <2>2. ASSUME NEW s \in Script, End(s) PROVE OwnInv'
    BY <2>2 DEF End, OwnInv, Typed, OwnCode, Paused, Own
  <2>3. ASSUME NEW s \in Script, NEW k \in Kind, Write(s, k) PROVE OwnInv'
    <3>1. runs[s] \in Version /\ ~Paused
      BY <2>3 DEF Write, OwnInv, Typed, Paused
    <3>2. Typed'
      BY <2>3, <3>1 DEF Write, OwnInv, Typed
    <3>3. ~broken => Own'
      BY <2>3, <3>1 DEF Write, OwnInv, Typed, OwnCode, Own
    <3> QED BY <2>3, <3>2, <3>3 DEF Write, OwnInv, OwnCode
  <2>4. ASSUME NEW j \in Kind, NEW k \in Kind, Spread(j, k) PROVE OwnInv'
    BY <2>4 DEF Spread, OwnInv, Typed, OwnCode, Paused, Own
  <2>5. CASE Pause
    BY <2>5 DEF Pause, OwnInv, Typed, OwnCode, Paused, Own
  <2>6. ASSUME NEW s \in Script, Replace(s) PROVE OwnInv'
    BY <2>6 DEF Replace, OwnInv, Typed, OwnCode, Paused
  <2>7. CASE Clear
    BY <2>7 DEF Clear, OwnInv, Typed, OwnCode, Paused
  <2>8. CASE Resume
    BY <2>8 DEF Resume, OwnInv, Typed, OwnCode, Own
  <2>9. CASE UNCHANGED vars
    BY <2>9 DEF vars, OwnInv, Typed, OwnCode, Paused, Own
  <2> QED BY <2>1, <2>2, <2>3, <2>4, <2>5, <2>6, <2>7, <2>8, <2>9 DEF Next
<1>3. OwnInv => RunsOnOwnState
  BY DEF OwnInv, RunsOnOwnState, OwnCode, Paused
<1> QED BY <1>1, <1>2, <1>3, PTL DEF Spec

=============================================================================
