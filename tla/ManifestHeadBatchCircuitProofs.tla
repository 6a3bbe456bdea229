------------------- MODULE ManifestHeadBatchCircuitProofs -------------------
(***************************************************************************)
(* Proofs about the manifest-head batch circuit, for any number of         *)
(* batches, indices and epochs.                                            *)
(***************************************************************************)
EXTENDS ManifestHeadBatchCircuit, TLAPS

\* Tokens of running probes were handed out, and differ from one another.
TokensIssued ==
    /\ \A b \in Batches :
           attempt[b].kind = "recovery" =>
               attempt[b].token \in 1 .. nextRecoveryToken
    /\ \A b, c \in Batches :
           attempt[b].kind = "recovery" /\ attempt[c].kind = "recovery"
               => b = c \/ attempt[b].token # attempt[c].token

\* While the circuit waits for a probe, that probe is running.
ProbeRunning ==
    state = "half-open-inflight" => \E b \in Batches : IsCurrentRecovery(attempt[b])

\* The inductive invariant.  ProbeOwned alone is not inductive: that a new
\* probe's token differs from the others' needs the bound on issued tokens.
IInv ==
    /\ TypeOK
    /\ TokensIssued
    /\ ProbeRunning
    /\ ProbeBeyondEvidence
    /\ EnabledMayRecover

LEMMA AttemptType == NoAttempt \in Attempt
BY CircuitAssumption DEF NoAttempt, Attempt, Index, NoToken

LEMMA InitIInv == Init => IInv
BY AttemptType, CircuitAssumption
DEF Init, IInv, TypeOK, TokensIssued, ProbeRunning, ProbeBeyondEvidence,
    EnabledMayRecover, IsCurrentRecovery, NoAttempt, CircuitState, NoToken,
    Index

\* Every step keeps the types.
LEMMA TypeStep == TypeOK /\ [Next]_vars => TypeOK'
<1>. SUFFICES ASSUME TypeOK, [Next]_vars PROVE TypeOK'
  OBVIOUS
<1>. USE AttemptType, CircuitAssumption DEF TypeOK
<1>1. ASSUME NEW b \in Batches, NEW first \in Index, NEW last \in Index,
             NEW remote \in BOOLEAN, StartNormal(b, first, last, remote)
      PROVE TypeOK'
  BY <1>1 DEF StartNormal, circuitVars, Attempt, NoToken, Index
<1>2. ASSUME NEW b \in Batches, NEW first \in Index, NEW last \in Index,
             StartRecovery(b, first, last)
      PROVE TypeOK'
  BY <1>2 DEF StartRecovery, Attempt, CircuitState, Index
<1>3. ASSUME NEW index \in Index, NoteManifestHeadResolution(index)
      PROVE TypeOK'
  BY <1>3 DEF NoteManifestHeadResolution, Later, CircuitState, Index
<1>4. ASSUME NEW b \in Batches, ObserveRecoveryZero(b)
      PROVE TypeOK'
  BY <1>4 DEF ObserveRecoveryZero, EnterPermanent, Finished, circuitVars,
              CircuitState, NoToken
<1>5. ASSUME NEW b \in Batches, ObserveNormalZero(b)
      PROVE TypeOK'
  <2>1. attempt[b] \in Attempt
    BY <1>5
  <2>2. attempt' \in [Batches -> Attempt]
    BY <1>5 DEF ObserveNormalZero, Finished
  <2>3. attempt[b].last \in Index
    BY <2>1 DEF Attempt
  <2>. DEFINE late == attempt[b].epoch # epoch \/ state \notin {"enabled", "zero-open"}
               spent == state = "enabled" /\ ~recoveryAvailable
  <2>4. CASE late
    BY <1>5, <2>2, <2>4 DEF ObserveNormalZero, circuitVars
  <2>5. CASE ~late /\ spent
    BY <1>5, <2>2, <2>5 DEF ObserveNormalZero, EnterPermanent, CircuitState, NoToken
  <2>6. CASE ~late /\ ~spent
    BY <1>5, <2>2, <2>3, <2>6 DEF ObserveNormalZero, Later, CircuitState
  <2>7. QED
    BY <2>4, <2>5, <2>6
<1>6. ASSUME NEW b \in Batches, ObserveRecoverySuccess(b)
      PROVE TypeOK'
  <2>1. attempt' \in [Batches -> Attempt]
    BY <1>6 DEF ObserveRecoverySuccess, Finished
  <2>2. CASE IsCurrentRecovery(attempt[b])
    BY <1>6, <2>1, <2>2 DEF ObserveRecoverySuccess, CircuitState, NoToken
  <2>3. CASE ~IsCurrentRecovery(attempt[b])
    BY <1>6, <2>1, <2>3 DEF ObserveRecoverySuccess, circuitVars
  <2>4. QED
    BY <2>2, <2>3
<1>7. ASSUME NEW b \in Batches, ObserveError(b)
      PROVE TypeOK'
  BY <1>7 DEF ObserveError, EnterPermanent, Finished, CircuitState, NoToken
<1>8. ASSUME NEW b \in Batches, FinishSilently(b)
      PROVE TypeOK'
  BY <1>8 DEF FinishSilently, Finished, circuitVars
<1>9. CASE UNCHANGED vars
  BY <1>9 DEF vars, circuitVars
<1>. QED
  BY <1>1, <1>2, <1>3, <1>4, <1>5, <1>6, <1>7, <1>8, <1>9 DEF Next, Complete

\* Every step keeps the tokens of running probes issued and distinct.
LEMMA TokensStep == IInv /\ [Next]_vars => TokensIssued'
<1>. SUFFICES ASSUME IInv, [Next]_vars PROVE TokensIssued'
  OBVIOUS
<1>. USE AttemptType DEF IInv, TypeOK, TokensIssued
<1>1. ASSUME NEW b \in Batches, NEW first \in Index, NEW last \in Index,
             NEW remote \in BOOLEAN, StartNormal(b, first, last, remote)
      PROVE TokensIssued'
  BY <1>1 DEF StartNormal, circuitVars
<1>2. ASSUME NEW b \in Batches, NEW first \in Index, NEW last \in Index,
             StartRecovery(b, first, last)
      PROVE TokensIssued'
  BY <1>2 DEF StartRecovery, Attempt
<1>3. ASSUME NEW index \in Index, NoteManifestHeadResolution(index)
      PROVE TokensIssued'
  BY <1>3 DEF NoteManifestHeadResolution
<1>4. ASSUME NEW b \in Batches, Complete(b)
      PROVE TokensIssued'
  <2>1. nextRecoveryToken' = nextRecoveryToken
    BY <1>4 DEF Complete, ObserveRecoveryZero, ObserveNormalZero,
                ObserveRecoverySuccess, ObserveError, FinishSilently,
                EnterPermanent, circuitVars
  <2>2. attempt' = [attempt EXCEPT ![b] = NoAttempt]
    BY <1>4 DEF Complete, ObserveRecoveryZero, ObserveNormalZero,
                ObserveRecoverySuccess, ObserveError, FinishSilently, Finished
  <2>3. QED
    BY <2>1, <2>2 DEF NoAttempt
<1>5. CASE UNCHANGED vars
  BY <1>5 DEF vars, circuitVars
<1>. QED
  BY <1>1, <1>2, <1>3, <1>4, <1>5 DEF Next

\* Every step keeps the awaited probe running, and past the evidence.
LEMMA ProbeStep ==
    IInv /\ [Next]_vars => ProbeRunning' /\ ProbeBeyondEvidence' /\ EnabledMayRecover'
<1>. DEFINE Goal == ProbeRunning /\ ProbeBeyondEvidence /\ EnabledMayRecover
<1>. SUFFICES ASSUME IInv, [Next]_vars PROVE Goal'
  OBVIOUS
<1>. USE AttemptType
     DEF IInv, TypeOK, ProbeRunning, ProbeBeyondEvidence, EnabledMayRecover,
         IsCurrentRecovery
<1>1. ASSUME NEW b \in Batches, NEW first \in Index, NEW last \in Index,
             NEW remote \in BOOLEAN, StartNormal(b, first, last, remote)
      PROVE Goal'
  BY <1>1 DEF StartNormal, circuitVars
<1>2. ASSUME NEW b \in Batches, NEW first \in Index, NEW last \in Index,
             StartRecovery(b, first, last)
      PROVE Goal'
  <2>1. \A c \in Batches : c # b /\ attempt[c].kind = "recovery"
                               => attempt'[c].token # nextRecoveryToken + 1
    BY <1>2 DEF StartRecovery, TokensIssued, Attempt
  <2>2. IsCurrentRecovery(attempt[b])'
    BY <1>2 DEF StartRecovery
  <2>3. \A c \in Batches : IsCurrentRecovery(attempt[c])' => c = b
    BY <1>2, <2>1 DEF StartRecovery
  <2>4. attempt'[b].first > recoveryEligibleAfterIndex'
    BY <1>2 DEF StartRecovery
  <2>5. ProbeRunning'
    BY <2>2
  <2>6. ProbeBeyondEvidence'
    BY <2>3, <2>4
  <2>7. QED
    BY <1>2, <2>5, <2>6 DEF StartRecovery
<1>3. ASSUME NEW index \in Index, NoteManifestHeadResolution(index)
      PROVE Goal'
  BY <1>3 DEF NoteManifestHeadResolution
<1>4. ASSUME NEW b \in Batches, ObserveRecoveryZero(b)
      PROVE Goal'
  BY <1>4 DEF ObserveRecoveryZero, EnterPermanent, Finished, circuitVars, NoAttempt
<1>5. ASSUME NEW b \in Batches, ObserveNormalZero(b)
      PROVE Goal'
  BY <1>5 DEF ObserveNormalZero, EnterPermanent, Finished, circuitVars, NoAttempt
<1>6. ASSUME NEW b \in Batches, ObserveRecoverySuccess(b)
      PROVE Goal'
  BY <1>6 DEF ObserveRecoverySuccess, Finished, circuitVars, NoAttempt
<1>7. ASSUME NEW b \in Batches, ObserveError(b)
      PROVE Goal'
  BY <1>7 DEF ObserveError, EnterPermanent, Finished, NoAttempt
<1>8. ASSUME NEW b \in Batches, FinishSilently(b)
      PROVE Goal'
  BY <1>8 DEF FinishSilently, Finished, circuitVars, NoAttempt
<1>9. CASE UNCHANGED vars
  BY <1>9 DEF vars, circuitVars
<1>. QED
  BY <1>1, <1>2, <1>3, <1>4, <1>5, <1>6, <1>7, <1>8, <1>9 DEF Next, Complete

\* The inductive invariant holds of every reachable state.
THEOREM CircuitInvariant == Spec => []IInv
<1>1. IInv /\ [Next]_vars => IInv'
  BY TypeStep, TokensStep, ProbeStep DEF IInv
<1>2. QED
  BY InitIInv, <1>1, PTL DEF Spec

\* Type correctness of the circuit and of the attempts in flight.
THEOREM CircuitTypeOK == Spec => []TypeOK
<1>1. IInv => TypeOK
  BY DEF IInv
<1>2. QED
  BY CircuitInvariant, <1>1, PTL

\* tryStart hands out at most one live probe, and no late report of another
\* attempt (observeZero, observeRecoverySuccess) consumes it.
THEOREM CircuitProbeOwned == Spec => []ProbeOwned
<1>1. IInv => ProbeOwned
  BY DEF IInv, ProbeOwned, TokensIssued, ProbeRunning
<1>2. QED
  BY CircuitInvariant, <1>1, PTL

\* The probe admitted by tryStart stays past every index that was evidence
\* against batching or that armed it.
THEOREM CircuitProbeBeyondEvidence == Spec => []ProbeBeyondEvidence
<1>1. IInv => ProbeBeyondEvidence
  BY DEF IInv
<1>2. QED
  BY CircuitInvariant, <1>1, PTL

\* The terminal branch of observeZero for an enabled circuit is never taken.
THEOREM CircuitEnabledMayRecover == Spec => []EnabledMayRecover
<1>1. IInv => EnabledMayRecover
  BY DEF IInv
<1>2. QED
  BY CircuitInvariant, <1>1, PTL

\* What no step does: leave a terminal state (enterPermanent), or open a
\* recovered circuit on evidence of an earlier epoch (observeZero).
LEMMA TerminalStep ==
    TypeOK /\ [Next]_vars =>
        /\ state \in Permanent => state' \in Permanent
        /\ state = "permanent-error" => state' = "permanent-error"
BY DEF TypeOK, Next, vars, circuitVars, Complete, StartNormal, StartRecovery,
       NoteManifestHeadResolution, ObserveRecoveryZero, ObserveNormalZero,
       ObserveRecoverySuccess, ObserveError, FinishSilently, EnterPermanent,
       IsCurrentRecovery, Permanent

\* A terminal circuit stays terminal, and an error is never downgraded.
THEOREM CircuitTerminalStays == Spec => TerminalStays
<1>1. TypeOK /\ [Next]_vars =>
          [/\ state \in Permanent => state' \in Permanent
           /\ state = "permanent-error" => state' = "permanent-error"]_vars
  BY TerminalStep
<1>2. QED
  BY CircuitTypeOK, <1>1, PTL DEF Spec, TerminalStays

LEMMA LateZeroStep ==
    TypeOK /\ [Next]_vars =>
        (state = "enabled" /\ state' = "zero-open" =>
            \E b \in Batches : /\ Running(b)
                               /\ attempt'[b] = NoAttempt
                               /\ attempt[b].epoch = epoch)
<1>. SUFFICES ASSUME TypeOK, [Next]_vars, state = "enabled", state' = "zero-open"
              PROVE \E b \in Batches : /\ Running(b)
                                       /\ attempt'[b] = NoAttempt
                                       /\ attempt[b].epoch = epoch
  OBVIOUS
<1>1. PICK b \in Batches : ObserveNormalZero(b)
  BY DEF Next, vars, circuitVars, Complete, StartNormal, StartRecovery,
         NoteManifestHeadResolution, ObserveRecoveryZero,
         ObserveRecoverySuccess, ObserveError, FinishSilently, EnterPermanent
<1>2. attempt[b].kind = "normal" /\ attempt' = [attempt EXCEPT ![b] = NoAttempt]
  BY <1>1 DEF ObserveNormalZero, Finished
<1>3. attempt[b].epoch = epoch
  BY <1>1 DEF ObserveNormalZero, circuitVars
<1>4. QED
  BY <1>2, <1>3 DEF TypeOK, Running

\* A zero of a batch admitted before a recovery never opens the circuit again.
THEOREM CircuitLateZeroIsHarmless == Spec => LateZeroIsHarmless
<1>1. TypeOK /\ [Next]_vars =>
          [state = "enabled" /\ state' = "zero-open" =>
              \E b \in Batches : /\ Running(b)
                                 /\ attempt'[b] = NoAttempt
                                 /\ attempt[b].epoch = epoch]_vars
  BY LateZeroStep
<1>2. QED
  BY CircuitTypeOK, <1>1, PTL DEF Spec, LateZeroIsHarmless

\* The phase of the abstract breaker in each state of the circuit.
LEMMA PhaseOf ==
    /\ state = "enabled" => BreakerPhase = "closed"
    /\ state \in {"zero-open", "half-open-ready"} => BreakerPhase = "open"
    /\ state = "half-open-inflight" => BreakerPhase = "probing"
    /\ state \in Permanent => BreakerPhase = "dead"
BY DEF BreakerPhase, Permanent

\* How a step may change the public state.
LEMMA StateStep ==
    ASSUME TypeOK, [Next]_vars
    PROVE  \/ state' = state
           \/ state' \in Permanent
           \/ state = "enabled" /\ state' = "zero-open"
           \/ state = "zero-open" /\ state' \in {"zero-open", "half-open-ready"}
           \/ state = "half-open-ready" /\ state' = "half-open-inflight"
           \/ state = "half-open-inflight" /\ state' = "enabled"
BY DEF Next, vars, circuitVars, Complete, StartNormal, StartRecovery,
       NoteManifestHeadResolution, ObserveRecoveryZero, ObserveNormalZero,
       ObserveRecoverySuccess, ObserveError, FinishSilently, EnterPermanent,
       IsCurrentRecovery, Permanent

\* The circuit implements the abstract single-probe breaker.
THEOREM CircuitImplementsBreaker == Spec => BreakerSpec
<1>1. Init => Breaker!Init
  BY PhaseOf DEF Init, Breaker!Init
<1>2. TypeOK /\ TypeOK' /\ [Next]_vars => [Breaker!Next]_BreakerPhase
  <2>. SUFFICES ASSUME TypeOK, TypeOK', [Next]_vars
                PROVE  Breaker!Next \/ BreakerPhase' = BreakerPhase
    OBVIOUS
  <2>1. /\ state' = "enabled" => BreakerPhase' = "closed"
        /\ state' \in {"zero-open", "half-open-ready"} => BreakerPhase' = "open"
        /\ state' = "half-open-inflight" => BreakerPhase' = "probing"
        /\ state' \in Permanent => BreakerPhase' = "dead"
    BY DEF BreakerPhase, Permanent
  <2>2. CASE state' = state
    BY <2>2 DEF BreakerPhase
  <2>3. CASE state' \in Permanent
    BY <2>1, <2>3, PhaseOf
    DEF Breaker!Next, Breaker!Die, TypeOK, CircuitState, Permanent
  <2>4. CASE state = "enabled" /\ state' = "zero-open"
    BY <2>1, <2>4, PhaseOf DEF Breaker!Next, Breaker!Open
  <2>5. CASE state = "zero-open" /\ state' \in {"zero-open", "half-open-ready"}
    BY <2>1, <2>5, PhaseOf
  <2>6. CASE state = "half-open-ready" /\ state' = "half-open-inflight"
    BY <2>1, <2>6, PhaseOf DEF Breaker!Next, Breaker!Probe
  <2>7. CASE state = "half-open-inflight" /\ state' = "enabled"
    BY <2>1, <2>7, PhaseOf DEF Breaker!Next, Breaker!Recover
  <2>8. QED
    BY <2>2, <2>3, <2>4, <2>5, <2>6, <2>7, StateStep
<1>3. QED
  BY <1>1, <1>2, CircuitTypeOK, PTL DEF Spec, BreakerSpec, Breaker!Spec
=============================================================================
