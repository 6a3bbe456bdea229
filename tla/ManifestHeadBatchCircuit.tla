---------------------- MODULE ManifestHeadBatchCircuit ----------------------
(***************************************************************************)
(* The circuit that guards the speculative remote manifest-head batches of *)
(* one streamed read (file-share library, read-scheduling.ts), driven by   *)
(* its callers in LargeFile.writeFile/streamFile (index.ts).               *)
(*                                                                         *)
(* Batches run concurrently: a batch asks the circuit for an attempt when  *)
(* it starts, and reports what it observed after several awaits.  Between  *)
(* the two the circuit may have opened, armed a recovery or closed again,  *)
(* so every report may be late.  A batch the circuit refuses only reads    *)
(* local entries and never reports, so it is not part of the state.        *)
(*                                                                         *)
(* Data left out: diagnostics counters and the chunks themselves; what a   *)
(* batch finds is one of "accepted", "zero" and "error".                   *)
(***************************************************************************)
EXTENDS Integers

CONSTANTS
    Batches,    \* batches that can be in flight at the same time
    MaxIndex,   \* chunk indices are 0 .. MaxIndex
    MaxEpoch    \* bound on the recovery probes that are started

ASSUME CircuitAssumption ==
    /\ MaxIndex \in Nat
    /\ MaxEpoch \in Nat

VARIABLES
    state,                       \* public state of the circuit
    epoch,                       \* bumped by every probe and every terminal entry
    recoveryEligibleAfterIndex,  \* probes must start after this index
    recoveryAvailable,           \* the arming of the current opening is unspent
    activeRecoveryToken,         \* token of the probe in flight, or NoToken
    nextRecoveryToken,           \* last token handed out
    attempt                      \* what each running batch was admitted with

circuitVars == <<state, epoch, recoveryEligibleAfterIndex, recoveryAvailable,
                 activeRecoveryToken, nextRecoveryToken>>
vars == <<circuitVars, attempt>>

NoToken == 0
Index == 0 .. MaxIndex
CircuitState == {"enabled", "zero-open", "half-open-ready",
                 "half-open-inflight", "permanent-zero", "permanent-error"}
Permanent == {"permanent-zero", "permanent-error"}

\* An attempt remembers the epoch it was admitted in; "none" is a batch slot
\* that is not running.  first/last are the indices the caller passes.
Attempt == [kind : {"none", "normal", "recovery"}, epoch : Nat, token : Nat,
            first : Index, last : Index, remote : BOOLEAN]
NoAttempt == [kind |-> "none", epoch |-> 0, token |-> NoToken,
              first |-> 0, last |-> 0, remote |-> FALSE]

TypeOK ==
    /\ state \in CircuitState
    /\ epoch \in Nat
    /\ recoveryEligibleAfterIndex \in Index \cup {-1}
    /\ recoveryAvailable \in BOOLEAN
    /\ activeRecoveryToken \in Nat
    /\ nextRecoveryToken \in Nat
    /\ attempt \in [Batches -> Attempt]

Init ==
    /\ state = "enabled"
    /\ epoch = 0
    /\ recoveryEligibleAfterIndex = -1
    /\ recoveryAvailable = TRUE
    /\ activeRecoveryToken = NoToken
    /\ nextRecoveryToken = 0
    /\ attempt = [b \in Batches |-> NoAttempt]

-----------------------------------------------------------------------------
\* Operators shared by the handlers.

\* isCurrentRecovery: the probe the circuit is waiting for.
IsCurrentRecovery(a) ==
    /\ a.kind = "recovery"
    /\ state = "half-open-inflight"
    /\ a.epoch = epoch
    /\ a.token = activeRecoveryToken

\* enterPermanent: entering a terminal state a second time keeps the epoch.
EnterPermanent(terminal) ==
    /\ epoch' = IF state = terminal THEN epoch ELSE epoch + 1
    /\ activeRecoveryToken' = NoToken
    /\ state' = terminal
    /\ UNCHANGED <<recoveryEligibleAfterIndex, recoveryAvailable,
                   nextRecoveryToken>>

Later(i, j) == IF i < j THEN j ELSE i

Finished(b) == attempt' = [attempt EXCEPT ![b] = NoAttempt]

Running(b) == attempt[b].kind # "none"

-----------------------------------------------------------------------------
\* tryStart in the enabled state: an ordinary batch.
StartNormal(b, first, last, remote) ==
    /\ ~Running(b)
    /\ state = "enabled"
    /\ attempt' = [attempt EXCEPT ![b] =
           [kind |-> "normal", epoch |-> epoch, token |-> NoToken,
            first |-> first, last |-> last, remote |-> remote]]
    /\ UNCHANGED circuitVars

\* The comparison of tryStart off by one.
MutStartRecovery(b, first, last) ==
    /\ ~Running(b)
    /\ state = "half-open-ready"
    /\ first >= recoveryEligibleAfterIndex
    /\ epoch < MaxEpoch
    /\ epoch' = epoch + 1
    /\ nextRecoveryToken' = nextRecoveryToken + 1
    /\ activeRecoveryToken' = nextRecoveryToken + 1
    /\ state' = "half-open-inflight"
    /\ attempt' = [attempt EXCEPT ![b] =
           [kind |-> "recovery", epoch |-> epoch + 1,
            token |-> nextRecoveryToken + 1,
            first |-> first, last |-> last, remote |-> TRUE]]
    /\ UNCHANGED <<recoveryEligibleAfterIndex, recoveryAvailable>>

\* tryStart in half-open-ready: the one probe, if it starts late enough and is
\* allowed to go to the network.
StartRecovery(b, first, last) ==
    /\ ~Running(b)
    /\ state = "half-open-ready"
    /\ first > recoveryEligibleAfterIndex
    /\ epoch < MaxEpoch
    /\ epoch' = epoch + 1
    /\ nextRecoveryToken' = nextRecoveryToken + 1
    /\ activeRecoveryToken' = nextRecoveryToken + 1
    /\ state' = "half-open-inflight"
    /\ attempt' = [attempt EXCEPT ![b] =
           [kind |-> "recovery", epoch |-> epoch + 1,
            token |-> nextRecoveryToken + 1,
            first |-> first, last |-> last, remote |-> TRUE]]
    /\ UNCHANGED <<recoveryEligibleAfterIndex, recoveryAvailable>>

\* A resolution that arms the circuit again while its probe is in flight.
MutNoteManifestHeadResolution(index) ==
    /\ state \in {"zero-open", "half-open-inflight"}
    /\ recoveryAvailable' = FALSE
    /\ recoveryEligibleAfterIndex' = Later(recoveryEligibleAfterIndex, index)
    /\ state' = "half-open-ready"
    /\ UNCHANGED <<epoch, activeRecoveryToken, nextRecoveryToken, attempt>>

\* noteManifestHeadResolution: a single-index fallback proved that heads can be
\* read.  Only a zero-open circuit changes; it arms one recovery.
NoteManifestHeadResolution(index) ==
    /\ state = "zero-open"
    /\ recoveryAvailable' = FALSE
    /\ recoveryEligibleAfterIndex' = Later(recoveryEligibleAfterIndex, index)
    /\ state' = "half-open-ready"
    /\ UNCHANGED <<epoch, activeRecoveryToken, nextRecoveryToken, attempt>>

\* observeZero for a probe: one failed probe is final, a stale one is ignored.
ObserveRecoveryZero(b) ==
    /\ attempt[b].kind = "recovery"
    /\ IF IsCurrentRecovery(attempt[b])
       THEN EnterPermanent("permanent-zero")
       ELSE UNCHANGED circuitVars
    /\ Finished(b)

\* observeZero for an ordinary batch.  Only evidence of the current epoch
\* counts, and only while the circuit is enabled or zero-open.
ObserveNormalZero(b) ==
    LET a == attempt[b]
    IN  /\ a.kind = "normal"
        /\ a.remote
        /\ IF a.epoch # epoch \/ state \notin {"enabled", "zero-open"}
           THEN UNCHANGED circuitVars
           ELSE IF state = "enabled" /\ ~recoveryAvailable
           THEN EnterPermanent("permanent-zero")
           ELSE /\ recoveryEligibleAfterIndex' =
                       Later(recoveryEligibleAfterIndex, a.last)
                /\ state' = "zero-open"
                /\ UNCHANGED <<epoch, recoveryAvailable, activeRecoveryToken,
                               nextRecoveryToken>>
        /\ Finished(b)

\* observeRecoverySuccess: the probe accepted at least one head.
ObserveRecoverySuccess(b) ==
    /\ attempt[b].kind = "recovery"
    /\ IF IsCurrentRecovery(attempt[b])
       THEN /\ activeRecoveryToken' = NoToken
            /\ recoveryAvailable' = TRUE
            /\ state' = "enabled"
            /\ UNCHANGED <<epoch, recoveryEligibleAfterIndex, nextRecoveryToken>>
       ELSE UNCHANGED circuitVars
    /\ Finished(b)

\* observeError: whatever the attempt was, however late.
ObserveError(b) ==
    /\ Running(b)
    /\ EnterPermanent("permanent-error")
    /\ Finished(b)

\* An ordinary batch that accepted a head, that only read local entries, or
\* whose outcome the caller suppresses because an older window owns the
\* evidence: nothing is reported.
MutFinishSilently(b) ==
    /\ Running(b)
    /\ Finished(b)
    /\ UNCHANGED circuitVars

FinishSilently(b) ==
    /\ attempt[b].kind = "normal"
    /\ Finished(b)
    /\ UNCHANGED circuitVars

-----------------------------------------------------------------------------
Complete(b) ==
    \/ ObserveRecoveryZero(b)
    \/ ObserveNormalZero(b)
    \/ ObserveRecoverySuccess(b)
    \/ ObserveError(b)
    \/ FinishSilently(b)

Next ==
    \/ \E b \in Batches, first, last \in Index :
           /\ first <= last
           /\ \/ \E remote \in BOOLEAN : StartNormal(b, first, last, remote)
              \/ StartRecovery(b, first, last)
    \/ \E index \in Index : NoteManifestHeadResolution(index)
    \/ \E b \in Batches : Complete(b)

Spec == Init /\ [][Next]_vars

-----------------------------------------------------------------------------
\* The circuit waits for exactly one probe, and that probe is still running:
\* a late report of another attempt never consumes or replaces it.
ProbeOwned ==
    /\ state = "half-open-inflight" =>
           \E b \in Batches : IsCurrentRecovery(attempt[b])
    /\ \A b, c \in Batches :
           attempt[b].kind = "recovery" /\ attempt[c].kind = "recovery"
               => b = c \/ attempt[b].token # attempt[c].token

\* The running probe looks only past every index that was evidence against
\* batching, or that armed the probe.
ProbeBeyondEvidence ==
    \A b \in Batches :
        IsCurrentRecovery(attempt[b])
            => attempt[b].first > recoveryEligibleAfterIndex

\* An enabled circuit always has its recovery unspent, so the first zero of
\* an enabled circuit opens it instead of disabling batching for good.
EnabledMayRecover == state = "enabled" => recoveryAvailable

\* A zero observed by a batch that was admitted before a recovery never opens
\* the recovered circuit ("late normal zero results harmless after recovery").
LateZeroIsHarmless ==
    [][state = "enabled" /\ state' = "zero-open" =>
           \E b \in Batches : /\ Running(b)
                              /\ attempt'[b] = NoAttempt
                              /\ attempt[b].epoch = epoch]_vars

\* A terminal circuit never admits speculative work again, and an error is
\* never downgraded to a zero ("any batch error is terminal").
TerminalStays ==
    [][/\ state \in Permanent => state' \in Permanent
       /\ state = "permanent-error" => state' = "permanent-error"]_vars

\* Seen from its callers the circuit is a single-probe circuit breaker: what
\* the epochs, tokens and indices do amounts to the steps of CircuitBreaker.
BreakerPhase ==
    CASE state = "enabled" -> "closed"
      [] state \in {"zero-open", "half-open-ready"} -> "open"
      [] state = "half-open-inflight" -> "probing"
      [] OTHER -> "dead"

Breaker == INSTANCE CircuitBreaker WITH phase <- BreakerPhase

BreakerSpec == Breaker!Spec
=============================================================================
