--------------------------- MODULE CircuitBreaker ---------------------------
(***************************************************************************)
(* The circuit breaker of one route of cloud-gateway                       *)
(* (service/proxy_service.go) and the goroutines of the requests that go   *)
(* through it.  Breakers of different routes share nothing but the lock.   *)
(*                                                                         *)
(* isCircuitOpen holds the lock for READING while it changes the breaker,  *)
(* so several callers may change it at once: its statements are steps of   *)
(* their own here.  recordFailure and recordSuccess hold it for writing.   *)
(***************************************************************************)
EXTENDS Naturals

CONSTANTS Callers,       \* goroutines of requests to the route
          FailureLimit,  \* failures in a row that open the breaker: 5
          SuccessLimit,  \* successes that close it again: 3
          TrialLimit,    \* calls counted and let through while half open: 3
          MaxCount       \* bound on failures and successes

ASSUME LimitAssumption ==
  /\ FailureLimit \in Nat \ {0} /\ SuccessLimit \in Nat \ {0}
  /\ TrialLimit \in Nat \ {0} /\ MaxCount \in Nat

VARIABLES breaker,  \* the CircuitBreakerState of the route in circuitMap
          cooled,   \* whether more than 30 s have passed since lastFailure
          pc,       \* the statement each caller is about to execute
          copy      \* the value of halfOpenCalls a caller is about to increment

vars == <<breaker, cooled, pc, copy>>

-----------------------------------------------------------------------------
\* "absent": the map has no entry.  "": an entry that has seen no transition.
\* "torn": the value between the two words of a string assignment.
State == {"absent", "", "open", "torn", "half-open", "closed"}

Breaker == [state : State, failures : Nat, successes : Nat, halfOpenCalls : Nat]

Opening  == {"opening", "naming", "resetting"}
Counting == {"counting", "incrementing", "storing"}
InFlight == {"upstream", "trial"}
Pc == {"idle"} \cup Opening \cup Counting \cup InFlight

\* The callers inside isCircuitOpen, which hold the lock for reading.
Readers == {c \in Callers : pc[c] \in Opening \cup Counting}

Init ==
  /\ breaker = [state |-> "absent", failures |-> 0, successes |-> 0, halfOpenCalls |-> 0]
  /\ cooled = FALSE
  /\ pc = [c \in Callers |-> "idle"]
  /\ copy = [c \in Callers |-> 0]

-----------------------------------------------------------------------------
(* isCircuitOpen *)

\* Mutant: an open breaker refuses every call, however old the last failure is.
ReadState_NoTimeout(c) ==
  /\ pc[c] = "idle"
  /\ pc' = [pc EXCEPT ![c] = CASE breaker.state = "open" -> "idle"
                               [] breaker.state = "half-open" -> "counting"
                               [] OTHER -> "upstream"]
  /\ UNCHANGED <<breaker, cooled, copy>>

\* The switch: a call is refused, starts to half-open the breaker, is to be
\* counted, or goes through.
ReadState(c) ==
  /\ pc[c] = "idle"
  /\ pc' = [pc EXCEPT ![c] = CASE breaker.state = "open" /\ cooled -> "opening"
                               [] breaker.state = "open" /\ ~cooled -> "idle"
                               [] breaker.state = "half-open" -> "counting"
                               [] OTHER -> "upstream"]
  /\ UNCHANGED <<breaker, cooled, copy>>

\* state.state = "half-open", one word after the other
WriteFirstWord(c) ==
  /\ pc[c] = "opening"
  /\ breaker' = [breaker EXCEPT !.state = IF @ = "open" THEN "torn" ELSE @]
  /\ pc' = [pc EXCEPT ![c] = "naming"]
  /\ UNCHANGED <<cooled, copy>>

\* Mutant: the state is not spelt as the switch spells it.
WriteSecondWord_Spelling(c) ==
  /\ pc[c] = "naming"
  /\ breaker' = [breaker EXCEPT !.state = "half_open"]
  /\ pc' = [pc EXCEPT ![c] = "resetting"]
  /\ UNCHANGED <<cooled, copy>>

WriteSecondWord(c) ==
  /\ pc[c] = "naming"
  /\ breaker' = [breaker EXCEPT !.state = "half-open"]
  /\ pc' = [pc EXCEPT ![c] = "resetting"]
  /\ UNCHANGED <<cooled, copy>>

\* state.halfOpenCalls = 0; the call that half-opens the breaker is not counted.
ResetCalls(c) ==
  /\ pc[c] = "resetting"
  /\ breaker' = [breaker EXCEPT !.halfOpenCalls = 0]
  /\ pc' = [pc EXCEPT ![c] = "trial"]
  /\ UNCHANGED <<cooled, copy>>

TestCalls(c) ==
  /\ pc[c] = "counting"
  /\ pc' = [pc EXCEPT ![c] = IF breaker.halfOpenCalls >= TrialLimit THEN "idle"
                              ELSE "incrementing"]
  /\ UNCHANGED <<breaker, cooled, copy>>

\* state.halfOpenCalls++, which other readers may interleave
LoadCalls(c) ==
  /\ pc[c] = "incrementing"
  /\ copy' = [copy EXCEPT ![c] = breaker.halfOpenCalls]
  /\ pc' = [pc EXCEPT ![c] = "storing"]
  /\ UNCHANGED <<breaker, cooled>>

StoreCalls(c) ==
  /\ pc[c] = "storing"
  /\ breaker' = [breaker EXCEPT !.halfOpenCalls = copy[c] + 1]
  /\ copy' = [copy EXCEPT ![c] = 0]
  /\ pc' = [pc EXCEPT ![c] = "trial"]
  /\ UNCHANGED cooled

-----------------------------------------------------------------------------
(* The answer of the upstream *)

\* A method that ProxyRequest does not know is let through and never recorded.
Unsupported(c) ==
  /\ pc[c] \in InFlight
  /\ pc' = [pc EXCEPT ![c] = "idle"]
  /\ UNCHANGED <<breaker, cooled, copy>>

\* Mutant: recordFailure takes the lock for reading, as isCircuitOpen does.
RecordFailure_RLock(c) ==
  /\ pc[c] \in InFlight
  /\ breaker.failures < MaxCount
  /\ breaker' = [breaker EXCEPT
       !.failures = @ + 1,
       !.successes = 0,
       !.state = CASE breaker.failures + 1 >= FailureLimit -> "open"
                   [] breaker.failures + 1 < FailureLimit /\ @ = "absent" -> ""
                   [] OTHER -> @]
  /\ cooled' = FALSE
  /\ pc' = [pc EXCEPT ![c] = "idle"]
  /\ UNCHANGED copy

\* recordFailure: the client failed, its retries included.
RecordFailure(c) ==
  /\ pc[c] \in InFlight
  /\ Readers = {}
  /\ breaker.failures < MaxCount
  /\ breaker' = [breaker EXCEPT
       !.failures = @ + 1,
       !.successes = 0,
       !.state = CASE breaker.failures + 1 >= FailureLimit -> "open"
                   [] breaker.failures + 1 < FailureLimit /\ @ = "absent" -> ""
                   [] OTHER -> @]
  /\ cooled' = FALSE
  /\ pc' = [pc EXCEPT ![c] = "idle"]
  /\ UNCHANGED copy

\* Mutant: a success does not end a row of failures.
RecordSuccess_KeepFailures(c) ==
  LET closes == breaker.state = "half-open" /\ breaker.successes + 1 >= SuccessLimit IN
  /\ pc[c] \in InFlight
  /\ Readers = {}
  /\ breaker.successes < MaxCount
  /\ breaker' = IF breaker.state = "absent" THEN breaker
                ELSE [breaker EXCEPT !.successes = @ + 1,
                                     !.state = IF closes THEN "closed" ELSE @,
                                     !.halfOpenCalls = IF closes THEN 0 ELSE @]
  /\ pc' = [pc EXCEPT ![c] = "idle"]
  /\ UNCHANGED <<cooled, copy>>

\* recordSuccess: there is a response, whatever its status code.
RecordSuccess(c) ==
  LET closes == breaker.state = "half-open" /\ breaker.successes + 1 >= SuccessLimit IN
  /\ pc[c] \in InFlight
  /\ Readers = {}
  /\ breaker.successes < MaxCount
  /\ breaker' = IF breaker.state = "absent" THEN breaker
                ELSE [breaker EXCEPT !.failures = 0,
                                     !.successes = @ + 1,
                                     !.state = IF closes THEN "closed" ELSE @,
                                     !.halfOpenCalls = IF closes THEN 0 ELSE @]
  /\ pc' = [pc EXCEPT ![c] = "idle"]
  /\ UNCHANGED <<cooled, copy>>

\* 30 s go by without a failure.
CoolDown ==
  /\ ~cooled /\ breaker.state # "absent"
  /\ cooled' = TRUE
  /\ UNCHANGED <<breaker, pc, copy>>

-----------------------------------------------------------------------------
Admission(c) == \/ WriteFirstWord(c) \/ WriteSecondWord(c) \/ ResetCalls(c)
                \/ TestCalls(c) \/ LoadCalls(c) \/ StoreCalls(c)

Answer(c) == RecordFailure(c) \/ RecordSuccess(c)

Next ==
  \/ \E c \in Callers : ReadState(c) \/ Admission(c) \/ Answer(c) \/ Unsupported(c)
  \/ CoolDown

Spec == Init /\ [][Next]_vars

\* Goroutines run, the client has a timeout of 30 s, requests keep coming and
\* time passes.
Fairness ==
  /\ \A c \in Callers : WF_vars(ReadState(c)) /\ WF_vars(Admission(c))
                        /\ WF_vars(Answer(c) \/ Unsupported(c))
  /\ WF_vars(CoolDown)

FairSpec == Spec /\ Fairness

-----------------------------------------------------------------------------
(* Properties *)

TypeOK ==
  /\ breaker \in Breaker
  /\ cooled \in BOOLEAN
  /\ pc \in [Callers -> Pc]
  /\ copy \in [Callers -> Nat]

\* What isCircuitOpen read of the state still holds when it acts on it, though
\* other callers change the breaker meanwhile: no recordFailure or recordSuccess
\* comes in between, a breaker is half-opened only from open, and a call is
\* counted only in a breaker that is half open.
ReadIsFresh ==
  \A c \in Callers :
    /\ pc[c] \in Opening => breaker.state \in {"open", "torn", "half-open"}
    /\ pc[c] \in Counting \cup {"resetting"} => breaker.state = "half-open"

\* A breaker that lets everything through has not reached the limit of failures,
\* whichever late answers of calls admitted in other states it was given.
ClosedBelowLimit ==
  breaker.state \in {"absent", "", "closed"} => breaker.failures < FailureLimit

\* An open breaker is tried again: refusals do not keep it open, and answers of
\* calls that were in flight only delay it.
OpenIsLeft == breaker.state = "open" ~> breaker.state # "open"

=============================================================================
