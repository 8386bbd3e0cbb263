---------------------------- MODULE BrokerProofs ----------------------------
(***************************************************************************)
(* Proofs about the Broker, for any requests, nodes, pollers and capacity. *)
(*                                                                         *)
(* BrokerInv is inductive.  Its heart is OnePlace: the password is read by *)
(* the one poller that took the job, so what reaches the node is fixed by  *)
(* the time the node can answer, and is the whole password as long as      *)
(* Submit has not left its wait (WholeUntilWiping).  VerdictIsGenuine and  *)
(* CloseAnswersAll are consequences.                                       *)
(***************************************************************************)
EXTENDS Broker, TLAPS

Unsent == {"new", "sending"}

(***************************************************************************)
(* Steps that leave the queues and the pollers alone.                      *)
(***************************************************************************)

\* A step that moves no job and sends nothing keeps the jobs where they are.
LEMMA NothingMoves ==
    ASSUME BrokerInv,
           UNCHANGED <<queue, home, given, poll, job>>,
           \A s \in Request : submit'[s] \in Unsent => submit[s] \in Unsent
    PROVE  UnsentIsNowhere' /\ OnePlace' /\ PollerHasJob'
<1>1. \A s : Queued(s)' = Queued(s)
  BY DEF Queued
<1>2. \A p : Holds(p)' = Holds(p)
  BY DEF Holds
<1>3. UnsentIsNowhere'
  BY <1>1, <1>2 DEF BrokerInv, UnsentIsNowhere, Unsent
<1>4. OnePlace'
  BY <1>1, <1>2 DEF BrokerInv, OnePlace
<1>5. PollerHasJob'
  BY DEF BrokerInv, PollerHasJob
<1> QED
  BY <1>3, <1>4, <1>5

\* A poller that takes nothing from a queue, and that no longer holds its job once
\* it has written it, keeps the jobs apart.
LEMMA PollerMoves ==
    ASSUME BrokerInv,
           NEW p \in Poller,
           UNCHANGED <<queue, home, submit>>,
           \A q \in Poller \ {p} : poll'[q] = poll[q] /\ job'[q] = job[q],
           Holds(p)' => Holds(p) /\ job'[p] = job[p],
           \A s \in Request :
              given'[s] # given[s] => Holds(p) /\ job[p] = s /\ ~Holds(p)'
    PROVE  UnsentIsNowhere' /\ OnePlace'
<1>1. \A s : Queued(s)' = Queued(s)
  BY DEF Queued
<1>2. \A q \in Poller : Holds(q)' => Holds(q) /\ job'[q] = job[q]
  BY DEF Holds
<1>3. \A q \in Poller : Holds(q)' => given'[job[q]] = "nothing"
  <2> SUFFICES ASSUME NEW q \in Poller, Holds(q)'
               PROVE  given'[job[q]] = "nothing"
    OBVIOUS
  <2>1. Holds(q) /\ job[q] \in Request /\ given[job[q]] = "nothing"
    BY <1>2 DEF BrokerInv, OnePlace, PollerHasJob, Holds
  <2>2. given'[job[q]] = given[job[q]]
    <3>1. CASE q = p
      BY <2>1, <3>1
    <3>2. CASE q # p
      <4>1. Holds(p) => job[p] # job[q]
        BY <2>1, <3>2 DEF BrokerInv, OnePlace
      <4> QED
        BY <2>1, <4>1
    <3> QED
      BY <3>1, <3>2
  <2> QED
    BY <2>1, <2>2
<1>4. UnsentIsNowhere'
  <2> SUFFICES ASSUME NEW s \in Request, submit[s] \in {"new", "sending"}
               PROVE  /\ ~Queued(s)'
                      /\ given'[s] = "nothing"
                      /\ \A q \in Poller : Holds(q)' => job'[q] # s
    BY DEF UnsentIsNowhere
  <2>1. ~Queued(s) /\ given[s] = "nothing" /\ \A q \in Poller : Holds(q) => job[q] # s
    BY DEF BrokerInv, UnsentIsNowhere
  <2> QED
    BY <1>1, <1>2, <2>1
<1>5. OnePlace'
  <2>1. \A n \in Node : \A i \in 1..Len(queue[n]) :
           queue[n][i] \in Request /\ Queued(queue[n][i])
    BY DEF BrokerInv, TypeOK, Queued
  <2>2. \A n \in Node : \A i \in 1..Len(queue[n]) : given'[queue[n][i]] = "nothing"
    <3> SUFFICES ASSUME NEW n \in Node, NEW i \in 1..Len(queue[n])
                 PROVE  given'[queue[n][i]] = "nothing"
      OBVIOUS
    <3>1. Holds(p) => job[p] # queue[n][i]
      BY <2>1 DEF BrokerInv, OnePlace
    <3> QED
      BY <2>1, <3>1 DEF BrokerInv, OnePlace
  <2>3. \A q \in Poller : Holds(q)' => ~Queued(job[q])'
    <3> SUFFICES ASSUME NEW q \in Poller, Holds(q)'
                 PROVE  ~Queued(job[q])'
      OBVIOUS
    <3>1. Holds(q) /\ job'[q] = job[q] /\ ~Queued(job[q])
      BY <1>2 DEF BrokerInv, OnePlace
    <3> QED
      BY <3>1 DEF Queued
  <2>4. \A q, o \in Poller : Holds(q)' /\ Holds(o)' /\ job'[q] = job'[o] => q = o
    BY <1>2 DEF BrokerInv, OnePlace
  <2> QED
    BY <1>2, <1>3, <2>2, <2>3, <2>4 DEF BrokerInv, OnePlace, Queued
<1> QED
  BY <1>4, <1>5

\* Submit only starts a request, or refuses it.
LEMMA SubmitKeepsInv ==
    ASSUME BrokerInv, NEW r \in Request, Submit(r)
    PROVE  BrokerInv'
<1>1. TypeOK'
  BY BrokerAssumption, ZenonT(40) DEF BrokerInv, Submit, Return, pollVars, TypeOK, Code
<1>2. UnsentIsNowhere' /\ OnePlace' /\ PollerHasJob'
  BY NothingMoves DEF BrokerInv, TypeOK, Submit, Return, pollVars, Unsent
<1>3. VerdictIsOfNode' /\ CloseCoversInFlight'
  BY DEF BrokerInv, Submit, pollVars, VerdictIsOfNode, CloseCoversInFlight
<1>4. WholeUntilWiping'
  <2>1. CASE Return(r, "unavailable")
    BY <2>1 DEF BrokerInv, TypeOK, Submit, Return, pollVars, WholeUntilWiping
  <2>2. CASE ~Return(r, "unavailable")
    BY <2>2 DEF BrokerInv, TypeOK, Submit, pollVars, WholeUntilWiping
  <2> QED
    BY <2>1, <2>2
<1>5. UnansweredUntilAwait'
  <2>1. CASE Return(r, "unavailable")
    BY <2>1, BrokerAssumption DEF BrokerInv, TypeOK, Submit, Return, UnansweredUntilAwait,
       Code
  <2>2. CASE ~Return(r, "unavailable")
    BY <2>2 DEF BrokerInv, TypeOK, Submit, UnansweredUntilAwait
  <2> QED
    BY <2>1, <2>2
<1>6. VerdictIsGenuine'
  BY BrokerAssumption DEF BrokerInv, Submit, Return, pollVars, TypeOK,
     VerdictIsGenuine, Code
<1> QED
  BY <1>1, <1>2, <1>3, <1>4, <1>5, <1>6 DEF BrokerInv

\* A request that was never queued gives up.
LEMMA GiveUpSendingKeepsInv ==
    ASSUME BrokerInv, NEW r \in Request, GiveUpSending(r)
    PROVE  BrokerInv'
<1>1. TypeOK'
  BY BrokerAssumption DEF BrokerInv, GiveUpSending, Return, pollVars, TypeOK, Code
<1>2. UnsentIsNowhere' /\ OnePlace' /\ PollerHasJob'
  BY NothingMoves DEF BrokerInv, TypeOK, GiveUpSending, Return, pollVars, Unsent
<1>3. VerdictIsOfNode' /\ CloseCoversInFlight'
  BY DEF BrokerInv, GiveUpSending, pollVars, VerdictIsOfNode, CloseCoversInFlight
<1>4. WholeUntilWiping'
  BY DEF BrokerInv, GiveUpSending, Return, pollVars, TypeOK, WholeUntilWiping
<1>5. UnansweredUntilAwait'
  BY BrokerAssumption DEF BrokerInv, GiveUpSending, Return, pollVars, TypeOK,
     UnansweredUntilAwait, Code
<1>6. VerdictIsGenuine'
  BY BrokerAssumption DEF BrokerInv, GiveUpSending, Return, pollVars, TypeOK,
     VerdictIsGenuine, Code
<1> QED
  BY <1>1, <1>2, <1>3, <1>4, <1>5, <1>6 DEF BrokerInv

\* Submit takes the result of a node that had the whole password.
LEMMA AwaitKeepsInv ==
    ASSUME BrokerInv, NEW r \in Request, Await(r)
    PROVE  BrokerInv'
<1>1. TypeOK'
  BY BrokerAssumption, ZenonT(40) DEF BrokerInv, Await, pollVars, TypeOK, Code
<1>2. UnsentIsNowhere' /\ OnePlace' /\ PollerHasJob'
  BY NothingMoves DEF BrokerInv, TypeOK, Await, pollVars, Unsent
<1>3. VerdictIsOfNode' /\ CloseCoversInFlight'
  BY DEF BrokerInv, Await, pollVars, VerdictIsOfNode, CloseCoversInFlight
<1>4. WholeUntilWiping'
  BY DEF BrokerInv, Await, pollVars, TypeOK, WholeUntilWiping
<1>5. UnansweredUntilAwait'
  BY BrokerAssumption DEF BrokerInv, Await, pollVars, TypeOK,
     UnansweredUntilAwait, Code
<1>6. VerdictIsGenuine'
  <2> SUFFICES ASSUME NEW s \in Request, answer'[s] = "verdict"
               PROVE  given'[s] = "whole"
    BY DEF VerdictIsGenuine
  <2>1. CASE s = r
    <3>1. result[r] = "verdict"
      BY <2>1, BrokerAssumption DEF BrokerInv, TypeOK, Await
    <3>2. given[r] # "nothing" /\ given[r] # "wiped"
      BY <3>1 DEF BrokerInv, VerdictIsOfNode, WholeUntilWiping, Await
    <3> QED
      BY <2>1, <3>2 DEF BrokerInv, TypeOK, Await
  <2>2. CASE s # r
    BY <2>2 DEF BrokerInv, TypeOK, VerdictIsGenuine, Await
  <2> QED
    BY <2>1, <2>2
<1> QED
  BY <1>1, <1>2, <1>3, <1>4, <1>5, <1>6 DEF BrokerInv

\* Submit takes its job out of those in flight.
LEMMA ForgetKeepsInv ==
    ASSUME BrokerInv, NEW r \in Request, Forget(r)
    PROVE  BrokerInv'
<1>1. TypeOK'
  BY DEF BrokerInv, Forget, pollVars, TypeOK
<1>2. UnsentIsNowhere' /\ OnePlace' /\ PollerHasJob'
  BY NothingMoves DEF BrokerInv, TypeOK, Forget, pollVars, Unsent
<1>3. VerdictIsOfNode' /\ VerdictIsGenuine'
  BY DEF BrokerInv, Forget, pollVars, VerdictIsOfNode, VerdictIsGenuine
<1>4. WholeUntilWiping'
  BY DEF BrokerInv, Forget, pollVars, TypeOK, WholeUntilWiping
<1>5. UnansweredUntilAwait'
  BY DEF BrokerInv, Forget, pollVars, TypeOK, UnansweredUntilAwait
<1>6. CloseCoversInFlight'
  BY BrokerAssumption DEF BrokerInv, Forget, pollVars, TypeOK, CloseCoversInFlight,
     Code
<1> QED
  BY <1>1, <1>2, <1>3, <1>4, <1>5, <1>6 DEF BrokerInv

\* Submit wipes its copy: the answer is fixed already.
LEMMA WipeKeepsInv ==
    ASSUME BrokerInv, NEW r \in Request, Wipe(r)
    PROVE  BrokerInv'
<1>1. TypeOK'
  BY BrokerAssumption DEF BrokerInv, Wipe, Return, pollVars, TypeOK, Code
<1>2. UnsentIsNowhere' /\ OnePlace' /\ PollerHasJob'
  BY NothingMoves DEF BrokerInv, TypeOK, Wipe, Return, pollVars, Unsent
<1>3. VerdictIsOfNode' /\ CloseCoversInFlight'
  BY DEF BrokerInv, Wipe, pollVars, VerdictIsOfNode, CloseCoversInFlight
<1>4. WholeUntilWiping'
  BY DEF BrokerInv, Wipe, Return, pollVars, TypeOK, WholeUntilWiping
<1>5. UnansweredUntilAwait'
  BY DEF BrokerInv, Wipe, Return, pollVars, TypeOK, UnansweredUntilAwait
<1>6. VerdictIsGenuine'
  BY BrokerAssumption DEF BrokerInv, Wipe, Return, pollVars, TypeOK, VerdictIsGenuine,
     Code
<1> QED
  BY <1>1, <1>2, <1>3, <1>4, <1>5, <1>6 DEF BrokerInv

\* A job is queued by the request that nobody has yet.
LEMMA SendKeepsInv ==
    ASSUME BrokerInv, NEW r \in Request, Send(r)
    PROVE  BrokerInv'
<1>1. TypeOK'
  BY BrokerAssumption DEF BrokerInv, TypeOK, Send, pollVars
<1>2. UnsentIsNowhere'
  <2> SUFFICES ASSUME NEW s \in Request, submit'[s] \in {"new", "sending"}
               PROVE  /\ ~Queued(s)'
                      /\ given'[s] = "nothing"
                      /\ \A q \in Poller : Holds(q)' => job'[q] # s
    BY DEF UnsentIsNowhere
  <2>1. s # r /\ submit[s] \in {"new", "sending"}
    BY DEF BrokerInv, TypeOK, Send
  <2>2. ~Queued(s) /\ given[s] = "nothing" /\ \A q \in Poller : Holds(q) => job[q] # s
    BY <2>1 DEF BrokerInv, UnsentIsNowhere
  <2>3. ~Queued(s)'
    BY <2>1, <2>2 DEF BrokerInv, TypeOK, Queued, Send
  <2> QED
    BY <2>2, <2>3 DEF Send, pollVars, Holds
<1>3. OnePlace'
  BY DEF BrokerInv, TypeOK, OnePlace, UnsentIsNowhere, PollerHasJob, Queued, Holds, Send,
     pollVars
<1>4. PollerHasJob'
  BY DEF BrokerInv, PollerHasJob, Send, pollVars
<1>5. VerdictIsOfNode' /\ CloseCoversInFlight' /\ VerdictIsGenuine'
  BY DEF BrokerInv, Send, pollVars, VerdictIsOfNode, CloseCoversInFlight,
     VerdictIsGenuine
<1>6. WholeUntilWiping'
  BY DEF BrokerInv, Send, pollVars, TypeOK, WholeUntilWiping
<1>7. UnansweredUntilAwait'
  BY DEF BrokerInv, Send, pollVars, TypeOK, UnansweredUntilAwait
<1> QED
  BY <1>1, <1>2, <1>3, <1>4, <1>5, <1>6, <1>7 DEF BrokerInv

\* A context ends: nobody has looked at it yet.
LEMMA LapseKeepsInv ==
    ASSUME BrokerInv, NEW r \in Request, NEW now \in {"cancelled", "expired"}, Lapse(r, now)
    PROVE  BrokerInv'
<1>1. TypeOK'
  BY DEF BrokerInv, Lapse, pollVars, TypeOK
<1>2. UnsentIsNowhere' /\ OnePlace' /\ PollerHasJob'
  BY NothingMoves DEF BrokerInv, TypeOK, Lapse, pollVars, Unsent
<1>3. /\ WholeUntilWiping' /\ UnansweredUntilAwait' /\ VerdictIsOfNode'
      /\ CloseCoversInFlight' /\ VerdictIsGenuine'
  BY DEF BrokerInv, Lapse, pollVars, WholeUntilWiping, UnansweredUntilAwait,
     VerdictIsOfNode, CloseCoversInFlight, VerdictIsGenuine
<1> QED
  BY <1>1, <1>2, <1>3 DEF BrokerInv

\* A node answers what it was given.
LEMMA AnswerKeepsInv ==
    ASSUME BrokerInv, NEW r \in Request, NEW code \in Code, Answer(r, code)
    PROVE  BrokerInv'
<1>1. TypeOK'
  BY BrokerAssumption DEF BrokerInv, Answer, Complete, requestVars, pollVars, TypeOK,
     Code
<1>2. UnsentIsNowhere' /\ OnePlace' /\ PollerHasJob'
  BY NothingMoves DEF BrokerInv, TypeOK, Answer, requestVars, pollVars, Unsent
<1>3. WholeUntilWiping' /\ UnansweredUntilAwait' /\ VerdictIsGenuine'
  BY DEF BrokerInv, Answer, requestVars, pollVars, WholeUntilWiping,
     UnansweredUntilAwait, VerdictIsGenuine
<1>4. VerdictIsOfNode'
  BY DEF BrokerInv, Answer, Complete, requestVars, pollVars, TypeOK, VerdictIsOfNode
<1>5. CloseCoversInFlight'
  BY BrokerAssumption DEF BrokerInv, Answer, Complete, requestVars, pollVars, TypeOK,
     CloseCoversInFlight, Code
<1> QED
  BY <1>1, <1>2, <1>3, <1>4, <1>5 DEF BrokerInv

\* Close takes down all that is in flight.
LEMMA CloseKeepsInv ==
    ASSUME BrokerInv, Close
    PROVE  BrokerInv'
<1>1. TypeOK'
  BY DEF BrokerInv, Close, requestVars, pollVars, TypeOK
<1>2. UnsentIsNowhere' /\ OnePlace' /\ PollerHasJob'
  BY NothingMoves DEF BrokerInv, TypeOK, Close, requestVars, pollVars, Unsent
<1>3. /\ WholeUntilWiping' /\ UnansweredUntilAwait' /\ VerdictIsOfNode'
      /\ VerdictIsGenuine'
  BY DEF BrokerInv, Close, requestVars, pollVars, WholeUntilWiping,
     UnansweredUntilAwait, VerdictIsOfNode, VerdictIsGenuine
<1>4. CloseCoversInFlight'
  BY BrokerAssumption DEF BrokerInv, Close, requestVars, pollVars, TypeOK,
     CloseCoversInFlight, Code
<1> QED
  BY <1>1, <1>2, <1>3, <1>4 DEF BrokerInv

\* Close completes one of them.
LEMMA CancelInFlightKeepsInv ==
    ASSUME BrokerInv, NEW r \in Request, CancelInFlight(r)
    PROVE  BrokerInv'
<1>1. TypeOK'
  BY BrokerAssumption DEF BrokerInv, CancelInFlight, Complete, requestVars, pollVars,
     TypeOK, Code
<1>2. UnsentIsNowhere' /\ OnePlace' /\ PollerHasJob'
  BY NothingMoves DEF BrokerInv, TypeOK, CancelInFlight, requestVars, pollVars, Unsent
<1>3. WholeUntilWiping' /\ UnansweredUntilAwait' /\ VerdictIsGenuine'
  BY DEF BrokerInv, CancelInFlight, requestVars, pollVars, WholeUntilWiping,
     UnansweredUntilAwait, VerdictIsGenuine
<1>4. VerdictIsOfNode'
  BY DEF BrokerInv, CancelInFlight, Complete, requestVars, pollVars, TypeOK,
     VerdictIsOfNode
<1>5. CloseCoversInFlight'
  BY BrokerAssumption DEF BrokerInv, CancelInFlight, Complete, requestVars, pollVars,
     TypeOK, CloseCoversInFlight, Code
<1> QED
  BY <1>1, <1>2, <1>3, <1>4, <1>5 DEF BrokerInv

\* A poll starts.
LEMMA PollKeepsInv ==
    ASSUME BrokerInv, NEW p \in Poller, Poll(p)
    PROVE  BrokerInv'
<1>1. TypeOK'
  BY DEF BrokerInv, Poll, GoOn, requestVars, TypeOK
<1>2. UnsentIsNowhere' /\ OnePlace'
  BY PollerMoves DEF BrokerInv, TypeOK, PollerHasJob, Poll, GoOn, requestVars, Holds
<1>3. PollerHasJob'
  BY DEF BrokerInv, TypeOK, PollerHasJob, Poll, GoOn
<1>4. /\ WholeUntilWiping' /\ UnansweredUntilAwait' /\ VerdictIsOfNode'
      /\ CloseCoversInFlight' /\ VerdictIsGenuine'
  BY DEF BrokerInv, Poll, GoOn, requestVars, WholeUntilWiping, UnansweredUntilAwait,
     VerdictIsOfNode, CloseCoversInFlight, VerdictIsGenuine
<1> QED
  BY <1>1, <1>2, <1>3, <1>4 DEF BrokerInv

\* A poll ends without a job.
LEMMA PollTimeoutKeepsInv ==
    ASSUME BrokerInv, NEW p \in Poller, PollTimeout(p)
    PROVE  BrokerInv'
<1>1. TypeOK'
  BY DEF BrokerInv, PollTimeout, GoOn, requestVars, TypeOK
<1>2. UnsentIsNowhere' /\ OnePlace'
  BY PollerMoves DEF BrokerInv, TypeOK, PollerHasJob, PollTimeout, GoOn, requestVars,
     Holds
<1>3. PollerHasJob'
  BY DEF BrokerInv, TypeOK, PollerHasJob, PollTimeout, GoOn
<1>4. /\ WholeUntilWiping' /\ UnansweredUntilAwait' /\ VerdictIsOfNode'
      /\ CloseCoversInFlight' /\ VerdictIsGenuine'
  BY DEF BrokerInv, PollTimeout, GoOn, requestVars, WholeUntilWiping,
     UnansweredUntilAwait, VerdictIsOfNode, CloseCoversInFlight, VerdictIsGenuine
<1> QED
  BY <1>1, <1>2, <1>3, <1>4 DEF BrokerInv

\* The head of a queue becomes the job of one poller.
LEMMA TakeKeepsInv ==
    ASSUME BrokerInv, NEW p \in Poller, Take(p)
    PROVE  BrokerInv'
<1>1. TypeOK'
  BY BrokerAssumption DEF BrokerInv, TypeOK, Take, GoOn, requestVars
<1>2. \A s \in Request : Queued(s)' => Queued(s)
  BY DEF BrokerInv, TypeOK, Queued, Take
<1>3. Queued(job'[p]) /\ job'[p] \in Request
  BY DEF BrokerInv, TypeOK, Queued, Take, GoOn
<1>4. UnsentIsNowhere'
  <2> SUFFICES ASSUME NEW s \in Request, submit'[s] \in {"new", "sending"}
               PROVE  /\ ~Queued(s)'
                      /\ given'[s] = "nothing"
                      /\ \A q \in Poller : Holds(q)' => job'[q] # s
    BY DEF UnsentIsNowhere
  <2>1. ~Queued(s) /\ given[s] = "nothing" /\ \A q \in Poller : Holds(q) => job[q] # s
    BY DEF BrokerInv, UnsentIsNowhere, Take, GoOn, requestVars
  <2>2. \A q \in Poller : Holds(q)' => job'[q] # s
    BY <1>3, <2>1 DEF BrokerInv, TypeOK, Take, GoOn, Holds
  <2> QED
    BY <1>2, <2>1, <2>2 DEF Take
<1>5. OnePlace'
  BY SMTT(30) DEF BrokerInv, TypeOK, OnePlace, Queued, Holds, PollerHasJob, Take, GoOn, requestVars
<1>6. PollerHasJob'
  BY <1>3 DEF BrokerInv, TypeOK, PollerHasJob, Take, GoOn
<1>7. /\ WholeUntilWiping' /\ UnansweredUntilAwait' /\ VerdictIsOfNode'
      /\ CloseCoversInFlight' /\ VerdictIsGenuine'
  BY DEF BrokerInv, Take, GoOn, requestVars, WholeUntilWiping, UnansweredUntilAwait,
     VerdictIsOfNode, CloseCoversInFlight, VerdictIsGenuine
<1> QED
  BY <1>1, <1>4, <1>5, <1>6, <1>7 DEF BrokerInv

\* A job past its deadline is completed, another goes on to be claimed.
LEMMA CheckDeadlineKeepsInv ==
    ASSUME BrokerInv, NEW p \in Poller, CheckDeadline(p)
    PROVE  BrokerInv'
<1>1. job[p] \in Request /\ poll[p] = "taken"
  BY DEF BrokerInv, PollerHasJob, CheckDeadline
<1>2. /\ \/ poll' = [poll EXCEPT ![p] = "listening"] /\ job' = [job EXCEPT ![p] = NoRequest]
         \/ poll' = [poll EXCEPT ![p] = "claiming"] /\ job' = [job EXCEPT ![p] = job[p]]
      /\ UNCHANGED <<closed, queue, inflight, closing, home, ctx, submit, answer, password,
                     serves, given>>
  BY DEF CheckDeadline, GoOn, requestVars
<1>3. result' = result \/ result' = [result EXCEPT ![job[p]] =
         IF result[job[p]] = NoResult THEN "cancelled" ELSE result[job[p]]]
  BY DEF CheckDeadline, Complete
<1>4. TypeOK'
  <2>1. result' \in [Request -> Code \cup {NoResult}]
    <3>1. \A value \in Code \cup {NoResult} :
             [result EXCEPT ![job[p]] = value] \in [Request -> Code \cup {NoResult}]
      BY <1>1 DEF BrokerInv, TypeOK
    <3>2. "cancelled" \in Code /\ result[job[p]] \in Code \cup {NoResult}
      BY <1>1 DEF BrokerInv, TypeOK, Code
    <3>3. (IF result[job[p]] = NoResult THEN "cancelled" ELSE result[job[p]])
             \in Code \cup {NoResult}
      BY <3>2
    <3>4. CASE result' = result
      BY <3>4 DEF BrokerInv, TypeOK
    <3>5. CASE result' # result
      BY <1>3, <3>1, <3>3, <3>5
    <3> QED
      BY <3>4, <3>5
  <2> QED
    BY <1>1, <1>2, <2>1 DEF BrokerInv, TypeOK
<1>5. UnsentIsNowhere' /\ OnePlace'
  <2>1. Holds(p)' => Holds(p) /\ job'[p] = job[p]
    BY <1>1, <1>2 DEF BrokerInv, TypeOK, Holds
  <2>2. \A q \in Poller \ {p} : poll'[q] = poll[q] /\ job'[q] = job[q]
    BY <1>2 DEF BrokerInv, TypeOK
  <2> QED
    BY <1>2, <2>1, <2>2, PollerMoves
<1>6. PollerHasJob'
  BY <1>1, <1>2, ZenonT(40) DEF BrokerInv, TypeOK, PollerHasJob
<1>7. WholeUntilWiping' /\ UnansweredUntilAwait' /\ VerdictIsGenuine'
  BY <1>2 DEF BrokerInv, WholeUntilWiping, UnansweredUntilAwait, VerdictIsGenuine
<1>8. VerdictIsOfNode'
  BY <1>1, <1>2, <1>3 DEF BrokerInv, TypeOK, VerdictIsOfNode
<1>9. CloseCoversInFlight'
  BY <1>1, <1>2, <1>3, BrokerAssumption DEF BrokerInv, TypeOK, CloseCoversInFlight, Code
<1> QED
  BY <1>4, <1>5, <1>6, <1>7, <1>8, <1>9 DEF BrokerInv

\* A job is claimed unless the broker is closed.
LEMMA ClaimKeepsInv ==
    ASSUME BrokerInv, NEW p \in Poller, Claim(p)
    PROVE  BrokerInv'
<1>1. TypeOK'
  BY BrokerAssumption, ZenonT(40) DEF BrokerInv, Claim, GoOn, Complete, requestVars, TypeOK,
     PollerHasJob, Code
<1>2. UnsentIsNowhere' /\ OnePlace'
  BY PollerMoves, ZenonT(40) DEF BrokerInv, TypeOK, PollerHasJob, Claim, GoOn, requestVars, Holds
<1>3. PollerHasJob'
  BY DEF BrokerInv, TypeOK, PollerHasJob, Claim, GoOn
<1>4. WholeUntilWiping' /\ UnansweredUntilAwait' /\ VerdictIsGenuine'
  BY DEF BrokerInv, Claim, GoOn, requestVars, WholeUntilWiping, UnansweredUntilAwait,
     VerdictIsGenuine
<1>5. VerdictIsOfNode'
  BY DEF BrokerInv, Claim, GoOn, Complete, requestVars, TypeOK, VerdictIsOfNode
<1>6. CloseCoversInFlight'
  BY BrokerAssumption DEF BrokerInv, Claim, GoOn, Complete, requestVars, TypeOK,
     CloseCoversInFlight, PollerHasJob, Code
<1> QED
  BY <1>1, <1>2, <1>3, <1>4, <1>5, <1>6 DEF BrokerInv

\* The password reaches the node, or does not: nobody can have answered before.
LEMMA WriteDeliveryKeepsInv ==
    ASSUME BrokerInv, NEW p \in Poller, WriteDelivery(p)
    PROVE  BrokerInv'
<1>1. job[p] \in Request /\ poll[p] = "writing"
  BY DEF BrokerInv, PollerHasJob, WriteDelivery
<1>2. /\ \/ poll' = [poll EXCEPT ![p] = "idle"] /\ job' = [job EXCEPT ![p] = NoRequest]
         \/ poll' = [poll EXCEPT ![p] = "failing"] /\ job' = [job EXCEPT ![p] = job[p]]
      /\ UNCHANGED <<closed, queue, inflight, closing, home, ctx, submit, answer, password,
                     serves, result>>
  BY DEF WriteDelivery, GoOn, requestVars
<1>3. PICK what \in Read(job[p]) \cup {"nothing"} : given' = [given EXCEPT ![job[p]] = what]
  BY DEF WriteDelivery
<1>4. /\ what \in {"nothing", "whole", "wiped"}
      /\ submit[job[p]] \in {"new", "sending", "waiting", "finishing"} => what # "wiped"
  BY <1>1 DEF BrokerInv, TypeOK, WholeUntilWiping, Read
<1>5. given[job[p]] = "nothing"
  BY <1>1 DEF BrokerInv, OnePlace, Holds
<1>6. TypeOK'
  BY <1>1, <1>2, <1>3, <1>4 DEF BrokerInv, TypeOK
<1>7. UnsentIsNowhere' /\ OnePlace'
  <2>1. Holds(p) /\ ~Holds(p)'
    BY <1>1, <1>2 DEF BrokerInv, TypeOK, Holds
  <2>2. \A q \in Poller \ {p} : poll'[q] = poll[q] /\ job'[q] = job[q]
    BY <1>2 DEF BrokerInv, TypeOK
  <2>3. \A s \in Request : given'[s] # given[s] => job[p] = s
    BY <1>3 DEF BrokerInv, TypeOK
  <2> QED
    BY <1>2, <2>1, <2>2, <2>3, PollerMoves
<1>8. PollerHasJob'
  BY <1>1, <1>2, ZenonT(40) DEF BrokerInv, TypeOK, PollerHasJob
<1>9. WholeUntilWiping'
  BY <1>1, <1>2, <1>3, <1>4 DEF BrokerInv, TypeOK, WholeUntilWiping
<1>10. UnansweredUntilAwait' /\ CloseCoversInFlight'
  BY <1>2 DEF BrokerInv, UnansweredUntilAwait, CloseCoversInFlight
<1>11. VerdictIsOfNode' /\ VerdictIsGenuine'
  <2>1. result[job[p]] # "verdict" /\ answer[job[p]] # "verdict"
    BY <1>1, <1>5 DEF BrokerInv, VerdictIsOfNode, VerdictIsGenuine
  <2> QED
    BY <1>1, <1>2, <1>3, <2>1 DEF BrokerInv, TypeOK, VerdictIsOfNode, VerdictIsGenuine
<1> QED
  BY <1>6, <1>7, <1>8, <1>9, <1>10, <1>11 DEF BrokerInv

\* A broken delivery completes its job.
LEMMA FailDeliveryKeepsInv ==
    ASSUME BrokerInv, NEW p \in Poller, FailDelivery(p)
    PROVE  BrokerInv'
<1>1. TypeOK'
  BY BrokerAssumption DEF BrokerInv, FailDelivery, GoOn, Complete, requestVars, TypeOK,
     PollerHasJob, Code
<1>2. UnsentIsNowhere' /\ OnePlace'
  BY PollerMoves DEF BrokerInv, TypeOK, PollerHasJob, FailDelivery, GoOn, requestVars,
     Holds
<1>3. PollerHasJob'
  BY DEF BrokerInv, TypeOK, PollerHasJob, FailDelivery, GoOn
<1>4. WholeUntilWiping' /\ UnansweredUntilAwait' /\ VerdictIsGenuine'
  BY DEF BrokerInv, FailDelivery, GoOn, requestVars, WholeUntilWiping,
     UnansweredUntilAwait, VerdictIsGenuine
<1>5. VerdictIsOfNode'
  BY DEF BrokerInv, FailDelivery, GoOn, Complete, requestVars, TypeOK, VerdictIsOfNode
<1>6. CloseCoversInFlight'
  BY BrokerAssumption DEF BrokerInv, FailDelivery, GoOn, Complete, requestVars, TypeOK,
     CloseCoversInFlight, PollerHasJob, Code
<1> QED
  BY <1>1, <1>2, <1>3, <1>4, <1>5, <1>6 DEF BrokerInv

(***************************************************************************)
(* The theorems.                                                           *)
(***************************************************************************)

\* Nothing is queued, claimed, answered or closed at first.
LEMMA InitBrokerInv == Init => BrokerInv
<1> SUFFICES ASSUME Init PROVE BrokerInv
  OBVIOUS
<1>1. TypeOK
  <2>1. queue \in [Node -> Seq(Request)]
    BY DEF Init
  <2>2. /\ submit \in [Request -> {"new", "sending", "waiting", "finishing", "wiping", "returned"}]
        /\ ctx \in [Request -> {"live", "cancelled", "expired"}]
        /\ password \in [Request -> {"whole", "wiped"}]
        /\ given \in [Request -> {"nothing", "whole", "wiped"}]
        /\ poll \in [Poller -> {"idle", "listening", "taken", "claiming", "writing", "failing"}]
    BY DEF Init
  <2>3. /\ result \in [Request -> Code \cup {NoResult}]
        /\ answer \in [Request -> Code \cup {NoResult}]
        /\ job \in [Poller -> Request \cup {NoRequest}]
    BY DEF Init
  <2> QED
    BY <2>1, <2>2, <2>3 DEF Init, TypeOK
<1>2. UnsentIsNowhere /\ OnePlace /\ PollerHasJob
  BY DEF Init, UnsentIsNowhere, OnePlace, PollerHasJob, Queued, Holds
<1>3. WholeUntilWiping /\ UnansweredUntilAwait /\ VerdictIsOfNode /\ CloseCoversInFlight
  BY BrokerAssumption DEF Init, WholeUntilWiping, UnansweredUntilAwait, VerdictIsOfNode,
     CloseCoversInFlight, Code
<1>4. VerdictIsGenuine
  BY BrokerAssumption DEF Init, VerdictIsGenuine, Code
<1> QED
  BY <1>1, <1>2, <1>3, <1>4 DEF BrokerInv

\* Every step of a request, a poller, a node or the shutdown keeps the invariant.
LEMMA NextKeepsInv == BrokerInv /\ [Next]_vars => BrokerInv'
<1> SUFFICES ASSUME BrokerInv, [Next]_vars PROVE BrokerInv'
  OBVIOUS
<1>1. CASE Next
  <2>1. ASSUME NEW r \in Request, Submitting(r) PROVE BrokerInv'
    BY <2>1, SubmitKeepsInv, SendKeepsInv, GiveUpSendingKeepsInv, AwaitKeepsInv,
       ForgetKeepsInv, WipeKeepsInv DEF Submitting
  <2>2. ASSUME NEW r \in Request, CancelInFlight(r) PROVE BrokerInv'
    BY <2>2, CancelInFlightKeepsInv
  <2>3. ASSUME NEW r \in Request, NEW now \in {"cancelled", "expired"}, Lapse(r, now)
        PROVE  BrokerInv'
    BY <2>3, LapseKeepsInv
  <2>4. ASSUME NEW r \in Request, NEW code \in Code, Answer(r, code) PROVE BrokerInv'
    BY <2>4, AnswerKeepsInv
  <2>5. ASSUME NEW p \in Poller, Polling(p) PROVE BrokerInv'
    BY <2>5, PollKeepsInv, PollTimeoutKeepsInv, TakeKeepsInv DEF Polling
  <2>6. ASSUME NEW p \in Poller, Delivering(p) PROVE BrokerInv'
    BY <2>6, CheckDeadlineKeepsInv, ClaimKeepsInv, WriteDeliveryKeepsInv,
       FailDeliveryKeepsInv DEF Delivering
  <2>7. CASE Close
    BY <2>7, CloseKeepsInv
  <2> QED
    BY <1>1, <2>1, <2>2, <2>3, <2>4, <2>5, <2>6, <2>7 DEF Next
<1>2. CASE UNCHANGED vars
  BY <1>2 DEF vars, requestVars, pollVars, BrokerInv, TypeOK, UnsentIsNowhere, OnePlace,
     PollerHasJob, WholeUntilWiping, UnansweredUntilAwait, VerdictIsOfNode,
     CloseCoversInFlight, VerdictIsGenuine, Queued, Holds
<1> QED
  BY <1>1, <1>2

\* Every job is handed to one node once, with the password its Submit still keeps.
THEOREM BrokerInvariant == Spec => []BrokerInv
<1> QED
  BY InitBrokerInv, NextKeepsInv, PTL DEF Spec

\* The variables of the broker have their types.
THEOREM BrokerTypeCorrect == Spec => []TypeOK
<1>1. BrokerInv => TypeOK
  BY DEF BrokerInv
<1> QED
  BY <1>1, BrokerInvariant, PTL

\* No user is told a verdict about a password that the node did not have whole.
THEOREM VerdictIsAlwaysGenuine == Spec => []VerdictIsGenuine
<1>1. BrokerInv => VerdictIsGenuine
  BY DEF BrokerInv
<1> QED
  BY <1>1, BrokerInvariant, PTL

\* When Close is through, no job in flight is without a result.
THEOREM CloseAlwaysAnswersAll == Spec => []CloseAnswersAll
<1>1. BrokerInv => CloseAnswersAll
  BY DEF BrokerInv, CloseCoversInFlight, CloseAnswersAll
<1> QED
  BY <1>1, BrokerInvariant, PTL

(***************************************************************************)
(* The broker implements Exchange.                                         *)
(***************************************************************************)

\* Submit turns a request away that nobody was shown, tells its user the answer in
\* Await, and is over once it has wiped its copy.
LEMMA SubmittingRefines ==
    ASSUME BrokerInv, NEW r \in Request, Submitting(r)
    PROVE  [Promise!Next]_(Promise!vars)
<1>1. ASSUME Return(r, "unavailable"), submit[r] \in {"new", "sending"}, given' = given
      PROVE  Promise!Refuse(r)
  <2>1. given[r] = "nothing" /\ answer[r] = NoResult
    BY <1>1 DEF BrokerInv, UnsentIsNowhere, UnansweredUntilAwait
  <2>2. Returned' = Returned \cup {r}
    BY <1>1 DEF BrokerInv, TypeOK, Returned, Return
  <2> QED
    BY <1>1, <2>1, <2>2 DEF Return, Promise!Refuse, Promise!Answered
<1>2. ASSUME submit' \in {[submit EXCEPT ![r] = at] : at \in {"sending", "waiting", "finishing", "wiping"}},
             submit[r] # "returned"
      PROVE  Returned' = Returned
  BY <1>2 DEF BrokerInv, TypeOK, Returned
<1>3. CASE Submit(r)
  <2>1. CASE Return(r, "unavailable")
    BY <1>1, <1>3, <2>1 DEF Submit, Promise!Next
  <2>2. CASE ~Return(r, "unavailable")
    BY <1>2, <1>3, <2>2 DEF Submit, Promise!vars
  <2> QED
    BY <2>1, <2>2
<1>4. CASE Send(r)
  BY <1>2, <1>4 DEF Send, Promise!vars
<1>5. CASE GiveUpSending(r)
  BY <1>1, <1>5 DEF GiveUpSending, Promise!Next
<1>6. CASE Await(r)
  <2>1. Returned' = Returned /\ given' = given
    BY <1>2, <1>6 DEF Await
  <2>2. answer[r] = NoResult
    BY <1>6 DEF BrokerInv, UnansweredUntilAwait, Await
  <2>3. PICK code \in Code : /\ answer' = [answer EXCEPT ![r] = code]
                             /\ code = "unavailable" \/ code = result[r]
    BY <1>6 DEF BrokerInv, TypeOK, Await, Code
  <2>4. code = "verdict" => given[r] = "whole"
    BY <1>6, <2>3 DEF BrokerInv, TypeOK, VerdictIsOfNode, WholeUntilWiping, Await
  <2>5. Promise!Tell(r, code)
    BY <2>1, <2>2, <2>3, <2>4 DEF Promise!Tell, Promise!Answered
  <2> QED
    BY <2>5 DEF Promise!Next
<1>7. CASE Forget(r)
  BY <1>2, <1>7 DEF Forget, Promise!vars
<1>8. CASE Wipe(r)
  <2>1. answer[r] # NoResult
    BY <1>8 DEF BrokerInv, UnansweredUntilAwait, Wipe
  <2>2. Returned' = Returned \cup {r}
    BY <1>8 DEF BrokerInv, TypeOK, Returned, Wipe, Return
  <2>3. answer' = answer
    BY <1>8 DEF BrokerInv, TypeOK, Wipe, Return
  <2>4. Promise!Finish(r)
    BY <1>8, <2>1, <2>2, <2>3 DEF Wipe, Promise!Finish
  <2> QED
    BY <2>4 DEF Promise!Next
<1> QED
  BY <1>3, <1>4, <1>5, <1>6, <1>7, <1>8 DEF Submitting

\* A poller shows the node what Submit's copy holds, once.
LEMMA WriteDeliveryRefines ==
    ASSUME BrokerInv, NEW p \in Poller, WriteDelivery(p)
    PROVE  [Promise!Next]_(Promise!vars)
<1> DEFINE r == job[p]
<1>1. r \in Request /\ given[r] = "nothing"
  BY DEF BrokerInv, OnePlace, PollerHasJob, Holds, WriteDelivery
<1>2. answer' = answer /\ Returned' = Returned
  BY DEF WriteDelivery, GoOn, requestVars, Returned
<1>3. PICK what \in Read(r) \cup {"nothing"} : given' = [given EXCEPT ![r] = what]
  BY DEF WriteDelivery
<1>4. CASE what = "nothing"
  BY <1>1, <1>2, <1>3, <1>4 DEF BrokerInv, TypeOK, Promise!vars
<1>5. CASE what # "nothing"
  <2>1. what \in {"whole", "wiped"}
    BY <1>1, <1>5 DEF BrokerInv, TypeOK, Read
  <2>2. what = "whole" => r \notin Returned
    BY <1>1 DEF BrokerInv, WholeUntilWiping, Returned, Read
  <2>3. what = "wiped" => answer[r] # NoResult
    BY <1>1, <2>1 DEF BrokerInv, TypeOK, WholeUntilWiping, UnansweredUntilAwait, Read
  <2>4. Promise!Show(r, what)
    BY <1>1, <1>2, <1>3, <2>2, <2>3 DEF Promise!Show
  <2> QED
    BY <1>1, <2>1, <2>4 DEF Promise!Next
<1> QED
  BY <1>4, <1>5

\* Every step of the broker is a step of the promise, or a stutter.
LEMMA NextRefines == BrokerInv /\ [Next]_vars => [Promise!Next]_(Promise!vars)
<1> SUFFICES ASSUME BrokerInv, [Next]_vars PROVE [Promise!Next]_(Promise!vars)
  OBVIOUS
<1>1. ASSUME UNCHANGED <<given, answer, submit>> PROVE UNCHANGED Promise!vars
  BY <1>1 DEF Promise!vars, Returned
<1>2. CASE Next
  <2>1. ASSUME NEW r \in Request, Submitting(r) PROVE [Promise!Next]_(Promise!vars)
    BY <2>1, SubmittingRefines
  <2>2. ASSUME NEW r \in Request,
               \/ CancelInFlight(r)
               \/ \E now \in {"cancelled", "expired"} : Lapse(r, now)
               \/ \E code \in Code : Answer(r, code)
        PROVE  UNCHANGED Promise!vars
    BY <1>1, <2>2 DEF CancelInFlight, Lapse, Answer, requestVars
  <2>3. ASSUME NEW p \in Poller, WriteDelivery(p) PROVE [Promise!Next]_(Promise!vars)
    BY <2>3, WriteDeliveryRefines
  <2>4. ASSUME NEW p \in Poller,
               Polling(p) \/ CheckDeadline(p) \/ Claim(p) \/ FailDelivery(p)
        PROVE  UNCHANGED Promise!vars
    BY <1>1, <2>4 DEF Polling, Poll, PollTimeout, Take, CheckDeadline, Claim,
       FailDelivery, GoOn, requestVars
  <2>5. CASE Close
    BY <1>1, <2>5 DEF Close, requestVars
  <2> QED
    BY <1>2, <2>1, <2>2, <2>3, <2>4, <2>5 DEF Next, Delivering
<1>3. CASE UNCHANGED vars
  BY <1>1, <1>3 DEF vars, requestVars
<1> QED
  BY <1>2, <1>3

\* One answer for every user, a verdict only about a password shown whole, and no
\* password shown twice, damaged under a waiting user, or after Submit has returned.
THEOREM BrokerRefinement == Spec => ImplementsExchange
<1>1. Init => Promise!Init
  BY DEF Init, Promise!Init, Returned
<1> QED
  BY <1>1, BrokerInvariant, NextRefines, PTL DEF Spec, ImplementsExchange, Promise!Spec
=============================================================================
