------------------------------- MODULE Broker -------------------------------
(***************************************************************************)
(* The Broker of modules/campusconnector: it hands interactive checks of   *)
(* school accounts from HTTP requests to the connector nodes that poll for *)
(* them, and the nodes' results back, all in the memory of one process.    *)
(*                                                                         *)
(* Every request, poll and result is a goroutine of its own.  They meet    *)
(* under the mutex, in the nodes' buffered channels and in the one-place   *)
(* channel of each job's result, of which sync.Once lets the first         *)
(* completion through.  Submit owns a copy of the password and overwrites  *)
(* it when it returns, with no regard to who may be reading it.            *)
(*                                                                         *)
(* The nodes are not part of the repository's server: here they answer     *)
(* what they were given, late, twice or never.                             *)
(***************************************************************************)
EXTENDS Naturals, Sequences

CONSTANTS
    Request,    \* calls of Submit
    Node,
    Poller,     \* goroutines that poll for a node
    Capacity,   \* of a node's channel
    NoRequest,
    NoResult

Code == {"verdict", "unavailable", "cancelled"}

ASSUME BrokerAssumption ==
    /\ Capacity \in Nat \ {0}
    /\ NoRequest \notin Request
    /\ NoResult \notin Code

VARIABLES
    closed,     \* Broker.closed
    queue,      \* Node -> its channel of jobs
    inflight,   \* the keys of Broker.inflight
    closing,    \* the jobs Close has still to complete
    home,       \* Request -> its NodeID
    ctx,        \* Request -> its context, and whether its deadline has passed
    submit,     \* Request -> where its goroutine is in Submit
    result,     \* Request -> what its job was completed with, or NoResult
    answer,     \* Request -> what Submit returned
    password,   \* Request -> Submit's copy
    poll,       \* Poller -> where it is in handlePoll and Claim
    serves,     \* Poller -> the node it polls for
    job,        \* Poller -> the job it has taken from the channel
    given       \* history: Request -> what reached the node of its password

requestVars == <<home, ctx, submit, answer, password>>
pollVars == <<poll, serves, job>>
vars == <<closed, queue, inflight, closing, requestVars, result, pollVars, given>>

Init ==
    /\ closed = FALSE
    /\ queue = [n \in Node |-> <<>>]
    /\ inflight = {}
    /\ closing = {}
    /\ home \in [Request -> Node]
    /\ ctx = [r \in Request |-> "live"]
    /\ submit = [r \in Request |-> "new"]
    /\ result = [r \in Request |-> NoResult]
    /\ answer = [r \in Request |-> NoResult]
    /\ password = [r \in Request |-> "whole"]
    /\ poll = [p \in Poller |-> "idle"]
    /\ serves \in [Poller -> Node]
    /\ job = [p \in Poller |-> NoRequest]
    /\ given = [r \in Request |-> "nothing"]

\* interactiveJob.complete: only the first completion counts.  What follows the
\* mutex in its callers is part of their step, for nothing else is touched.
Complete(r, code) == result' = [result EXCEPT ![r] = IF @ = NoResult THEN code ELSE @]
-----------------------------------------------------------------------------
(* Submit.                                                                 *)

\* Mutant of Return: the copy outlives the call.
ReturnUnwiped(r, with) ==
    /\ submit' = [submit EXCEPT ![r] = "returned"]
    /\ answer' = [answer EXCEPT ![r] = with]
    /\ UNCHANGED password

Return(r, with) ==
    /\ submit' = [submit EXCEPT ![r] = "returned"]
    /\ answer' = [answer EXCEPT ![r] = with]
    /\ password' = [password EXCEPT ![r] = "wiped"]

\* Broker.queue refuses when the broker is closed.
Submit(r) ==
    /\ submit[r] = "new"
    /\ \/ closed /\ Return(r, "unavailable")
       \/ /\ ~closed
          /\ submit' = [submit EXCEPT ![r] = "sending"]
          /\ UNCHANGED <<answer, password>>
    /\ UNCHANGED <<closed, queue, inflight, closing, home, ctx, result, pollVars, given>>

\* Mutant of Send: the copy is wiped as soon as the job is queued.
SendAndWipe(r) ==
    /\ submit[r] = "sending"
    /\ Len(queue[home[r]]) < Capacity
    /\ queue' = [queue EXCEPT ![home[r]] = Append(@, r)]
    /\ submit' = [submit EXCEPT ![r] = "waiting"]
    /\ password' = [password EXCEPT ![r] = "wiped"]
    /\ UNCHANGED <<closed, inflight, closing, home, ctx, answer, result, pollVars, given>>

Send(r) ==
    /\ submit[r] = "sending"
    /\ Len(queue[home[r]]) < Capacity
    /\ queue' = [queue EXCEPT ![home[r]] = Append(@, r)]
    /\ submit' = [submit EXCEPT ![r] = "waiting"]
    /\ UNCHANGED <<closed, inflight, closing, home, ctx, answer, password, result, pollVars, given>>

GiveUpSending(r) ==
    /\ submit[r] = "sending"
    /\ ctx[r] # "live"
    /\ Return(r, "unavailable")
    /\ UNCHANGED <<closed, queue, inflight, closing, home, ctx, result, pollVars, given>>

\* select takes either case when both are ready.
Await(r) ==
    /\ submit[r] = "waiting"
    /\ \/ result[r] # NoResult /\ answer' = [answer EXCEPT ![r] = result[r]]
       \/ ctx[r] # "live" /\ answer' = [answer EXCEPT ![r] = "unavailable"]
    /\ submit' = [submit EXCEPT ![r] = "finishing"]
    /\ UNCHANGED <<closed, queue, inflight, closing, home, ctx, password, result, pollVars, given>>

\* The deferred function, in two steps: the mutex covers the first one only.
Forget(r) ==
    /\ submit[r] = "finishing"
    /\ inflight' = inflight \ {r}
    /\ submit' = [submit EXCEPT ![r] = "wiping"]
    /\ UNCHANGED <<closed, queue, closing, home, ctx, answer, password, result, pollVars, given>>

Wipe(r) ==
    /\ submit[r] = "wiping"
    /\ Return(r, answer[r])
    /\ UNCHANGED <<closed, queue, inflight, closing, home, ctx, result, pollVars, given>>

\* The caller goes away, or DeadlineAt passes.
Lapse(r, now) ==
    /\ \/ ctx[r] = "live" /\ now = "cancelled"
       \/ ctx[r] # "expired" /\ now = "expired"
    /\ ctx' = [ctx EXCEPT ![r] = now]
    /\ UNCHANGED <<closed, queue, inflight, closing, home, submit, answer, password, result,
                   pollVars, given>>
-----------------------------------------------------------------------------
(* handlePoll with Claim.                                                  *)

GoOn(p, at, r) ==
    /\ poll' = [poll EXCEPT ![p] = at]
    /\ job' = [job EXCEPT ![p] = r]
    /\ UNCHANGED <<closed, closing, requestVars, serves>>

\* A closed broker has no queue to give.
Poll(p) ==
    /\ poll[p] = "idle"
    /\ ~closed
    /\ GoOn(p, "listening", NoRequest)
    /\ UNCHANGED <<queue, inflight, result, given>>

PollTimeout(p) ==
    /\ poll[p] = "listening"
    /\ GoOn(p, "idle", NoRequest)
    /\ UNCHANGED <<queue, inflight, result, given>>

Take(p) ==
    /\ poll[p] = "listening"
    /\ queue[serves[p]] # <<>>
    /\ queue' = [queue EXCEPT ![serves[p]] = Tail(@)]
    /\ GoOn(p, "taken", Head(queue[serves[p]]))
    /\ UNCHANGED <<inflight, result, given>>

\* The deadline is looked at, the caller's context is not.
CheckDeadline(p) ==
    /\ poll[p] = "taken"
    /\ \/ /\ ctx[job[p]] = "expired"
          /\ Complete(job[p], "cancelled")
          /\ GoOn(p, "listening", NoRequest)
       \/ /\ ctx[job[p]] # "expired"
          /\ GoOn(p, "claiming", job[p])
          /\ UNCHANGED result
    /\ UNCHANGED <<queue, inflight, given>>

\* Mutant of Claim: "closed" is not looked at again under the mutex.
ClaimAnyway(p) ==
    /\ poll[p] = "claiming"
    /\ inflight' = inflight \cup {job[p]}
    /\ GoOn(p, "writing", job[p])
    /\ UNCHANGED <<queue, result, given>>

Claim(p) ==
    /\ poll[p] = "claiming"
    /\ \/ /\ closed
          /\ Complete(job[p], "cancelled")
          /\ GoOn(p, "idle", NoRequest)
          /\ UNCHANGED inflight
       \/ /\ ~closed
          /\ inflight' = inflight \cup {job[p]}
          /\ GoOn(p, "writing", job[p])
          /\ UNCHANGED result
    /\ UNCHANGED <<queue, given>>

\* What a reader gets of the password: a wipe that runs at the same time is a data
\* race.
Read(r) == IF submit[r] = "wiping" THEN {"whole", "wiped"} ELSE {password[r]}

\* WriteInteractiveDelivery.  What it wrote may reach the node or not, whether or
\* not it returns an error.
WriteDelivery(p) ==
    /\ poll[p] = "writing"
    /\ \E what \in Read(job[p]) \cup {"nothing"} : given' = [given EXCEPT ![job[p]] = what]
    /\ GoOn(p, "idle", NoRequest) \/ GoOn(p, "failing", job[p])
    /\ UNCHANGED <<queue, inflight, result>>

FailDelivery(p) ==
    /\ poll[p] = "failing"
    /\ \/ job[p] \in inflight /\ Complete(job[p], "unavailable")
       \/ job[p] \notin inflight /\ UNCHANGED result
    /\ GoOn(p, "idle", NoRequest)
    /\ UNCHANGED <<queue, inflight, given>>
-----------------------------------------------------------------------------
(* Results and shutdown.                                                   *)

\* handleResult: the node answers what it was given; any other request is
\* ErrRequestNotFound.
Answer(r, code) ==
    /\ given[r] # "nothing"
    /\ r \in inflight
    /\ Complete(r, code)
    /\ UNCHANGED <<closed, queue, inflight, closing, requestVars, pollVars, given>>

\* Mutant of Close: what is in flight is left to its deadline.
CloseQuietly ==
    /\ ~closed
    /\ closed' = TRUE
    /\ UNCHANGED <<queue, inflight, closing, requestVars, result, pollVars, given>>

\* Only what is in flight is completed: what is still queued is not.
Close ==
    /\ ~closed
    /\ closed' = TRUE
    /\ closing' = inflight
    /\ UNCHANGED <<queue, inflight, requestVars, result, pollVars, given>>

CancelInFlight(r) ==
    /\ r \in closing
    /\ closing' = closing \ {r}
    /\ Complete(r, "cancelled")
    /\ UNCHANGED <<closed, queue, inflight, requestVars, pollVars, given>>
-----------------------------------------------------------------------------
Submitting(r) == Submit(r) \/ Send(r) \/ GiveUpSending(r) \/ Await(r) \/ Forget(r) \/ Wipe(r)

Delivering(p) == CheckDeadline(p) \/ Claim(p) \/ WriteDelivery(p) \/ FailDelivery(p)

Polling(p) == Poll(p) \/ PollTimeout(p) \/ Take(p)

Next ==
    \/ \E r \in Request :
          \/ Submitting(r) \/ CancelInFlight(r)
          \/ \E now \in {"cancelled", "expired"} : Lapse(r, now)
          \/ \E code \in Code : Answer(r, code)
    \/ \E p \in Poller : Polling(p) \/ Delivering(p)
    \/ Close

Spec == Init /\ [][Next]_vars

\* The Go scheduler runs every goroutine that can run.  No deadline has to pass,
\* no node has to poll or answer, and nobody has to close the broker.
Fairness ==
    /\ \A r \in Request : WF_vars(Submitting(r)) /\ WF_vars(CancelInFlight(r))
    /\ \A p \in Poller : WF_vars(Delivering(p))

FairSpec == Spec /\ Fairness
-----------------------------------------------------------------------------
TypeOK ==
    /\ closed \in BOOLEAN
    /\ queue \in [Node -> Seq(Request)]
    /\ inflight \subseteq Request
    /\ closing \subseteq Request
    /\ home \in [Request -> Node]
    /\ ctx \in [Request -> {"live", "cancelled", "expired"}]
    /\ submit \in [Request -> {"new", "sending", "waiting", "finishing", "wiping", "returned"}]
    /\ result \in [Request -> Code \cup {NoResult}]
    /\ answer \in [Request -> Code \cup {NoResult}]
    /\ password \in [Request -> {"whole", "wiped"}]
    /\ poll \in [Poller -> {"idle", "listening", "taken", "claiming", "writing", "failing"}]
    /\ serves \in [Poller -> Node]
    /\ job \in [Poller -> Request \cup {NoRequest}]
    /\ given \in [Request -> {"nothing", "whole", "wiped"}]

\* A user is told that the school accepted or rejected the password only if the
\* node had the whole password: a wipe that overtakes a delivery, or a job claimed
\* after its caller had gone, never turns into a verdict.
VerdictIsGenuine == \A r \in Request : answer[r] = "verdict" => given[r] = "whole"

\* Once Close is through, every job in flight has been completed: no claim slips in
\* between its look at "closed" and the list of jobs that Close completes.
CloseAnswersAll == closed /\ closing = {} => \A r \in inflight : result[r] # NoResult

\* A request in flight does not have to wait for its deadline when its delivery
\* breaks or the broker is closed.
FailsFast ==
    \A r \in Request :
        r \in inflight /\ (closed \/ \E p \in Poller : poll[p] = "failing" /\ job[p] = r)
            ~> submit[r] = "returned"

\* What broker_test.go:49 expects: a request whose Submit has returned is not in
\* flight, and completing it is ErrRequestNotFound.
ReturnedIsForgotten == \A r \in Request : submit[r] = "returned" => r \notin inflight
-----------------------------------------------------------------------------
(* The inductive invariant.                                                *)

Holds(p) == poll[p] \in {"taken", "claiming", "writing"}

Queued(r) == \E n \in Node : \E i \in 1..Len(queue[n]) : queue[n][i] = r

UnsentIsNowhere ==
    \A r \in Request : submit[r] \in {"new", "sending"} =>
        /\ ~Queued(r)
        /\ given[r] = "nothing"
        /\ \A p \in Poller : Holds(p) => job[p] # r

\* A job stands in one place of one queue, or one poller has it, and until that
\* poller writes it nothing has reached the node.
OnePlace ==
    /\ \A n \in Node : \A i, j \in 1..Len(queue[n]) : queue[n][i] = queue[n][j] => i = j
    /\ \A n \in Node : \A i \in 1..Len(queue[n]) :
           home[queue[n][i]] = n /\ given[queue[n][i]] = "nothing"
    /\ \A p \in Poller : Holds(p) => ~Queued(job[p]) /\ given[job[p]] = "nothing"
    /\ \A p, q \in Poller : Holds(p) /\ Holds(q) /\ job[p] = job[q] => p = q

PollerHasJob == \A p \in Poller : poll[p] \notin {"idle", "listening"} => job[p] \in Request

WholeUntilWiping ==
    \A r \in Request :
        /\ submit[r] \in {"new", "sending", "waiting", "finishing"} =>
               password[r] = "whole" /\ given[r] # "wiped"
        /\ submit[r] = "returned" => password[r] = "wiped"

UnansweredUntilAwait ==
    \A r \in Request : submit[r] \in {"new", "sending", "waiting"} <=> answer[r] = NoResult

VerdictIsOfNode == \A r \in Request : result[r] = "verdict" => given[r] # "nothing"

CloseCoversInFlight ==
    closed => \A r \in inflight : r \in closing \/ result[r] # NoResult

\* Every job is handed to one node once, with the password that its Submit still
\* keeps, and Close misses none that is in flight.
BrokerInv ==
    /\ TypeOK
    /\ UnsentIsNowhere
    /\ OnePlace
    /\ PollerHasJob
    /\ WholeUntilWiping
    /\ UnansweredUntilAwait
    /\ VerdictIsOfNode
    /\ CloseCoversInFlight
    /\ VerdictIsGenuine
-----------------------------------------------------------------------------
(* What the broker implements.                                             *)

Returned == {r \in Request : submit[r] = "returned"}

Promise == INSTANCE Exchange WITH shown <- given, told <- answer, over <- Returned

\* A user is told one answer, and a verdict only about a password that a node was
\* shown whole; the password is shown once at most, intact while its user waits and not
\* once Submit has returned, whoever still has the job then.
ImplementsExchange == Promise!Spec
=============================================================================
