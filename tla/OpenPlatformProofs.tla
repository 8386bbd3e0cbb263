------------------------- MODULE OpenPlatformProofs -------------------------
(***************************************************************************)
(* Proofs about OpenPlatform, for any number of requests under way, of     *)
(* secrets, redirect URIs and profiles, and of faults.                     *)
(***************************************************************************)
EXTENDS OpenPlatform, TLAPS

USE OpenPlatformAssumption
-----------------------------------------------------------------------------
(* What one step of request r leaves of the others.                        *)

Mine == <<at, op, seen, found, want, target>>

\* Another request keeps its own variables, and one that is alone also what it knows: only a
\* writer changes that.
LeavesOthers(r) ==
    \A q \in Request \ {r} :
        /\ at'[q] = at[q] /\ op'[q] = op[q] /\ seen'[q] = seen[q]
        /\ found'[q] = found[q] /\ want'[q] = want[q] /\ target'[q] = target[q]
        /\ alone'[q] => alone[q]
        /\ alone'[q] =>
               /\ app'.spec = app.spec
               /\ app'.status = app.status \/ (app'.status \in Active /\ app.status \in Active)
               /\ uris' = uris /\ casdoor' = casdoor /\ torn' = torn

\* The other requests stay as the invariant wants them, for any step of r that leaves them.
LEMMA OthersStay ==
    ASSUME AppInv, NEW r \in Request, LeavesOthers(r),
           NEW q \in Request \ {r}
    PROVE  InStep(q)' /\ (alone'[q] => Knows(q)')
<1>1. InStep(q)'
    BY DEF AppInv, LeavesOthers, InStep
<1>2. ASSUME alone'[q] PROVE Knows(q)'
    <2>1. alone[q] /\ Knows(q)
        BY <1>2 DEF AppInv, LeavesOthers
    <2> DEFINE same == /\ at'[q] = at[q] /\ op'[q] = op[q] /\ seen'[q] = seen[q]
                       /\ found'[q] = found[q] /\ want'[q] = want[q] /\ target'[q] = target[q]
                       /\ app'.spec = app.spec
                       /\ app'.status = app.status \/ (app'.status \in Active /\ app.status \in Active)
                       /\ uris' = uris /\ casdoor' = casdoor /\ torn' = torn
    <2>2. same
        BY <1>2 DEF LeavesOthers
    <2>3. (Before(q)' <=> Before(q)) /\ (Sent(q)' <=> Sent(q)) /\ (Agree => Agree')
        BY <2>2 DEF Before, Sent, Agree, Active
    <2>4. Desired(q)' = Desired(q)
        BY <2>2 DEF Desired
    <2> QED
        BY <2>1, <2>2, <2>3, <2>4 DEF Knows, Active
<1> QED
    BY <1>1, <1>2

\* What is left to show of a step of r.
LEMMA Combine ==
    ASSUME AppInv, NEW r \in Request, LeavesOthers(r), AppTypeOK', InStep(r)',
           alone'[r] => Knows(r)', AloneIsAlone', AgreesAlone'
    PROVE  AppInv'
<1>1. ASSUME NEW q \in Request PROVE InStep(q)' /\ (alone'[q] => Knows(q)')
    <2>1. CASE q = r
        BY <2>1
    <2>2. CASE q # r
        BY <2>2, OthersStay
    <2> QED
        BY <2>1, <2>2
<1> QED
    BY <1>1 DEF AppInv
-----------------------------------------------------------------------------
(* The ways a request goes on, and ends.                                   *)

How == {"set right", "half way", "unchanged"}

LocalTypeOK ==
    /\ at \in [Request -> Step]
    /\ op \in [Request -> Kind \cup {"none"}]
    /\ seen \in [Request -> [status : AppStatus, spec : Details]]
    /\ found \in [Request -> Details \cup {NoApp}]
    /\ want \in [Request -> Value]
    /\ target \in [Request -> Value]
    /\ torn \in BOOLEAN
    /\ alone \in [Request -> BOOLEAN]

LEMMA LocalTypes == AppTypeOK => LocalTypeOK
    BY DEF AppTypeOK, LocalTypeOK

LEMMA BlankType == Blank \in [status : AppStatus, spec : Details] /\ NoApp \notin Details
<1>1. 0 \in Value
    BY DEF Value
<1> QED
    BY <1>1 DEF Blank, AppStatus, Details

\* A request that leaves is idle, and no one else's variables change.
LEMMA Leaving ==
    ASSUME LocalTypeOK, NEW r \in Request, NEW how \in How, Leave(r, how)
    PROVE  /\ LocalTypeOK'
           /\ at'[r] = "idle" /\ ~alone'[r] /\ found'[r] = NoApp
           /\ \A q \in Request \ {r} :
                 /\ at'[q] = at[q] /\ op'[q] = op[q] /\ seen'[q] = seen[q]
                 /\ found'[q] = found[q] /\ want'[q] = want[q] /\ target'[q] = target[q]
                 /\ alone'[q] = alone[q]
           /\ torn' = (IF how = "unchanged" THEN torn ELSE how = "half way" \/ (torn /\ ~alone[r]))
<1>1. torn' = (IF how = "unchanged" THEN torn ELSE how = "half way" \/ (torn /\ ~alone[r]))
    BY DEF Leave
<1>2. torn' \in BOOLEAN
    BY <1>1 DEF LocalTypeOK
<1>3. 0 \in Value
    BY DEF Value
<1>4. /\ at' \in [Request -> Step] /\ op' \in [Request -> Kind \cup {"none"}]
      /\ seen' \in [Request -> [status : AppStatus, spec : Details]]
      /\ found' \in [Request -> Details \cup {NoApp}]
      /\ want' \in [Request -> Value] /\ target' \in [Request -> Value]
      /\ alone' \in [Request -> BOOLEAN]
    BY <1>3, BlankType DEF Leave, LocalTypeOK, Step
<1>5. /\ at'[r] = "idle" /\ ~alone'[r] /\ found'[r] = NoApp
      /\ \A q \in Request \ {r} :
            /\ at'[q] = at[q] /\ op'[q] = op[q] /\ seen'[q] = seen[q]
            /\ found'[q] = found[q] /\ want'[q] = want[q] /\ target'[q] = target[q]
            /\ alone'[q] = alone[q]
    BY DEF Leave, LocalTypeOK
<1> QED
    BY <1>1, <1>2, <1>4, <1>5 DEF LocalTypeOK

\* With r gone, being alone is as it was for the others.
LEMMA LeftAlone ==
    ASSUME AppInv, NEW r \in Request, NEW how \in How, Leave(r, how),
           how = "set right" => op[r] \in Writer
    PROVE  AloneIsAlone' /\ InStep(r)' /\ (alone'[r] => Knows(r)')
<1>1. LocalTypeOK
    BY LocalTypes DEF AppInv
<1>2. /\ at'[r] = "idle" /\ ~alone'[r] /\ found'[r] = NoApp
      /\ \A q \in Request \ {r} : at'[q] = at[q] /\ op'[q] = op[q] /\ alone'[q] = alone[q]
      /\ torn' = (IF how = "unchanged" THEN torn ELSE how = "half way" \/ (torn /\ ~alone[r]))
    BY <1>1, Leaving
<1>3. ASSUME NEW q \in Request
      PROVE  /\ alone'[q] => Writing(q)' /\ \A p \in Request \ {q} : ~Writing(p)'
             /\ Writing(q)' /\ ~torn' => alone'[q]
    <2>1. CASE q = r
        BY <1>2, <2>1 DEF Writing
    <2>2. CASE q # r
        <3>1. (Writing(q)' <=> Writing(q)) /\ alone'[q] = alone[q]
            BY <1>2, <2>2 DEF Writing
        <3>2. \A p \in Request \ {q} : Writing(p)' => Writing(p)
            BY <1>2 DEF Writing
        <3>3. ASSUME Writing(q), ~torn' PROVE alone[q]
            <4>1. torn => alone[r]
                BY <1>2, <3>3
            <4>2. ~alone[r]
                BY <3>3, <2>2 DEF AppInv, AloneIsAlone
            <4> QED
                BY <4>1, <4>2, <3>3 DEF AppInv, AloneIsAlone
        <3> QED
            BY <3>1, <3>2, <3>3 DEF AppInv, AloneIsAlone
    <2> QED
        BY <2>1, <2>2
<1> QED
    BY <1>2, <1>3 DEF AloneIsAlone, InStep

\* A request that leaves, where it was a writer or left row and Casdoor to the others, leaves
\* them what they know.
LEMMA LeavingLeaves ==
    ASSUME AppInv, NEW r \in Request, NEW how \in How, Leave(r, how), at[r] # "idle",
           op[r] \in Writer \/
              /\ how = "unchanged"
              /\ app'.spec = app.spec
              /\ app'.status = app.status \/ (app'.status \in Active /\ app.status \in Active)
              /\ uris' = uris /\ casdoor' = casdoor
    PROVE  LeavesOthers(r)
<1>1. LocalTypeOK
    BY LocalTypes DEF AppInv
<1>2. /\ \A q \in Request \ {r} :
            /\ at'[q] = at[q] /\ op'[q] = op[q] /\ seen'[q] = seen[q]
            /\ found'[q] = found[q] /\ want'[q] = want[q] /\ target'[q] = target[q]
            /\ alone'[q] = alone[q]
      /\ torn' = (IF how = "unchanged" THEN torn ELSE how = "half way" \/ (torn /\ ~alone[r]))
    BY <1>1, Leaving
<1>3. CASE op[r] \in Writer
    <2>1. \A q \in Request \ {r} : ~alone[q]
        BY <1>3 DEF AppInv, AloneIsAlone, Writing
    <2> QED
        BY <1>2, <2>1 DEF LeavesOthers
<1>4. CASE op[r] \notin Writer
    BY <1>2, <1>4 DEF LeavesOthers
<1> QED
    BY <1>3, <1>4

\* The two agree after r has left, if they do when r was the only writer and nothing is torn.
LEMMA LeavingAgrees ==
    ASSUME AppInv, NEW r \in Request, NEW how \in How, Leave(r, how),
           at[r] # "idle",
           op[r] \in Writer /\ alone[r] /\ ~torn' => Agree',
           op[r] \notin Writer =>
              /\ how = "unchanged"
              /\ Agree => Agree'
    PROVE  AgreesAlone'
<1>1. LocalTypeOK
    BY LocalTypes DEF AppInv
<1>2. /\ at'[r] = "idle"
      /\ \A q \in Request \ {r} : at'[q] = at[q] /\ op'[q] = op[q]
      /\ torn' = (IF how = "unchanged" THEN torn ELSE how = "half way" \/ (torn /\ ~alone[r]))
    BY <1>1, Leaving
<1> SUFFICES ASSUME ~torn', \A q \in Request : ~Writing(q)'
             PROVE  Agree'
    BY DEF AgreesAlone
<1>3. \A q \in Request \ {r} : ~Writing(q)
    BY <1>2 DEF Writing
<1>4. CASE op[r] \in Writer
    <2>1. alone[r]
        <3>1. Writing(r)
            BY <1>4 DEF Writing
        <3>2. ~torn \/ alone[r]
            BY <1>2
        <3> QED
            BY <3>1, <3>2 DEF AppInv, AloneIsAlone
    <2> QED
        BY <1>4, <2>1
<1>5. CASE op[r] \notin Writer
    <2>1. ~torn /\ ~Writing(r)
        BY <1>2, <1>5 DEF Writing
    <2> QED
        BY <1>3, <1>5, <2>1 DEF AppInv, AgreesAlone
<1> QED
    BY <1>4, <1>5

RestTypeOK ==
    /\ app \in [status : AppStatus, spec : Details]
    /\ uris \in [id : Value, status : ReviewStatus, uris : Value]
    /\ scope \in ReviewStatus
    /\ consent \in BOOLEAN
    /\ casdoor \in Details \cup {NoApp}
    /\ values \in Value
    /\ faults \in 0..MaxFaults

LEMMA Types == AppTypeOK <=> LocalTypeOK /\ RestTypeOK
    BY DEF AppTypeOK, LocalTypeOK, RestTypeOK

LEMMA NextTypes ==
    ASSUME LocalTypeOK', RestTypeOK'
    PROVE  AppTypeOK'
    BY DEF AppTypeOK, LocalTypeOK, RestTypeOK

\* Row and Casdoor are for a writer what they were, up to a suspension.
Same ==
    /\ app'.spec = app.spec
    /\ app'.status = app.status \/ (app'.status \in Active /\ app.status \in Active)
    /\ uris' = uris /\ casdoor' = casdoor

LEMMA SameAgrees == Same /\ Agree => Agree'
    BY DEF Same, Agree, Active

\* A request that leaves keeps the invariant.
LEMMA LeaveInv ==
    ASSUME AppInv, NEW r \in Request, NEW how \in How,
           at[r] # "idle", Leave(r, how), RestTypeOK',
           op[r] \notin Writer => how = "unchanged" /\ Same,
           op[r] \in Writer /\ alone[r] /\ ~torn' => Agree'
    PROVE  AppInv'
<1>2. AppTypeOK'
    <2>1. LocalTypeOK
        BY LocalTypes DEF AppInv
    <2>2. LocalTypeOK'
        BY <2>1, Leaving
    <2> QED
        BY <2>2, NextTypes
<1>3. AloneIsAlone' /\ InStep(r)' /\ (alone'[r] => Knows(r)')
    BY LeftAlone DEF How
<1>4. LeavesOthers(r)
    BY LeavingLeaves DEF Same
<1>5. AgreesAlone'
    BY LeavingAgrees, SameAgrees
<1> QED
    BY <1>2, <1>3, <1>4, <1>5, Combine

\* A request that goes on keeps the invariant, if it keeps its own part.
LEMMA MoveInv ==
    ASSUME AppInv, NEW r \in Request, at[r] # "idle", at'[r] # "idle", op'[r] = op[r],
           \A q \in Request \ {r} :
               /\ at'[q] = at[q] /\ op'[q] = op[q] /\ seen'[q] = seen[q]
               /\ found'[q] = found[q] /\ want'[q] = want[q] /\ target'[q] = target[q],
           alone' = alone, torn' = torn \/ op[r] \in Writer, torn => torn', AppTypeOK',
           op[r] \notin Writer => Same,
           InStep(r)', alone[r] => Knows(r)'
    PROVE  AppInv'
<1>1. \A q \in Request : Writing(q)' <=> Writing(q)
    BY DEF Writing
<1>2. torn' \in BOOLEAN /\ torn \in BOOLEAN
    BY DEF AppInv, AppTypeOK
<1>3. LeavesOthers(r)
    <2>1. CASE op[r] \in Writer
        <3>1. \A q \in Request \ {r} : ~alone[q]
            BY <2>1 DEF AppInv, AloneIsAlone, Writing
        <3> QED
            BY <3>1 DEF LeavesOthers
    <2>2. CASE op[r] \notin Writer
        <3>1. torn' = torn
            BY <2>2, <1>2
        <3> QED
            BY <3>1, <2>2 DEF LeavesOthers, Same
    <2> QED
        BY <2>1, <2>2
<1>4. AloneIsAlone'
    BY <1>1 DEF AppInv, AloneIsAlone
<1>5. AgreesAlone'
    <2>1. CASE op[r] \in Writer
        <3>1. Writing(r)'
            BY <2>1 DEF Writing
        <3> QED
            BY <3>1 DEF AgreesAlone
    <2>2. CASE op[r] \notin Writer
        BY <2>2, <1>1, SameAgrees DEF AppInv, AgreesAlone
    <2> QED
        BY <2>1, <2>2
<1> QED
    BY <1>3, <1>4, <1>5, Combine

\* The same for Goto.
LEMMA GotoInv ==
    ASSUME AppInv, NEW r \in Request, NEW step \in Step \ {"idle"}, at[r] # "idle",
           Goto(r, step), RestTypeOK',
           op[r] \notin Writer => Same,
           InStep(r)', alone[r] => Knows(r)'
    PROVE  AppInv'
<1>1. LocalTypeOK
    BY LocalTypes DEF AppInv
<1>2. /\ at' = [at EXCEPT ![r] = step]
      /\ op' = op /\ seen' = seen /\ found' = found /\ want' = want /\ target' = target
      /\ torn' = torn /\ alone' = alone
    BY DEF Goto, localVars, historyVars
<1>3. /\ at'[r] = step
      /\ \A q \in Request \ {r} : at'[q] = at[q]
    BY <1>1, <1>2 DEF LocalTypeOK
<1>4. AppTypeOK'
    <2>1. LocalTypeOK'
        BY <1>1, <1>2 DEF LocalTypeOK
    <2> QED
        BY <2>1, NextTypes
<1>5. torn' = torn \/ op[r] \in Writer
    BY <1>2
<1> QED
    BY <1>2, <1>3, <1>4, <1>5, MoveInv
-----------------------------------------------------------------------------
(* The steps.                                                              *)

Untouched ==
    /\ app' = app /\ uris' = uris /\ scope' = scope /\ consent' = consent
    /\ casdoor' = casdoor /\ values' = values /\ faults' = faults

LEMMA UntouchedIsSame ==
    ASSUME AppInv, Untouched
    PROVE  RestTypeOK' /\ Same
BY Types DEF AppInv, RestTypeOK, Same, Untouched

\* A request that gives up before it has changed anything.
LEMMA GiveUpInv ==
    ASSUME AppInv, NEW r \in Request, Before(r), ~Sent(r), Leave(r, "unchanged"), Untouched
    PROVE  AppInv'
<1>1. RestTypeOK' /\ Same
    BY UntouchedIsSame
<1>2. at[r] # "idle"
    BY DEF Before
<1>3. torn' = torn
    BY DEF Leave
<1>4. ASSUME alone[r], ~torn' PROVE Agree'
    <2>1. Knows(r)
        BY <1>4 DEF AppInv
    <2> QED
        BY <2>1, <1>1, <1>3, <1>4, SameAgrees DEF Knows
<1> QED
    BY <1>1, <1>2, <1>4, LeaveInv DEF How

\* What Goto does to the variables of r.
LEMMA Going ==
    ASSUME AppInv, NEW r \in Request, NEW step \in Step, Goto(r, step)
    PROVE  /\ at'[r] = step
           /\ op' = op /\ seen' = seen /\ found' = found /\ want' = want /\ target' = target
           /\ torn' = torn /\ alone' = alone
BY DEF Goto, localVars, historyVars, AppInv, AppTypeOK

LEMMA ReadScopesInv ==
    ASSUME AppInv, NEW r \in Request, ReadScopes(r)
    PROVE  AppInv'
<1>1. Untouched
    BY DEF ReadScopes, rowVars, Untouched
<1>2. RestTypeOK' /\ Same
    BY <1>1, UntouchedIsSame
<1>3. at[r] = "scopes" /\ op[r] \in {"approve", "consent"} /\ InStep(r)
    BY DEF ReadScopes, AppInv, InStep
<1>4. CASE Leave(r, "unchanged")
    <2>1. Before(r) /\ ~Sent(r)
        BY <1>3 DEF Before, Sent
    <2> QED
        BY <1>1, <1>4, <2>1, GiveUpInv
<1>5. ASSUME NEW step \in {"ensure", "save"}, Goto(r, step),
             step = (IF op[r] = "approve" THEN "ensure" ELSE "save")
      PROVE  AppInv'
    <2>4. step \in Step \ {"idle"}
        BY <1>5 DEF Step
    <2>1. /\ at'[r] = step
          /\ op' = op /\ seen' = seen /\ found' = found /\ want' = want /\ target' = target
          /\ torn' = torn
        BY <1>5, <2>4, Going
    <2>2. InStep(r)'
        BY <1>3, <1>5, <2>1 DEF InStep, Synced
    <2>3. ASSUME alone[r] PROVE Knows(r)'
        <3>1. Knows(r) /\ op[r] = "approve" /\ step = "ensure"
            BY <1>3, <1>5, <2>3 DEF AppInv, AloneIsAlone, Writing, Writer, Synced
        <3>2. Before(r) /\ Before(r)' /\ ~Sent(r) /\ ~Sent(r)' /\ (Agree => Agree')
            BY <1>2, <1>3, <2>1, <3>1, SameAgrees DEF Before, Sent
        <3> QED
            BY <1>1, <1>3, <2>1, <3>1, <3>2 DEF Knows, Untouched
    <2> QED
        BY <1>2, <1>3, <1>5, <2>2, <2>3, <2>4, GotoInv
<1> QED
    BY <1>4, <1>5 DEF ReadScopes

LEMMA ReadRequestInv ==
    ASSUME AppInv, NEW r \in Request, ReadRequest(r)
    PROVE  AppInv'
<1>1. Untouched
    BY DEF ReadRequest, rowVars, Untouched
<1>2. RestTypeOK' /\ Same
    BY <1>1, UntouchedIsSame
<1>3. at[r] = "request" /\ op[r] = "review" /\ InStep(r) /\ LocalTypeOK
    BY LocalTypes DEF ReadRequest, AppInv, InStep
<1>4. CASE Leave(r, "unchanged")
    <2>1. Before(r) /\ ~Sent(r)
        BY <1>3 DEF Before, Sent
    <2> QED
        BY <1>1, <1>4, <2>1, GiveUpInv
<1>5. CASE /\ uris.id = target[r] /\ uris.status = "pending"
           /\ at' = [at EXCEPT ![r] = "read"]
           /\ want' = [want EXCEPT ![r] = uris.uris]
           /\ UNCHANGED <<op, seen, found, target, historyVars>>
    <2>1. /\ at'[r] = "read" /\ want'[r] = uris.uris
          /\ op' = op /\ seen' = seen /\ found' = found /\ target' = target
          /\ torn' = torn /\ alone' = alone
          /\ \A q \in Request \ {r} : at'[q] = at[q] /\ want'[q] = want[q]
        BY <1>3, <1>5 DEF historyVars, LocalTypeOK
    <2>2. AppTypeOK'
        <3>1. uris.uris \in Value
            BY DEF AppInv, AppTypeOK
        <3>2. LocalTypeOK'
            BY <1>3, <1>5, <2>1, <3>1 DEF LocalTypeOK, Step
        <3> QED
            BY <1>2, <3>2, NextTypes
    <2>3. InStep(r)'
        BY <1>3, <2>1 DEF InStep, Admitted, Synced
    <2>4. ASSUME alone[r] PROVE Knows(r)'
        <3>1. Knows(r)
            BY <2>4 DEF AppInv
        <3>2. Before(r) /\ Before(r)' /\ ~Sent(r) /\ ~Sent(r)' /\ (Agree => Agree')
            BY <1>2, <1>3, <2>1, SameAgrees DEF Before, Sent
        <3>3. uris = [id |-> target[r], status |-> "pending", uris |-> uris.uris]
            BY <1>5 DEF AppInv, AppTypeOK
        <3>4. found[r] = NoApp
            BY <1>3 DEF InStep
        <3> QED
            BY <1>1, <1>3, <2>1, <3>1, <3>2, <3>3, <3>4 DEF Knows, Untouched
    <2>5. op[r] \in Writer
        BY <1>3 DEF Writer, Synced
    <2> QED
        BY <1>2, <1>3, <2>1, <2>2, <2>3, <2>4, <2>5, MoveInv
<1> QED
    BY <1>4, <1>5 DEF ReadRequest

LEMMA ReadCasdoorInv ==
    ASSUME AppInv, NEW r \in Request, ReadCasdoor(r)
    PROVE  AppInv'
<1>1. Untouched
    BY DEF ReadCasdoor, rowVars, Untouched
<1>2. RestTypeOK' /\ Same
    BY <1>1, UntouchedIsSame
<1>3. /\ at[r] = "read" /\ op[r] \in {"rotate", "review", "update"}
      /\ seen[r].status \in Active /\ InStep(r) /\ LocalTypeOK
    BY LocalTypes DEF ReadCasdoor, AppInv, InStep
<1>4. CASE Leave(r, "unchanged")
    <2>1. Before(r) /\ ~Sent(r)
        BY <1>3 DEF Before, Sent
    <2> QED
        BY <1>1, <1>4, <2>1, GiveUpInv
<1>5. CASE /\ casdoor # NoApp
           /\ found' = [found EXCEPT ![r] = casdoor]
           /\ at' = [at EXCEPT ![r] = "ensure"]
           /\ UNCHANGED <<op, seen, want, target, historyVars>>
    <2>1. /\ at'[r] = "ensure" /\ found'[r] = casdoor
          /\ op' = op /\ seen' = seen /\ want' = want /\ target' = target
          /\ torn' = torn /\ alone' = alone
          /\ \A q \in Request \ {r} : at'[q] = at[q] /\ found'[q] = found[q]
        BY <1>3, <1>5 DEF historyVars, LocalTypeOK
    <2>2. AppTypeOK'
        <3>1. casdoor \in Details \cup {NoApp}
            BY DEF AppInv, AppTypeOK
        <3>2. LocalTypeOK'
            BY <1>3, <1>5, <2>1, <3>1 DEF LocalTypeOK, Step
        <3> QED
            BY <1>2, <3>2, NextTypes
    <2>3. InStep(r)'
        BY <1>3, <1>5, <2>1 DEF InStep, Synced
    <2>4. ASSUME alone[r] PROVE Knows(r)'
        <3>1. Knows(r)
            BY <2>4 DEF AppInv
        <3>2. Before(r) /\ Before(r)' /\ ~Sent(r) /\ ~Sent(r)' /\ (Agree => Agree')
            BY <1>2, <1>3, <2>1, SameAgrees DEF Before, Sent
        <3>3. ~torn => Agree
            BY <3>1, <3>2 DEF Knows
        <3>4. ~torn => casdoor = app.spec /\ app.status \in Active
            BY <1>5, <3>3 DEF Agree
        <3> QED
            BY <1>1, <1>3, <2>1, <3>1, <3>2, <3>4 DEF Knows, Untouched
    <2>5. op[r] \in Writer
        BY <1>3 DEF Writer, Synced
    <2> QED
        BY <1>2, <1>3, <2>1, <2>2, <2>3, <2>4, <2>5, MoveInv
<1> QED
    BY <1>4, <1>5 DEF ReadCasdoor

LEMMA DesiredType ==
    ASSUME AppInv, NEW r \in Request, op[r] \in Synced, op[r] \in {"review", "update"} => found[r] # NoApp
    PROVE  Desired(r) \in Details
<1>1. /\ seen[r].spec \in Details /\ found[r] \in Details \cup {NoApp} /\ want[r] \in Value
    BY DEF AppInv, AppTypeOK
<1>2. CASE op[r] \in {"approve", "rotate"}
    BY <1>1, <1>2 DEF Desired, Details
<1>3. CASE op[r] \in {"review", "update"}
    BY <1>1, <1>3 DEF Desired, Details
<1> QED
    BY <1>2, <1>3 DEF Synced

\* The row stays, and Casdoor holds an application or none.
LEMMA RowUntouched ==
    ASSUME AppInv, app' = app, uris' = uris, scope' = scope, consent' = consent,
           values' = values, faults' \in 0..MaxFaults, casdoor' \in Details \cup {NoApp}
    PROVE  RestTypeOK'
BY DEF AppInv, AppTypeOK, RestTypeOK

LEMMA FaultType ==
    ASSUME AppInv, Fault
    PROVE  faults' \in 0..MaxFaults
BY DEF AppInv, AppTypeOK, Fault

LEMMA EnsureInv ==
    ASSUME AppInv, NEW r \in Request, Ensure(r)
    PROVE  AppInv'
<1>1. /\ app' = app /\ uris' = uris /\ scope' = scope /\ consent' = consent /\ values' = values
    BY DEF Ensure, rowVars
<1>2. /\ at[r] = "ensure" /\ op[r] \in Synced /\ (op[r] # "approve" => found[r] # NoApp) /\ InStep(r)
    BY DEF Ensure, AppInv, InStep
<1>3. Desired(r) \in Details /\ op[r] \in Writer
    BY <1>2, DesiredType DEF Writer
<1>4. CASE Leave(r, "unchanged") /\ UNCHANGED <<casdoor, faults>>
    <2>1. Before(r) /\ ~Sent(r) /\ Untouched
        BY <1>1, <1>2, <1>4 DEF Before, Sent, Untouched
    <2> QED
        BY <1>4, <2>1, GiveUpInv
<1>5. CASE Fault /\ casdoor' = Desired(r) /\ Leave(r, "half way")
    <2>1. RestTypeOK'
        BY <1>1, <1>3, <1>5, RowUntouched, FaultType
    <2>2. torn'
        BY <1>5 DEF Leave
    <2> QED
        BY <1>2, <1>3, <1>5, <2>1, <2>2, LeaveInv DEF How
<1>6. ASSUME NEW step \in {"probe", "save"}, Goto(r, step), casdoor' = Desired(r), faults' = faults,
             step = (IF op[r] = "approve" THEN "probe" ELSE "save")
      PROVE  AppInv'
    <2>1. step \in Step \ {"idle"}
        BY <1>6 DEF Step
    <2>2. /\ at'[r] = step
          /\ op' = op /\ seen' = seen /\ found' = found /\ want' = want /\ target' = target
          /\ torn' = torn
        BY <1>6, <2>1, Going
    <2>3. RestTypeOK'
        BY <1>1, <1>3, <1>6, RowUntouched DEF AppInv, AppTypeOK
    <2>4. InStep(r)'
        BY <1>2, <1>6, <2>2 DEF InStep
    <2>5. ASSUME alone[r] PROVE Knows(r)'
        <3>1. Knows(r) /\ Before(r)
            BY <1>2, <2>5 DEF AppInv, Before
        <3>2. Before(r)' /\ Sent(r)'
            BY <1>2, <1>6, <2>2 DEF Before, Sent
        <3>3. Desired(r)' = Desired(r)
            BY <2>2 DEF Desired
        <3> QED
            BY <1>1, <1>2, <1>6, <2>2, <3>1, <3>2, <3>3 DEF Knows
    <2> QED
        BY <1>2, <1>3, <1>6, <2>1, <2>3, <2>4, <2>5, GotoInv
<1> QED
    BY <1>4, <1>5, <1>6 DEF Ensure

LEMMA ProbeInv ==
    ASSUME AppInv, NEW r \in Request, Probe(r)
    PROVE  AppInv'
<1>1. Untouched
    BY DEF Probe, rowVars, Untouched
<1>2. RestTypeOK' /\ Same
    BY <1>1, UntouchedIsSame
<1>3. at[r] = "probe" /\ op[r] = "approve" /\ InStep(r)
    BY DEF Probe, AppInv, InStep
<1>4. PICK step \in {"save", "delete"} : Goto(r, step)
    BY DEF Probe
<1>5. step \in Step \ {"idle"}
    BY DEF Step
<1>6. /\ at'[r] = step
      /\ op' = op /\ seen' = seen /\ found' = found /\ want' = want /\ target' = target
      /\ torn' = torn
    BY <1>4, <1>5, Going
<1>7. InStep(r)'
    BY <1>3, <1>6 DEF InStep
<1>8. ASSUME alone[r] PROVE Knows(r)'
    <2>1. Knows(r) /\ Before(r) /\ Sent(r)
        BY <1>3, <1>8 DEF AppInv, Before, Sent
    <2>2. Desired(r)' = Desired(r)
        BY <1>6 DEF Desired
    <2>3. seen[r].status = "pending"
        BY <1>3 DEF InStep, Admitted
    <2>4. app.status = "pending" /\ found[r] = NoApp
        BY <1>3, <2>1, <2>3 DEF Knows, Active, InStep
    <2>5. step = "save" => Before(r)' /\ Sent(r)'
        BY <1>3, <1>6 DEF Before, Sent
    <2>6. step = "delete" => ~Before(r)' /\ ~Sent(r)'
        BY <1>6 DEF Before, Sent
    <2> QED
        BY <1>1, <1>3, <1>6, <2>1, <2>2, <2>4, <2>5, <2>6 DEF Knows, Untouched
<1>9. op[r] \in Writer
    BY <1>3 DEF Writer, Synced
<1> QED
    BY <1>2, <1>3, <1>4, <1>5, <1>7, <1>8, <1>9, GotoInv

LEMMA DeleteInv ==
    ASSUME AppInv, NEW r \in Request, Delete(r)
    PROVE  AppInv'
<1>1. /\ app' = app /\ uris' = uris /\ scope' = scope /\ consent' = consent /\ values' = values
    BY DEF Delete, rowVars
<1>2. at[r] = "delete" /\ op[r] \in {"approve", "revoke", "again"} /\ op[r] \in Writer
    BY DEF Delete, AppInv, InStep, Writer, Synced
<1>3. casdoor' \in {casdoor, NoApp} /\ faults' \in 0..MaxFaults
    <2>1. faults \in 0..MaxFaults
        BY DEF AppInv, AppTypeOK
    <2> QED
        BY <2>1, FaultType DEF Delete
<1>4. RestTypeOK'
    BY <1>1, <1>3, RowUntouched DEF AppInv, AppTypeOK
<1>5. CASE Leave(r, "half way")
    <2>1. torn'
        BY <1>5 DEF Leave
    <2> QED
        BY <1>2, <1>4, <1>5, <2>1, LeaveInv DEF How
<1>6. ASSUME casdoor' = NoApp, Leave(r, IF op[r] = "approve" THEN "unchanged" ELSE "set right")
      PROVE  AppInv'
    <2> DEFINE how == IF op[r] = "approve" THEN "unchanged" ELSE "set right"
    <2>1. Leave(r, how) /\ how \in How
        BY <1>6 DEF How
    <2>2. torn' = (IF how = "unchanged" THEN torn ELSE how = "half way" \/ (torn /\ ~alone[r]))
        BY <2>1 DEF Leave
    <2>3. ASSUME alone[r], ~torn' PROVE Agree'
        <3>1. app.status \in {"revoked", "pending"}
            BY <1>2, <2>2, <2>3 DEF AppInv, Knows
        <3> QED
            BY <1>1, <1>6, <3>1 DEF Agree, Active
    <2> HIDE DEF how
    <2> QED
        BY <1>2, <1>4, <2>1, <2>3, LeaveInv
<1> QED
    BY <1>5, <1>6 DEF Delete

LEMMA RestoreInv ==
    ASSUME AppInv, NEW r \in Request, Restore(r)
    PROVE  AppInv'
<1>1. /\ app' = app /\ uris' = uris /\ scope' = scope /\ consent' = consent /\ values' = values
    BY DEF Restore, rowVars
<1>2. at[r] = "restore" /\ found[r] # NoApp /\ op[r] \in Writer
    BY DEF Restore, AppInv, InStep, Writer, Synced
<1>3. casdoor' \in {casdoor, found[r]} /\ faults' \in 0..MaxFaults
    <2>1. faults \in 0..MaxFaults
        BY DEF AppInv, AppTypeOK
    <2> QED
        BY <2>1, FaultType DEF Restore
<1>4. RestTypeOK'
    BY <1>1, <1>3, RowUntouched DEF AppInv, AppTypeOK
<1>5. CASE Leave(r, "half way")
    <2>1. torn'
        BY <1>5 DEF Leave
    <2> QED
        BY <1>2, <1>4, <1>5, <2>1, LeaveInv DEF How
<1>6. CASE casdoor' = found[r] /\ Leave(r, "unchanged")
    <2>1. torn' = torn
        BY <1>6 DEF Leave
    <2>2. ASSUME alone[r], ~torn' PROVE Agree'
        <3>1. found[r] = app.spec /\ app.status \in Active
            BY <1>2, <2>1, <2>2 DEF AppInv, Knows
        <3> QED
            BY <1>1, <1>6, <3>1 DEF Agree
    <2> QED
        BY <1>2, <1>4, <1>6, <2>2, LeaveInv DEF How
<1> QED
    BY <1>5, <1>6 DEF Restore

LEMMA DieInv ==
    ASSUME AppInv, NEW r \in Request, Die(r)
    PROVE  AppInv'
<1>1. /\ app' = app /\ uris' = uris /\ scope' = scope /\ consent' = consent /\ values' = values
      /\ casdoor' = casdoor /\ at[r] # "idle"
    BY DEF Die, rowVars
<1>2. RestTypeOK' /\ Same
    <2>1. faults' \in 0..MaxFaults
        BY FaultType DEF Die
    <2> QED
        BY <1>1, <2>1, RowUntouched DEF AppInv, AppTypeOK, Same
<1>3. CASE op[r] \in Writer
    <2>1. Leave(r, "half way")
        BY <1>1, <1>3 DEF Die, Writing
    <2>2. torn'
        BY <2>1 DEF Leave
    <2> QED
        BY <1>1, <1>2, <1>3, <2>1, <2>2, LeaveInv DEF How
<1>4. CASE op[r] \notin Writer
    <2>1. Leave(r, "unchanged")
        BY <1>4 DEF Die, Writing
    <2> QED
        BY <1>1, <1>2, <1>4, <2>1, LeaveInv DEF How
<1> QED
    BY <1>3, <1>4

\* The statements of a request that is no writer leave what writers know.
LEMMA StatementSame ==
    ASSUME AppInv, NEW r \in Request, Statement(r), op[r] \notin Writer, casdoor' = casdoor
    PROVE  Same
<1>1. op[r] \in {"suspend", "resume", "consent", "askScope", "approveScope", "rejectScope", "withdrawScope"}
    BY DEF Statement, Writer, Synced
<1>2. uris' = uris
    BY <1>1 DEF Statement, DecideScope, GrantConsents
<1>3. CASE op[r] \in {"suspend", "resume"}
    <2>1. PICK from \in {"approved", "suspended"}, to \in {"approved", "suspended"} :
              app.status \in {from} /\ app' = [app EXCEPT !.status = to]
        BY <1>3 DEF Statement, SetStatus
    <2>2. app'.spec = app.spec /\ app'.status = to
        BY <2>1 DEF AppInv, AppTypeOK
    <2> QED
        BY <1>2, <2>1, <2>2 DEF Same, Active
<1>4. CASE op[r] \notin {"suspend", "resume"}
    BY <1>1, <1>2, <1>4 DEF Statement, DecideScope, GrantConsents, Same
<1> QED
    BY <1>3, <1>4

LEMMA StatementType ==
    ASSUME AppInv, NEW r \in Request, Statement(r),
           casdoor' = casdoor, values' = values, faults' \in 0..MaxFaults
    PROVE  RestTypeOK'
<1>1. /\ app \in [status : AppStatus, spec : Details]
      /\ uris \in [id : Value, status : ReviewStatus, uris : Value]
      /\ scope \in ReviewStatus /\ consent \in BOOLEAN
      /\ want[r] \in Value
    BY DEF AppInv, AppTypeOK
<1>2. CASE op[r] \in {"approve", "rotate", "update"}
    <2>1. /\ [app.spec EXCEPT !.secret = want[r]] \in Details
          /\ [app.spec EXCEPT !.profile = want[r]] \in Details
        BY <1>1 DEF Details
    <2>2. /\ app' \in [status : AppStatus, spec : Details]
        BY <1>1, <1>2, <2>1 DEF Statement, MarkAppApproved, RotateAppSecret, UpdateAppProfile, AppStatus
    <2>3. uris' = uris /\ scope' = scope /\ consent' = consent
        BY <1>2 DEF Statement, MarkAppApproved, RotateAppSecret, UpdateAppProfile
    <2> QED
        BY <1>1, <2>2, <2>3 DEF RestTypeOK, AppInv, AppTypeOK
<1>3. CASE op[r] = "review"
    <2>1. [app.spec EXCEPT !.uris = uris.uris] \in Details
        BY <1>1 DEF Details
    <2>2. app' \in [status : AppStatus, spec : Details] /\ scope' = scope /\ consent' = consent
        BY <1>1, <1>3, <2>1 DEF Statement, ApproveURIs
    <2>3. uris' \in [id : Value, status : ReviewStatus, uris : Value]
        BY <1>1, <1>3 DEF Statement, ApproveURIs, ReviewStatus
    <2> QED
        BY <1>1, <2>2, <2>3 DEF RestTypeOK, AppInv, AppTypeOK
<1>4. CASE op[r] \in {"suspend", "resume"}
    <2>1. app' \in [status : AppStatus, spec : Details] /\ uris' = uris /\ scope' = scope /\ consent' = consent
        BY <1>1, <1>4 DEF Statement, SetStatus, AppStatus
    <2> QED
        BY <1>1, <2>1 DEF RestTypeOK, AppInv, AppTypeOK
<1>5. CASE op[r] \in {"revoke", "withdrawApp"}
    <2>1. app' \in [status : AppStatus, spec : Details]
        BY <1>1, <1>5 DEF Statement, Revoke, SetStatus, AppStatus
    <2>2. uris' \in [id : Value, status : ReviewStatus, uris : Value]
        BY <1>1, <1>5 DEF Statement, Revoke, ReviewStatus
    <2>3. scope' \in ReviewStatus /\ consent' \in BOOLEAN
        BY <1>1, <1>5 DEF Statement, Revoke, ReviewStatus
    <2> QED
        BY <1>1, <2>1, <2>2, <2>3 DEF RestTypeOK, AppInv, AppTypeOK
<1>6. CASE op[r] \in {"askURIs", "withdrawURIs", "rejectURIs"}
    <2>1. uris' \in [id : Value, status : ReviewStatus, uris : Value]
        BY <1>1, <1>6 DEF Statement, AskURIs, EndURIs, ReviewStatus
    <2>2. app' = app /\ scope' = scope /\ consent' = consent
        BY <1>6 DEF Statement, AskURIs, EndURIs
    <2> QED
        BY <1>1, <2>1, <2>2 DEF RestTypeOK, AppInv, AppTypeOK
<1>7. CASE op[r] \in {"askScope", "approveScope", "rejectScope", "withdrawScope", "consent"}
    <2>1. app' = app /\ uris' = uris
        BY <1>7 DEF Statement, DecideScope, GrantConsents
    <2>2. scope' \in ReviewStatus /\ consent' \in BOOLEAN
        BY <1>1, <1>7 DEF Statement, DecideScope, GrantConsents, ReviewStatus
    <2> QED
        BY <1>1, <2>1, <2>2 DEF RestTypeOK, AppInv, AppTypeOK
<1> QED
    BY <1>2, <1>3, <1>4, <1>5, <1>6, <1>7 DEF Statement

\* What a writer that is alone commits is what Casdoor has.
LEMMA StatementAgrees ==
    ASSUME AppInv, NEW r \in Request, at[r] = "save", Statement(r), casdoor' = casdoor,
           alone[r], ~Cleans(r), op[r] \in {"approve", "rotate"} \/ ~torn
    PROVE  Agree'
<1>1. Knows(r) /\ InStep(r) /\ Before(r) /\ op[r] \in Writer
    BY DEF AppInv, AloneIsAlone, Writing, Before
<1>2. /\ app \in [status : AppStatus, spec : Details]
      /\ app.spec = seen[r].spec
      /\ app.status = seen[r].status \/ (app.status \in Active /\ seen[r].status \in Active)
    BY <1>1 DEF Knows, AppInv, AppTypeOK
<1>3. CASE op[r] = "approve"
    <2>1. casdoor = [app.spec EXCEPT !.secret = want[r]]
        BY <1>1, <1>2, <1>3 DEF Knows, Sent, Desired
    <2>2. app'.status = "approved" /\ app'.spec = [app.spec EXCEPT !.secret = want[r]]
        BY <1>3 DEF Statement, MarkAppApproved
    <2> QED
        BY <2>1, <2>2 DEF Agree, Active
<1>4. CASE op[r] = "rotate"
    <2>1. found[r] # NoApp /\ seen[r].status \in Active
        BY <1>1, <1>4 DEF InStep
    <2>2. casdoor = [app.spec EXCEPT !.secret = want[r]]
        BY <1>1, <1>2, <1>4, <2>1 DEF Knows, Sent, Desired
    <2>3. app'.status \in Active /\ app'.spec = [app.spec EXCEPT !.secret = want[r]]
        BY <1>2, <1>4, <2>1 DEF Statement, RotateAppSecret
    <2> QED
        BY <2>2, <2>3 DEF Agree
<1>5. CASE op[r] = "review"
    <2>1. found[r] # NoApp /\ seen[r].status \in Active
        BY <1>1, <1>5 DEF InStep
    <2>2. found[r] = app.spec /\ uris.uris = want[r]
        BY <1>1, <1>5, <2>1 DEF Knows
    <2>3. casdoor = [app.spec EXCEPT !.uris = want[r]]
        BY <1>1, <1>5, <2>1, <2>2 DEF Knows, Sent, Desired
    <2>4. app'.status \in Active /\ app'.spec = [app.spec EXCEPT !.uris = want[r]]
        BY <1>2, <1>5, <2>1, <2>2 DEF Statement, ApproveURIs
    <2> QED
        BY <2>3, <2>4 DEF Agree
<1>6. CASE op[r] = "update" /\ found[r] # NoApp
    <2>1. found[r] = app.spec /\ app.status \in Active
        BY <1>1, <1>6 DEF Knows
    <2>2. casdoor = [app.spec EXCEPT !.profile = want[r]]
        BY <1>1, <1>6, <2>1 DEF Knows, Sent, Desired
    <2>3. app'.status \in Active /\ app'.spec = [app.spec EXCEPT !.profile = want[r]]
        BY <1>2, <1>6, <2>1 DEF Statement, UpdateAppProfile
    <2> QED
        BY <2>2, <2>3 DEF Agree
<1>7. CASE op[r] # "approve" /\ found[r] = NoApp
    <2>1. Agree \/ op[r] = "rotate"
        BY <1>1, <1>7 DEF Knows, Sent
    <2>2. CASE op[r] = "update"
        <3>1. app.status = "pending"
            BY <1>1, <1>2, <1>7, <2>2 DEF InStep, Active
        <3>2. app'.status = "pending"
            BY <1>2, <2>2, <3>1 DEF Statement, UpdateAppProfile
        <3> QED
            BY <2>1, <2>2, <3>1, <3>2 DEF Agree, Active
    <2>3. CASE op[r] \in {"revoke", "withdrawApp"}
        <3>1. seen[r].status = "pending"
            BY <1>1, <2>3 DEF Cleans, InStep, Admitted, NotRevoked
        <3>2. app.status = "pending"
            BY <1>2, <3>1 DEF Active
        <3>3. app'.status = "revoked"
            BY <1>2, <2>3 DEF Statement, Revoke, SetStatus
        <3> QED
            BY <2>1, <2>3, <3>2, <3>3 DEF Agree, Active
    <2>4. CASE op[r] \in {"askURIs", "withdrawURIs", "rejectURIs"}
        <3>1. app' = app
            BY <2>4 DEF Statement, AskURIs, EndURIs
        <3> QED
            BY <2>1, <2>4, <3>1 DEF Agree
    <2> QED
        BY <1>1, <1>4, <1>5, <1>7, <2>2, <2>3, <2>4 DEF Statement, Writer, Synced
<1> QED
    BY <1>1, <1>3, <1>4, <1>5, <1>6, <1>7 DEF InStep

LEMMA UndoInv ==
    ASSUME AppInv, NEW r \in Request, at[r] = "save", Undo(r), Untouched
    PROVE  AppInv'
<1>1. RestTypeOK' /\ Same
    BY UntouchedIsSame
<1>2. InStep(r) /\ Before(r)
    BY DEF AppInv, Before
<1>3. CASE op[r] # "approve" /\ found[r] = NoApp /\ Leave(r, "unchanged")
    <2>1. ~Sent(r)
        BY <1>3 DEF Sent
    <2> QED
        BY <1>2, <1>3, <2>1, GiveUpInv
<1>4. CASE op[r] = "approve" /\ Goto(r, "delete")
    <2>1. "delete" \in Step \ {"idle"}
        BY DEF Step
    <2>2. /\ at'[r] = "delete"
          /\ op' = op /\ seen' = seen /\ found' = found /\ want' = want /\ target' = target
          /\ torn' = torn
        BY <1>4, <2>1, Going
    <2>3. InStep(r)'
        BY <1>2, <1>4, <2>2 DEF InStep
    <2>4. ASSUME alone[r] PROVE Knows(r)'
        <3>1. Knows(r)
            BY <2>4 DEF AppInv
        <3>2. app.status = "pending" /\ found[r] = NoApp
            BY <1>2, <1>4, <3>1 DEF Knows, Active, InStep, Admitted
        <3>3. ~Before(r)' /\ ~Sent(r)'
            BY <2>2 DEF Before, Sent
        <3> QED
            BY <1>4, <2>2, <3>1, <3>2, <3>3 DEF Knows, Untouched
    <2>5. op[r] \in Writer
        BY <1>4 DEF Writer, Synced
    <2> QED
        BY <1>1, <1>4, <2>1, <2>3, <2>4, <2>5, GotoInv
<1>5. CASE found[r] # NoApp /\ Goto(r, "restore")
    <2>1. "restore" \in Step \ {"idle"}
        BY DEF Step
    <2>2. /\ at'[r] = "restore"
          /\ op' = op /\ seen' = seen /\ found' = found /\ want' = want /\ target' = target
          /\ torn' = torn
        BY <1>5, <2>1, Going
    <2>3. InStep(r)'
        BY <1>2, <1>5, <2>2 DEF InStep
    <2>4. ASSUME alone[r] PROVE Knows(r)'
        <3>1. Knows(r)
            BY <2>4 DEF AppInv
        <3>2. ~Before(r)' /\ ~Sent(r)'
            BY <2>2 DEF Before, Sent
        <3> QED
            BY <1>5, <2>2, <3>1, <3>2 DEF Knows, Untouched
    <2>5. op[r] \in Writer
        BY <1>2, <1>5 DEF InStep, Writer, Synced
    <2> QED
        BY <1>1, <1>5, <2>1, <2>3, <2>4, <2>5, GotoInv
<1> QED
    BY <1>3, <1>4, <1>5 DEF Undo

LEMMA SavedInv ==
    ASSUME AppInv, NEW r \in Request, at[r] = "save", Statement(r), Saved(r),
           casdoor' = casdoor, values' = values, faults' = faults
    PROVE  AppInv'
<1>1. RestTypeOK'
    BY StatementType DEF AppInv, AppTypeOK
<1>2. op[r] \notin Writer => Same
    BY StatementSame
<1>3. InStep(r)
    BY DEF AppInv
<1>4. CASE Cleans(r) /\ Goto(r, "delete")
    <2>1. "delete" \in Step \ {"idle"}
        BY DEF Step
    <2>2. /\ at'[r] = "delete"
          /\ op' = op /\ seen' = seen /\ found' = found /\ want' = want /\ target' = target
          /\ torn' = torn
        BY <1>4, <2>1, Going
    <2>3. op[r] = "revoke" /\ found[r] = NoApp
        BY <1>3, <1>4 DEF Cleans, InStep
    <2>4. InStep(r)'
        BY <1>3, <2>2, <2>3 DEF InStep
    <2>5. app'.status = "revoked"
        BY <2>3 DEF Statement, Revoke, SetStatus, AppInv, AppTypeOK
    <2>6. Knows(r)'
        BY <2>2, <2>3, <2>5 DEF Knows, Before, Sent
    <2>7. op[r] \in Writer
        BY <2>3 DEF Writer
    <2> QED
        BY <1>1, <1>4, <2>1, <2>4, <2>6, <2>7, GotoInv
<1>5. ASSUME ~Cleans(r), NEW how \in {"set right", "unchanged"}, Leave(r, how),
             how = (IF op[r] \in {"approve", "rotate"} THEN "set right" ELSE "unchanged")
      PROVE  AppInv'
    <2>1. torn' = (IF how = "unchanged" THEN torn ELSE how = "half way" \/ (torn /\ ~alone[r]))
        BY <1>5 DEF Leave
    <2>2. ASSUME alone[r], ~torn' PROVE Agree'
        <3>1. op[r] \in {"approve", "rotate"} \/ ~torn
            BY <1>5, <2>1, <2>2
        <3> QED
            BY <1>5, <2>2, <3>1, StatementAgrees
    <2>3. op[r] \notin Writer => how = "unchanged"
        BY <1>5 DEF Writer, Synced
    <2> QED
        BY <1>1, <1>2, <1>5, <2>2, <2>3, LeaveInv DEF How
<1> QED
    BY <1>4, <1>5 DEF Saved

LEMMA SavedUnseenInv ==
    ASSUME AppInv, NEW r \in Request, at[r] = "save", Fault, Statement(r), SavedUnseen(r),
           casdoor' = casdoor, values' = values
    PROVE  AppInv'
<1>1. RestTypeOK'
    BY StatementType, FaultType
<1>2. op[r] \notin Writer => Same
    BY StatementSame
<1>3. InStep(r) /\ LocalTypeOK
    BY LocalTypes DEF AppInv
<1> DEFINE undone == op[r] = "approve" \/ found[r] # NoApp
<1>4. ASSUME undone, NEW step \in {"delete", "restore"},
             step = (IF op[r] = "approve" THEN "delete" ELSE "restore"),
             at' = [at EXCEPT ![r] = step], torn' = TRUE, UNCHANGED <<localVars, alone>>
      PROVE  AppInv'
    <2>1. /\ at'[r] = step /\ torn'
          /\ op' = op /\ seen' = seen /\ found' = found /\ want' = want /\ target' = target
          /\ alone' = alone
          /\ \A q \in Request \ {r} : at'[q] = at[q]
        BY <1>3, <1>4 DEF localVars, LocalTypeOK
    <2>2. op[r] \in Writer
        BY <1>3, <1>4 DEF InStep, Writer, Synced
    <2>3. AppTypeOK'
        <3>1. LocalTypeOK'
            BY <1>3, <1>4, <2>1 DEF LocalTypeOK, Step
        <3> QED
            BY <1>1, <3>1, NextTypes
    <2>4. InStep(r)'
        BY <1>3, <1>4, <2>1 DEF InStep
    <2>5. Knows(r)'
        BY <1>4, <2>1 DEF Knows, Before, Sent
    <2> QED
        BY <2>1, <2>2, <2>3, <2>4, <2>5, MoveInv
<1>5. ASSUME ~undone, NEW how \in {"half way", "unchanged"}, Leave(r, how),
             how = (IF Cleans(r) THEN "half way" ELSE "unchanged")
      PROVE  AppInv'
    <2>1. torn' = (IF how = "unchanged" THEN torn ELSE how = "half way" \/ (torn /\ ~alone[r]))
        BY <1>5 DEF Leave
    <2>2. ASSUME alone[r], ~torn' PROVE Agree'
        <3>1. ~Cleans(r) /\ ~torn
            BY <1>5, <2>1, <2>2
        <3> QED
            BY <2>2, <3>1, StatementAgrees
    <2>3. op[r] \notin Writer => how = "unchanged"
        BY <1>5 DEF Cleans, Writer
    <2> QED
        BY <1>1, <1>2, <1>5, <2>2, <2>3, LeaveInv DEF How
<1> QED
    BY <1>4, <1>5 DEF SavedUnseen

LEMMA SaveInv ==
    ASSUME AppInv, NEW r \in Request, Save(r)
    PROVE  AppInv'
<1>1. at[r] = "save" /\ casdoor' = casdoor /\ values' = values
    BY DEF Save
<1>2. CASE Statement(r) /\ Saved(r) /\ UNCHANGED faults
    BY <1>1, <1>2, SavedInv
<1>3. CASE Undo(r) /\ UNCHANGED <<rowVars, faults>>
    <2>1. Untouched
        BY <1>1, <1>3 DEF Untouched, rowVars
    <2> QED
        BY <1>1, <1>3, <2>1, UndoInv
<1>4. CASE Fault /\ Statement(r) /\ SavedUnseen(r)
    BY <1>1, <1>4, SavedUnseenInv
<1> QED
    BY <1>2, <1>3, <1>4 DEF Save

LEMMA BeginInv ==
    ASSUME AppInv, NEW r \in Request, NEW kind \in Kind, Begin(r, kind)
    PROVE  AppInv'
<1> DEFINE others == {q \in Request \ {r} : Writing(q)}
           step == First(kind, app.status)
<1>1. LocalTypeOK /\ RestTypeOK /\ AppTypeOK
    BY Types DEF AppInv
<1>2. /\ app' = app /\ uris' = uris /\ scope' = scope /\ consent' = consent /\ casdoor' = casdoor
      /\ faults' = faults /\ at[r] = "idle" /\ Admitted(kind, app.status) /\ values' \in Value
    <2>1. values \in Value /\ values' \in {values, values + 1} /\ values' <= MaxValues
        BY <1>1 DEF Begin, RestTypeOK
    <2> QED
        BY <2>1 DEF Begin, rowVars, Value
<1>3. step \in {"scopes", "request", "read", "delete", "save"}
    BY DEF First
<1>4. /\ at' = [at EXCEPT ![r] = step] /\ op' = [op EXCEPT ![r] = kind]
      /\ seen' = [seen EXCEPT ![r] = app] /\ found' = [found EXCEPT ![r] = NoApp]
    BY DEF Begin
<1>5. PICK w \in Value, t \in Value :
          want' = [want EXCEPT ![r] = w] /\ target' = [target EXCEPT ![r] = t] /\
          (kind = "review" => t = uris.id)
    <2>1. 0 \in Value /\ uris.id \in Value
        BY <1>1 DEF Value, RestTypeOK
    <2> QED
        BY <1>2, <2>1 DEF Begin, URIsReviewed
<1>6. IF kind \in Writer
      THEN /\ alone' = [q \in Request |-> IF q = r THEN others = {} ELSE FALSE]
           /\ torn' = (torn \/ others # {})
      ELSE alone' = alone /\ torn' = torn
    BY DEF Begin, historyVars
<1>7. /\ at'[r] = step /\ op'[r] = kind /\ seen'[r] = app /\ found'[r] = NoApp
      /\ \A q \in Request \ {r} :
            /\ at'[q] = at[q] /\ op'[q] = op[q] /\ seen'[q] = seen[q]
            /\ found'[q] = found[q] /\ want'[q] = want[q] /\ target'[q] = target[q]
    BY <1>1, <1>4, <1>5 DEF LocalTypeOK
<1>8. ~alone[r] /\ ~Writing(r)
    BY <1>2 DEF AppInv, AloneIsAlone, Writing
<1>9. AppTypeOK'
    <2>1. alone' \in [Request -> BOOLEAN] /\ torn' \in BOOLEAN
        BY <1>1, <1>6 DEF LocalTypeOK
    <2>2. app \in [status : AppStatus, spec : Details] /\ step \in Step
        BY <1>1, <1>3 DEF RestTypeOK, Step
    <2>3. LocalTypeOK'
        BY <1>1, <1>4, <1>5, <2>1, <2>2 DEF LocalTypeOK
    <2>4. RestTypeOK'
        BY <1>1, <1>2 DEF RestTypeOK
    <2> QED
        BY <2>3, <2>4, NextTypes
<1>10. LeavesOthers(r)
    <2>1. \A q \in Request \ {r} : alone'[q] => alone' = alone /\ torn' = torn
        BY <1>6
    <2> QED
        BY <1>2, <1>7, <2>1 DEF LeavesOthers
<1>11. InStep(r)'
    <2>1. /\ step = "scopes" => kind \in {"approve", "consent"}
          /\ step = "request" => kind = "review"
          /\ step = "read" => kind \in {"rotate", "update"} /\ app.status \in Active
          /\ step = "delete" => kind = "again"
          /\ step = "save" => kind \notin {"rotate", "review"} /\ (kind = "update" => app.status \notin Active)
        BY <1>2 DEF First, Admitted, Rotatable
    <2>2. kind = "update" /\ app.status \notin Active => app.status = "pending"
        BY <1>2 DEF Admitted, NotRevoked
    <2> QED
        BY <1>2, <1>3, <1>7, <2>1, <2>2 DEF InStep
<1>12. \A q \in Request \ {r} : Writing(q)' <=> Writing(q)
    BY <1>7 DEF Writing
<1>13. Writing(r)' <=> kind \in Writer
    BY <1>3, <1>7 DEF Writing
<1>14. AloneIsAlone'
    <2>1. CASE kind \in Writer
        BY <1>6, <1>12, <1>13, <2>1 DEF AloneIsAlone
    <2>2. CASE kind \notin Writer
        BY <1>6, <1>8, <1>12, <1>13, <2>2 DEF AppInv, AloneIsAlone
    <2> QED
        BY <2>1, <2>2
<1>15. AgreesAlone'
    <2>1. CASE kind \in Writer
        BY <1>13, <2>1 DEF AgreesAlone
    <2>2. CASE kind \notin Writer
        BY <1>2, <1>6, <1>8, <1>12, <2>2 DEF AppInv, AgreesAlone, Agree
    <2> QED
        BY <2>1, <2>2
<1>16. ASSUME alone'[r] PROVE Knows(r)'
    <2>1. kind \in Writer /\ others = {}
        BY <1>1, <1>6, <1>8, <1>16
    <2>2. ~torn' => Agree'
        <3>1. \A q \in Request : ~Writing(q)
            BY <1>8, <2>1
        <3> QED
            BY <1>2, <1>6, <2>1, <3>1 DEF AppInv, AgreesAlone, Agree
    <2>3. ~Sent(r)'
        <3>1. kind = "approve" => step = "scopes"
            BY DEF First
        <3> QED
            BY <1>3, <1>7, <3>1 DEF Sent
    <2>4. ~(kind = "review" /\ step \in {"read", "ensure", "save"})
        BY DEF First, Active
    <2>5. step = "delete" => app.status = "revoked"
        BY <1>2 DEF First, Admitted
    <2> QED
        BY <1>2, <1>3, <1>7, <2>2, <2>3, <2>4, <2>5 DEF Knows
<1> QED
    BY <1>9, <1>10, <1>11, <1>14, <1>15, <1>16, Combine

LEMMA NothingHappens ==
    ASSUME AppInv, app' = app, uris' = uris, scope' = scope, consent' \in BOOLEAN,
           casdoor' = casdoor, values' = values, faults' = faults,
           at' = at, op' = op, seen' = seen, found' = found, want' = want, target' = target,
           alone' = alone, torn' = torn
    PROVE  AppInv'
<1>1. AppTypeOK'
    BY DEF AppInv, AppTypeOK
<1>2. ASSUME NEW r \in Request PROVE InStep(r)' /\ (alone'[r] => Knows(r)')
    <2>1. InStep(r)'
        BY DEF AppInv, InStep
    <2>2. Desired(r)' = Desired(r) /\ (Sent(r)' <=> Sent(r)) /\ (Before(r)' <=> Before(r)) /\ (Agree' <=> Agree)
        BY DEF Desired, Sent, Before, Agree
    <2> QED
        BY <2>1, <2>2 DEF AppInv, Knows
<1>3. AloneIsAlone' /\ AgreesAlone'
    BY DEF AppInv, AloneIsAlone, AgreesAlone, Writing, Agree
<1> QED
    BY <1>1, <1>2, <1>3 DEF AppInv

\* An imported application may start with details of its own.
LEMMA InitTypes == Init => AppTypeOK
<1> SUFFICES ASSUME Init PROVE AppTypeOK
    OBVIOUS
<1>1. 0 \in Value /\ 1 \in Value /\ 0 \in 0..MaxFaults /\ 0..1 \subseteq Value
    BY DEF Value
<1>2. app \in [status : AppStatus, spec : Details]
    <2>1. CASE app = Blank
        BY <2>1, BlankType
    <2>2. CASE app = [Blank EXCEPT !.status = "approved"]
        BY <2>2, BlankType DEF AppStatus
    <2> QED
        BY <2>1, <2>2 DEF Init
<1>3. casdoor \in Details \cup {NoApp}
    <2>1. [secret : 0..1, uris : 0..1, profile : 0..1] \subseteq Details
        BY <1>1 DEF Details
    <2> QED
        BY <2>1 DEF Init
<1>4. /\ uris \in [id : Value, status : ReviewStatus, uris : Value]
      /\ scope \in ReviewStatus /\ consent \in BOOLEAN /\ values \in Value /\ faults \in 0..MaxFaults
    BY <1>1 DEF Init, ReviewStatus
<1>5. torn \in BOOLEAN
    BY DEF Init
<1>6. LocalTypeOK
    BY <1>1, <1>5, BlankType DEF Init, LocalTypeOK, Step
<1> QED
    BY <1>2, <1>3, <1>4, <1>6, Types DEF RestTypeOK

LEMMA InitInv == Init => AppInv
<1> SUFFICES ASSUME Init PROVE AppInv
    OBVIOUS
<1>1. AppTypeOK
    BY InitTypes
<1>2. \A r \in Request : at[r] = "idle" /\ ~alone[r] /\ found[r] = NoApp
    BY DEF Init
<1>3. AgreesAlone
    <2>1. CASE app = Blank /\ casdoor = NoApp
        BY <2>1 DEF AgreesAlone, Agree, Blank, Active
    <2>2. CASE app = [Blank EXCEPT !.status = "approved"] /\ torn = (casdoor # app.spec)
        <3>1. app.status \in Active
            BY <2>2 DEF Blank, Active
        <3> QED
            BY <2>2, <3>1 DEF AgreesAlone, Agree
    <2> QED
        BY <2>1, <2>2 DEF Init
<1> QED
    BY <1>1, <1>2, <1>3 DEF AppInv, InStep, AloneIsAlone, Writing

LEMMA NextInv ==
    ASSUME AppInv, [Next]_vars
    PROVE  AppInv'
<1>1. ASSUME NEW r \in Request, NEW kind \in Kind, Begin(r, kind) PROVE AppInv'
    BY <1>1, BeginInv
<1>2. ASSUME NEW r \in Request,
             \/ ReadScopes(r) \/ ReadRequest(r) \/ ReadCasdoor(r) \/ Ensure(r) \/ Probe(r)
             \/ Save(r) \/ Delete(r) \/ Restore(r) \/ Die(r)
      PROVE  AppInv'
    BY <1>2, ReadScopesInv, ReadRequestInv, ReadCasdoorInv, EnsureInv, ProbeInv, SaveInv,
       DeleteInv, RestoreInv, DieInv
<1>3. CASE RevokeConsents
    BY <1>3, NothingHappens DEF RevokeConsents, localVars, historyVars
<1>4. CASE UNCHANGED vars
    <2>1. consent \in BOOLEAN
        BY DEF AppInv, AppTypeOK
    <2> QED
        BY <1>4, <2>1, NothingHappens DEF vars, rowVars, localVars, historyVars
<1> QED
    BY <1>1, <1>2, <1>3, <1>4 DEF Next
-----------------------------------------------------------------------------
(* The theorems.                                                           *)

\* What requests know of row and Casdoor is right in every reachable state: the inductive
\* invariant, for any number of requests.
THEOREM AppInvariant == Spec => []AppInv
<1>1. Init => AppInv
    BY InitInv
<1>2. AppInv /\ [Next]_vars => AppInv'
    BY NextInv
<1> QED
    BY <1>1, <1>2, PTL DEF Spec

\* The variables of the open platform stay within their types.
THEOREM AppTypeCorrect == Spec => []AppTypeOK
<1>1. AppInv => AppTypeOK
    BY DEF AppInv
<1> QED
    BY <1>1, AppInvariant, PTL

\* Row and Casdoor agree whenever no writer is under way, unless a writer was given up half way
\* or overlapped by another (ApproveAppWithAudit, RotateAppSecret, reviews, updates, revocations).
THEOREM AgreesAloneAlways == Spec => []AgreesAlone
<1>1. AppInv => AgreesAlone
    BY DEF AppInv
<1> QED
    BY <1>1, AppInvariant, PTL

\* One statement moves the status along.
LEMMA StatementKeepsLife ==
    ASSUME AppTypeOK, NEW r \in Request, Statement(r)
    PROVE  \/ app'.status = app.status
           \/ app'.status = "approved" /\ app.status \in {"pending", "suspended"}
           \/ app'.status = "suspended" /\ app.status = "approved"
           \/ app'.status = "revoked"
<1>1. app \in [status : AppStatus, spec : Details]
    BY DEF AppTypeOK
<1>2. CASE MarkAppApproved(r)
    BY <1>2 DEF MarkAppApproved
<1>3. CASE RotateAppSecret(r) \/ UpdateAppProfile(r) \/ ApproveURIs(r)
    BY <1>1, <1>3 DEF RotateAppSecret, UpdateAppProfile, ApproveURIs
<1>4. ASSUME NEW from, NEW to, SetStatus(from, to)
      PROVE  app.status \in from /\ app'.status = to
    BY <1>1, <1>4 DEF SetStatus
<1>5. CASE Revoke(NotRevoked) \/ Revoke({"pending"})
    BY <1>4, <1>5 DEF Revoke
<1>6. CASE UNCHANGED app
    BY <1>6
<1> QED
    BY <1>2, <1>3, <1>4, <1>5, <1>6
    DEF Statement, AskURIs, EndURIs, DecideScope, GrantConsents

\* Every other step leaves the row alone.
LEMMA OnlyStatements ==
    ASSUME [Next]_vars
    PROVE  \/ UNCHANGED rowVars
           \/ \E r \in Request : at[r] = "save" /\ Statement(r) /\ UNCHANGED casdoor
           \/ UNCHANGED <<app, uris, scope, casdoor>> /\ ~consent'
<1>1. ASSUME NEW r \in Request, NEW kind \in Kind, Begin(r, kind) PROVE UNCHANGED rowVars
    BY <1>1 DEF Begin
<1>2. ASSUME NEW r \in Request,
             \/ ReadScopes(r) \/ ReadRequest(r) \/ ReadCasdoor(r) \/ Ensure(r) \/ Probe(r)
             \/ Delete(r) \/ Restore(r) \/ Die(r)
      PROVE  UNCHANGED rowVars
    BY <1>2 DEF ReadScopes, ReadRequest, ReadCasdoor, Ensure, Probe, Delete, Restore, Die
<1>3. ASSUME NEW r \in Request, Save(r)
      PROVE  UNCHANGED rowVars \/ (at[r] = "save" /\ Statement(r) /\ UNCHANGED casdoor)
    BY <1>3 DEF Save
<1>4. CASE RevokeConsents
    BY <1>4 DEF RevokeConsents
<1>5. CASE UNCHANGED vars
    BY <1>5 DEF vars
<1> QED
    BY <1>1, <1>2, <1>3, <1>4, <1>5 DEF Next

\* No order of concurrent reviews, suspensions, withdrawals and revocations takes an application
\* back (MarkAppApproved and UpdateAppStatusWithAudit compare the status as they write it).
THEOREM LifecycleIsAlwaysKept == Spec => LifecycleIsKept
<1>1. AppInv /\ [Next]_vars =>
          [\/ app'.status = app.status
           \/ app'.status = "approved" /\ app.status \in {"pending", "suspended"}
           \/ app'.status = "suspended" /\ app.status = "approved"
           \/ app'.status = "revoked"]_vars
    BY OnlyStatements, StatementKeepsLife DEF AppInv, rowVars
<1> QED
    BY <1>1, AppInvariant, PTL DEF Spec, LifecycleIsKept

\* What a revoked application's requests may still do.
LEMMA SettledStays ==
    ASSUME AppInv, Settled, [Next]_vars
    PROVE  UNCHANGED <<app, uris, scope>> /\ casdoor' \in {casdoor, NoApp} /\ (consent' => consent)
<1>1. ASSUME NEW r \in Request, at[r] # "idle" PROVE op[r] = "again"
    BY <1>1 DEF AppInv, InStep, Settled, Admitted, Active, NotRevoked, Rotatable
<1>2. ASSUME NEW r \in Request PROVE ~Statement(r) \/ at[r] # "save"
    BY <1>1, <1>2 DEF Statement
<1>3. UNCHANGED <<app, uris, scope>> /\ (consent' => consent)
    BY <1>2, OnlyStatements DEF rowVars
<1>4. casdoor' \in {casdoor, NoApp}
    <2>1. ASSUME NEW r \in Request, NEW kind \in Kind, Begin(r, kind) PROVE UNCHANGED casdoor
        BY <2>1 DEF Begin
    <2>2. ASSUME NEW r \in Request, ReadScopes(r) \/ ReadRequest(r) \/ ReadCasdoor(r)
                                    \/ Probe(r) \/ Save(r) \/ Die(r)
          PROVE  UNCHANGED casdoor
        BY <2>2 DEF ReadScopes, ReadRequest, ReadCasdoor, Probe, Save, Die
    <2>3. ASSUME NEW r \in Request PROVE ~Ensure(r) /\ ~Restore(r)
        BY <1>1, <2>3 DEF AppInv, InStep, Ensure, Restore, Synced
    <2>4. ASSUME NEW r \in Request, Delete(r) PROVE casdoor' \in {casdoor, NoApp}
        BY <2>4 DEF Delete
    <2>5. CASE RevokeConsents \/ UNCHANGED vars
        BY <2>5 DEF RevokeConsents, vars
    <2> QED
        BY <2>1, <2>2, <2>3, <2>4, <2>5 DEF Next
<1> QED
    BY <1>3, <1>4

\* Once the requests that began before a revocation have ended, nothing gives the application
\* anything again: every request looks at the row's status before it changes anything.
THEOREM NothingEverComesBack == Spec => NothingComesBack
<1>1. AppInv /\ [Next]_vars =>
          [Settled => /\ UNCHANGED <<app, uris, scope>>
                      /\ casdoor' \in {casdoor, NoApp}
                      /\ consent' => consent]_vars
    BY SettledStays
<1> QED
    BY <1>1, AppInvariant, PTL DEF Spec, NothingComesBack
=============================================================================
