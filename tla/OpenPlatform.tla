---------------------------- MODULE OpenPlatform ----------------------------
(***************************************************************************)
(* The life of an application of modules/openplatform, which is kept       *)
(* twice: as a row of open_platform_apps, and as an application of Casdoor *)
(* that users log in through.  No transaction spans the two.  A request    *)
(* reads the row, changes Casdoor, commits the row, and when that fails    *)
(* puts back what it found in Casdoor.  Requests of administrators, owners *)
(* and users run at the same time, in any number of processes, and hold no *)
(* lock across their steps.                                                *)
(*                                                                         *)
(* One application, one scope and one user are enough: nothing relates     *)
(* two.  Of the row and of the Casdoor application the secret, the         *)
(* redirect URIs and the profile are kept, as numbers: each new one is a   *)
(* number not used before.  The row's hash of a secret is the number of    *)
(* the secret it is a hash of.  Resource grants are left out.              *)
(***************************************************************************)
EXTENDS Naturals

CONSTANTS
    Request,    \* requests that are under way at the same time
    NoApp,      \* there is no such application in Casdoor
    MaxValues,  \* bound: secrets, lists of redirect URIs and profiles in all
    MaxFaults   \* bound: answers that are lost, and processes that die

VARIABLES
    app,        \* row of open_platform_apps
    uris,       \* row of open_platform_redirect_uri_requests with the highest id
    scope,      \* status in open_platform_scope_requests; "approved" stands for approved_scopes
    consent,    \* the user's row of open_platform_user_consents is there and not revoked
    casdoor,    \* the application in Casdoor
    values,     \* numbers used so far
    at,         \* Request -> what it does next
    op,         \* Request -> what it is for
    seen,       \* Request -> the row as it read it
    found,      \* Request -> the Casdoor application as it read it
    want,       \* Request -> the new secret, URIs or profile
    target,     \* Request -> the id of the redirect URI request it is about
    alone,      \* history: no other writer has run since this one began
    torn,       \* history: since the two were last set right, a writer was given up half way,
                \* or two ran at the same time
    faults

rowVars == <<app, uris, scope, consent>>
localVars == <<op, seen, found, want, target>>
historyVars == <<torn, alone>>
vars == <<rowVars, casdoor, values, at, localVars, historyVars, faults>>

Value == 0..MaxValues
Details == [secret : Value, uris : Value, profile : Value]

ASSUME OpenPlatformAssumption ==
    /\ NoApp \notin Details
    /\ MaxValues \in Nat \ {0}
    /\ MaxFaults \in Nat

AppStatus == {"pending", "approved", "suspended", "revoked"}
Active == {"approved", "suspended"}
NotRevoked == {"pending"} \cup Active
ReviewStatus == {"none", "pending", "approved", "rejected", "withdrawn"}

\* The requests that change Casdoor before the row.
Synced == {"approve", "rotate", "review", "update"}

\* The requests that change what the row and Casdoor have in common, or what will be.
Writer == Synced \cup {"revoke", "again", "withdrawApp", "askURIs", "withdrawURIs", "rejectURIs"}

Kind == Writer \cup {"suspend", "resume", "consent", "askScope", "approveScope", "rejectScope",
                     "withdrawScope"}

\* Mutant of Rotatable: the secret of a revoked application is changed as well.
RotatableAlways == AppStatus

\* An owner may change the secret of an approved application, an administrator also of a
\* suspended one.
Rotatable == Active

\* What the row's status must be when the request reads it.
Admitted(kind, status) ==
    \/ kind \in {"approve", "withdrawApp"} /\ status = "pending"
    \/ kind \in {"suspend", "consent"} /\ status = "approved"
    \/ kind = "resume" /\ status = "suspended"
    \/ kind = "again" /\ status = "revoked"
    \/ kind = "rotate" /\ status \in Rotatable
    \/ kind \in {"review", "askURIs", "withdrawURIs", "rejectURIs"} /\ status \in Active
    \/ /\ kind \in {"update", "revoke", "askScope", "approveScope", "rejectScope", "withdrawScope"}
       /\ status \in NotRevoked

\* The requests about one redirect URI request.
URIsReviewed == {"review", "withdrawURIs", "rejectURIs"}

Blank == [status |-> "pending", spec |-> [secret |-> 0, uris |-> 0, profile |-> 0]]

\* RegisterApp, and ImportCasdoorApp: a row for an application that Casdoor has already.  The
\* importer may give a secret, redirect URIs and a profile of his own, which Casdoor is not told.
Init ==
    /\ \/ /\ app = Blank
          /\ scope = "pending"
          /\ casdoor = NoApp
          /\ torn = FALSE
       \/ /\ app = [Blank EXCEPT !.status = "approved"]
          /\ scope = "approved"
          /\ casdoor \in [secret : 0..1, uris : 0..1, profile : 0..1]
          /\ torn = (casdoor # app.spec)
    /\ uris = [id |-> 0, status |-> "none", uris |-> 0]
    /\ consent = FALSE
    /\ values = 1
    /\ at = [r \in Request |-> "idle"]
    /\ op = [r \in Request |-> "none"]
    /\ seen = [r \in Request |-> Blank]
    /\ found = [r \in Request |-> NoApp]
    /\ want = [r \in Request |-> 0]
    /\ target = [r \in Request |-> 0]
    /\ alone = [r \in Request |-> FALSE]
    /\ faults = 0

Writing(r) == at[r] # "idle" /\ op[r] \in Writer

Fault ==
    /\ faults < MaxFaults
    /\ faults' = faults + 1
-----------------------------------------------------------------------------
(* A request begins with GetAppByID.                                       *)

First(kind, status) ==
    CASE kind \in {"approve", "consent"} -> "scopes"
      [] kind = "rotate" \/ (kind = "update" /\ status \in Active) -> "read"
      [] kind = "review" -> "request"
      [] kind = "again" -> "delete"
      [] OTHER -> "save"

Begin(r, kind) ==
    LET new == kind \in {"approve", "rotate", "update", "askURIs"}
        others == {q \in Request \ {r} : Writing(q)}
    IN  /\ at[r] = "idle"
        /\ Admitted(kind, app.status)
        /\ values' = IF new THEN values + 1 ELSE values
        /\ values' <= MaxValues
        /\ at' = [at EXCEPT ![r] = First(kind, app.status)]
        /\ op' = [op EXCEPT ![r] = kind]
        /\ seen' = [seen EXCEPT ![r] = app]
        /\ found' = [found EXCEPT ![r] = NoApp]
        /\ want' = [want EXCEPT ![r] = IF new THEN values' ELSE 0]
        /\ target' = [target EXCEPT ![r] = IF kind \in URIsReviewed THEN uris.id ELSE 0]
        /\ IF kind \in Writer
           THEN /\ alone' = [q \in Request |-> IF q = r THEN others = {} ELSE FALSE]
                /\ torn' = (torn \/ others # {})
           ELSE UNCHANGED historyVars
        /\ UNCHANGED <<rowVars, casdoor, faults>>

\* The request ends: with the two in agreement, with Casdoor possibly changed and the row not,
\* or with nothing new.
Leave(r, how) ==
    /\ at' = [at EXCEPT ![r] = "idle"]
    /\ op' = [op EXCEPT ![r] = "none"]
    /\ seen' = [seen EXCEPT ![r] = Blank]
    /\ found' = [found EXCEPT ![r] = NoApp]
    /\ want' = [want EXCEPT ![r] = 0]
    /\ target' = [target EXCEPT ![r] = 0]
    /\ alone' = [alone EXCEPT ![r] = FALSE]
    /\ torn' = IF how = "unchanged" THEN torn ELSE how = "half way" \/ (torn /\ ~alone[r])

Goto(r, step) ==
    /\ at' = [at EXCEPT ![r] = step]
    /\ UNCHANGED <<localVars, historyVars>>
-----------------------------------------------------------------------------
(* Casdoor is changed first.                                               *)

\* ListApprovedScopes before an approval; ensureScopesApproved before a consent.
ReadScopes(r) ==
    /\ at[r] = "scopes"
    /\ \/ /\ scope = "approved"
          /\ Goto(r, IF op[r] = "approve" THEN "ensure" ELSE "save")
       \/ Leave(r, "unchanged")
    /\ UNCHANGED <<rowVars, casdoor, values, faults>>

\* GetRedirectURIRequest of the request that is to be approved.
ReadRequest(r) ==
    /\ at[r] = "request"
    /\ \/ /\ uris.id = target[r] /\ uris.status = "pending"
          /\ at' = [at EXCEPT ![r] = "read"]
          /\ want' = [want EXCEPT ![r] = uris.uris]
          /\ UNCHANGED <<op, seen, found, target, historyVars>>
       \/ Leave(r, "unchanged")
    /\ UNCHANGED <<rowVars, casdoor, values, faults>>

\* GetApplication.
ReadCasdoor(r) ==
    /\ at[r] = "read"
    /\ \/ /\ casdoor # NoApp
          /\ found' = [found EXCEPT ![r] = casdoor]
          /\ at' = [at EXCEPT ![r] = "ensure"]
          /\ UNCHANGED <<op, seen, want, target, historyVars>>
       \/ Leave(r, "unchanged")
    /\ UNCHANGED <<rowVars, casdoor, values, faults>>

\* An approval and a rotation send what the row had when they read it; the others what Casdoor
\* had, with one change.
Desired(r) ==
    IF op[r] \in {"approve", "rotate"} THEN [seen[r].spec EXCEPT !.secret = want[r]]
    ELSE IF op[r] = "review" THEN [found[r] EXCEPT !.uris = want[r]]
    ELSE [found[r] EXCEPT !.profile = want[r]]

\* EnsureApplication.  It may fail before Casdoor has changed anything, or after.
Ensure(r) ==
    /\ at[r] = "ensure"
    /\ \/ /\ casdoor' = Desired(r)
          /\ Goto(r, IF op[r] = "approve" THEN "probe" ELSE "save")
          /\ UNCHANGED faults
       \/ Leave(r, "unchanged") /\ UNCHANGED <<casdoor, faults>>
       \/ Fault /\ casdoor' = Desired(r) /\ Leave(r, "half way")
    /\ UNCHANGED <<rowVars, values>>

\* ensureCasdoorTokenMinimized and ensureCasdoorRuntimeTokenMinimized.
Probe(r) ==
    /\ at[r] = "probe"
    /\ \E step \in {"save", "delete"} : Goto(r, step)
    /\ UNCHANGED <<rowVars, casdoor, values, faults>>
-----------------------------------------------------------------------------
(* The transaction on the row.                                             *)

\* Mutant of MarkAppApproved: whatever has become of the application meanwhile.
MarkAppApprovedAnyway(r) ==
    /\ app' = [status |-> "approved", spec |-> [app.spec EXCEPT !.secret = want[r]]]
    /\ UNCHANGED <<uris, scope, consent>>

MarkAppApproved(r) ==
    /\ app.status = "pending"
    /\ app' = [status |-> "approved", spec |-> [app.spec EXCEPT !.secret = want[r]]]
    /\ UNCHANGED <<uris, scope, consent>>

\* The status is not looked at again.
RotateAppSecret(r) ==
    /\ app' = [app EXCEPT !.spec.secret = want[r]]
    /\ UNCHANGED <<uris, scope, consent>>

\* The URIs are those of the request as it is now, which its owner may have replaced.
ApproveURIs(r) ==
    /\ uris.id = target[r] /\ uris.status = "pending"
    /\ uris' = [uris EXCEPT !.status = "approved"]
    /\ app' = [app EXCEPT !.spec.uris = uris.uris]
    /\ UNCHANGED <<scope, consent>>

UpdateAppProfile(r) ==
    /\ app.status \in NotRevoked
    /\ app' = [app EXCEPT !.spec.profile = want[r]]
    /\ UNCHANGED <<uris, scope, consent>>

\* UpdateAppStatusWithAudit.
SetStatus(from, to) ==
    /\ app.status \in from
    /\ app' = [app EXCEPT !.status = to]

Revoke(from) ==
    /\ SetStatus(from, "revoked")
    /\ uris' = [uris EXCEPT !.status = IF @ = "pending" THEN "withdrawn" ELSE @]
    /\ scope' = IF scope = "pending" THEN "withdrawn" ELSE scope
    /\ consent' = FALSE

\* UpsertRedirectURIRequestWithAudit: a pending request is replaced and keeps its id.
AskURIs(r) ==
    /\ uris' = [id     |-> IF uris.status = "pending" THEN uris.id ELSE want[r],
                status |-> "pending",
                uris   |-> want[r]]
    /\ UNCHANGED <<app, scope, consent>>

EndURIs(r, status) ==
    /\ uris.id = target[r] /\ uris.status = "pending"
    /\ uris' = [uris EXCEPT !.status = status]
    /\ UNCHANGED <<app, scope, consent>>

DecideScope(from, to) ==
    /\ scope \in from
    /\ scope' = to
    /\ UNCHANGED <<app, uris, consent>>

GrantConsents ==
    /\ consent' = TRUE
    /\ UNCHANGED <<app, uris, scope>>

Statement(r) ==
    \/ op[r] = "approve" /\ MarkAppApproved(r)
    \/ op[r] = "rotate" /\ RotateAppSecret(r)
    \/ op[r] = "review" /\ ApproveURIs(r)
    \/ op[r] = "update" /\ UpdateAppProfile(r)
    \/ op[r] = "suspend" /\ SetStatus({"approved"}, "suspended") /\ UNCHANGED <<uris, scope, consent>>
    \/ op[r] = "resume" /\ SetStatus({"suspended"}, "approved") /\ UNCHANGED <<uris, scope, consent>>
    \/ op[r] = "revoke" /\ Revoke(NotRevoked)
    \/ op[r] = "withdrawApp" /\ Revoke({"pending"})
    \/ op[r] = "askURIs" /\ AskURIs(r)
    \/ op[r] = "withdrawURIs" /\ EndURIs(r, "withdrawn")
    \/ op[r] = "rejectURIs" /\ EndURIs(r, "rejected")
    \/ op[r] = "askScope" /\ DecideScope({"rejected", "withdrawn"}, "pending")
    \/ op[r] = "approveScope" /\ DecideScope({"pending"}, "approved")
    \/ op[r] = "rejectScope" /\ DecideScope({"pending"}, "rejected")
    \/ op[r] = "withdrawScope" /\ DecideScope({"pending"}, "withdrawn")
    \/ op[r] = "consent" /\ GrantConsents

\* Mutant of Undo: a profile that is not saved stays in Casdoor.
UndoButProfile(r) ==
    \/ op[r] = "approve" /\ Goto(r, "delete")
    \/ found[r] # NoApp /\ op[r] # "update" /\ Goto(r, "restore")
    \/ (op[r] = "update" \/ (op[r] # "approve" /\ found[r] = NoApp)) /\ Leave(r, "unchanged")

\* Mutant of Undo: it is not asked whether there is anything to put back.
UndoAnyway(r) ==
    \/ op[r] = "approve" /\ Goto(r, "delete")
    \/ op[r] # "approve" /\ Goto(r, "restore")

\* The transaction has failed, or so it seems.
Undo(r) ==
    \/ op[r] = "approve" /\ Goto(r, "delete")
    \/ found[r] # NoApp /\ Goto(r, "restore")
    \/ op[r] # "approve" /\ found[r] = NoApp /\ Leave(r, "unchanged")

\* A revocation deletes the Casdoor application, if the row that it read said that there is one.
Cleans(r) == op[r] = "revoke" /\ seen[r].status \in Active

Saved(r) ==
    \/ Cleans(r) /\ Goto(r, "delete")
    \/ ~Cleans(r) /\ Leave(r, IF op[r] \in {"approve", "rotate"} THEN "set right" ELSE "unchanged")

\* The transaction commits and its answer is lost: what was changed in Casdoor is undone.
SavedUnseen(r) ==
    LET undone == op[r] = "approve" \/ found[r] # NoApp
    IN  \/ /\ undone
           /\ at' = [at EXCEPT ![r] = IF op[r] = "approve" THEN "delete" ELSE "restore"]
           /\ torn' = TRUE
           /\ UNCHANGED <<localVars, alone>>
        \/ ~undone /\ Leave(r, IF Cleans(r) THEN "half way" ELSE "unchanged")

Save(r) ==
    /\ at[r] = "save"
    /\ \/ Statement(r) /\ Saved(r) /\ UNCHANGED faults
       \/ Undo(r) /\ UNCHANGED <<rowVars, faults>>
       \/ Fault /\ Statement(r) /\ SavedUnseen(r)
    /\ UNCHANGED <<casdoor, values>>
-----------------------------------------------------------------------------
(* Casdoor is changed last.                                                *)

\* DeleteApplication, of an application that is revoked, or that could not be approved.
Delete(r) ==
    /\ at[r] = "delete"
    /\ \/ /\ casdoor' = NoApp
          /\ Leave(r, IF op[r] = "approve" THEN "unchanged" ELSE "set right")
          /\ UNCHANGED faults
       \/ Leave(r, "half way") /\ UNCHANGED <<casdoor, faults>>
       \/ Fault /\ casdoor' = NoApp /\ Leave(r, "half way")
    /\ UNCHANGED <<rowVars, values>>

\* EnsureApplication with what was found there: the secret, the redirect URIs and the profile.
Restore(r) ==
    /\ at[r] = "restore"
    /\ \/ /\ casdoor' = found[r]
          /\ Leave(r, "unchanged")
          /\ UNCHANGED faults
       \/ Leave(r, "half way") /\ UNCHANGED <<casdoor, faults>>
       \/ Fault /\ casdoor' = found[r] /\ Leave(r, "half way")
    /\ UNCHANGED <<rowVars, values>>

\* The process of the request dies.
Die(r) ==
    /\ at[r] # "idle"
    /\ Fault
    /\ Leave(r, IF Writing(r) THEN "half way" ELSE "unchanged")
    /\ UNCHANGED <<rowVars, casdoor, values>>

\* RevokeUserConsent and RevokeAdminUserConsent: one statement, which asks nothing of the row.
RevokeConsents ==
    /\ consent
    /\ consent' = FALSE
    /\ UNCHANGED <<app, uris, scope, casdoor, values, at, localVars, historyVars, faults>>

Next ==
    \/ \E r \in Request :
        \/ \E kind \in Kind : Begin(r, kind)
        \/ ReadScopes(r) \/ ReadRequest(r) \/ ReadCasdoor(r) \/ Ensure(r) \/ Probe(r)
        \/ Save(r) \/ Delete(r) \/ Restore(r) \/ Die(r)
    \/ RevokeConsents

Spec == Init /\ [][Next]_vars
-----------------------------------------------------------------------------
(* Properties.                                                             *)

Step == {"idle", "scopes", "request", "read", "ensure", "probe", "save", "delete", "restore"}

\* The types of the variables.
AppTypeOK ==
    /\ app \in [status : AppStatus, spec : Details]
    /\ uris \in [id : Value, status : ReviewStatus, uris : Value]
    /\ scope \in ReviewStatus
    /\ consent \in BOOLEAN
    /\ casdoor \in Details \cup {NoApp}
    /\ values \in Value
    /\ at \in [Request -> Step]
    /\ op \in [Request -> Kind \cup {"none"}]
    /\ seen \in [Request -> [status : AppStatus, spec : Details]]
    /\ found \in [Request -> Details \cup {NoApp}]
    /\ want \in [Request -> Value]
    /\ target \in [Request -> Value]
    /\ torn \in BOOLEAN
    /\ alone \in [Request -> BOOLEAN]
    /\ faults \in 0..MaxFaults

\* What users log in to is what the row says.
Agree == casdoor = (IF app.status \in Active THEN app.spec ELSE NoApp)

\* With no writer under way, and none given up half way or overlapped by another since the two
\* last agreed, Casdoor has the secret, the redirect URIs and the profile of an application that
\* is approved or suspended, and nothing for one that is pending or revoked: every failure that
\* is reported is undone, on every path, and rotations and revocations repair the rest.
AgreesAlone == ~torn /\ (\A r \in Request : ~Writing(r)) => Agree

\* An application's life goes one way: no order of concurrent reviews, suspensions, withdrawals
\* and revocations takes a revoked application back, or one that was approved back to pending.
LifecycleIsKept ==
    [][\/ app'.status = app.status
       \/ app'.status = "approved" /\ app.status \in {"pending", "suspended"}
       \/ app'.status = "suspended" /\ app.status = "approved"
       \/ app'.status = "revoked"]_vars

\* Once an application is revoked and the requests that began before it have ended, nothing
\* gives it anything again: its secret, URIs and profile stay, its Casdoor application at most
\* disappears, no consent is given and no request is filed.
Settled ==
    /\ app.status = "revoked"
    /\ \A r \in Request : at[r] # "idle" => seen[r].status = "revoked"

NothingComesBack ==
    [][Settled => /\ UNCHANGED <<app, uris, scope>>
                  /\ casdoor' \in {casdoor, NoApp}
                  /\ consent' => consent]_vars
-----------------------------------------------------------------------------
(* The inductive invariant.                                                *)

\* What a request is for fits its next step, and what it has read.
InStep(r) ==
    /\ at[r] # "idle" => op[r] \in Kind /\ Admitted(op[r], seen[r].status)
    /\ at[r] = "scopes" => op[r] \in {"approve", "consent"}
    /\ at[r] = "request" => op[r] = "review"
    /\ at[r] = "read" => op[r] \in {"rotate", "review", "update"} /\ seen[r].status \in Active
    /\ at[r] = "ensure" => op[r] \in Synced /\ (op[r] # "approve" => found[r] # NoApp)
    /\ at[r] = "probe" => op[r] = "approve"
    /\ at[r] = "save" /\ op[r] \in {"rotate", "review", "update"} =>
           found[r] # NoApp \/ (op[r] = "update" /\ seen[r].status = "pending")
    /\ at[r] = "delete" => op[r] \in {"approve", "revoke", "again"}
    /\ at[r] = "restore" => found[r] # NoApp
    /\ found[r] # NoApp =>
           /\ at[r] \in {"ensure", "save", "restore"}
           /\ op[r] \in {"rotate", "review", "update"}
           /\ seen[r].status \in Active

\* A writer is alone until another begins, and one that is not has torn the two.
AloneIsAlone ==
    \A r \in Request :
        /\ alone[r] => Writing(r) /\ \A q \in Request \ {r} : ~Writing(q)
        /\ Writing(r) /\ ~torn => alone[r]

Before(r) == at[r] \in {"scopes", "request", "read", "ensure", "probe", "save"}

Sent(r) == at[r] = "probe" \/ (at[r] = "save" /\ (op[r] = "approve" \/ found[r] # NoApp))

\* A writer that is alone knows what row and Casdoor have.
Knows(r) ==
    /\ Before(r) =>
           /\ app.spec = seen[r].spec
           /\ app.status = seen[r].status \/ (app.status \in Active /\ seen[r].status \in Active)
    /\ op[r] = "review" /\ at[r] \in {"read", "ensure", "save"} =>
           uris = [id |-> target[r], status |-> "pending", uris |-> want[r]]
    /\ Sent(r) => casdoor = Desired(r)
    /\ Before(r) /\ ~Sent(r) /\ ~torn => Agree
    /\ found[r] # NoApp /\ ~torn => found[r] = app.spec /\ app.status \in Active
    /\ at[r] = "delete" =>
           app.status = "revoked" \/ (op[r] = "approve" /\ (torn \/ app.status = "pending"))

\* The inductive invariant of OpenPlatformProofs.
AppInv ==
    /\ AppTypeOK
    /\ \A r \in Request : InStep(r)
    /\ AloneIsAlone
    /\ \A r \in Request : alone[r] => Knows(r)
    /\ AgreesAlone
=============================================================================
