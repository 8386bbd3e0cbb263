------------------------------ MODULE Sessions ------------------------------
(***************************************************************************)
(* The tracked sessions of one user: pkg/token keeps them in Redis, the    *)
(* handlers of modules/auth create, rotate and revoke them, and Casdoor    *)
(* keeps a token family of its own for every pair it issues.               *)
(*                                                                         *)
(* A pair is an access and a refresh token issued together; the pairs of a *)
(* session are numbered.  No operation is a transaction: every Redis call  *)
(* and every call to Casdoor is a step, and requests interleave between    *)
(* them.  A call that fails may have taken effect.                         *)
(*                                                                         *)
(* The keys of different users are disjoint, so one user is enough.  Times *)
(* are not modelled, except that the reservation of a refresh token        *)
(* (refreshReservationTTL) outlives the request that holds it: Redis and   *)
(* Casdoor calls time out in seconds.  The blacklist's cache in memory is  *)
(* left out: it only chooses between two refusals while Redis is away.     *)
(***************************************************************************)
EXTENDS Naturals, FiniteSets

CONSTANTS
    Session,    \* session ids, each used by one login
    Request,    \* requests in progress at one time
    NoPair,
    MaxPairs,   \* bound: pairs issued in a session
    MaxFaults   \* bound: failed calls and crashes

Pair == Session \X (1..MaxPairs)

ASSUME SessionAssumption ==
    /\ MaxPairs \in Nat \ {0}
    /\ MaxFaults \in Nat
    /\ NoPair \notin Pair

VARIABLES
    stored,         \* Session -> the pair whose hashes session:<id> holds, 0 if absent
    index,          \* user:sessions:<user>
    bannedAccess,   \* token:blacklist: of access tokens
    bannedRefresh,  \* token:blacklist: of refresh tokens
    reserved,       \* token:refresh:consumed:
    family,         \* Casdoor: pairs whose token row is active
    issued,         \* Casdoor: Session -> how many pairs it has issued
    at,             \* Request -> the step it takes next
    tok,            \* Request -> the pair it presented, or creates
    fresh,          \* Request -> the pair Casdoor issued to it, 0 if none
    scope,          \* Request -> whether it revokes one session or all
    rows,           \* Request -> families it will revoke at Casdoor
    work,           \* Request -> sessions it has still to revoke
    loaded,         \* Request -> what it read of the session it revokes
    stale,          \* Request -> indexed sessions it found absent
    failed,         \* Request -> revokeErr
    held,           \* history: pairs a client was given
    rotated,        \* history: pairs a rotation has replaced
    raced,          \* history: sessions committed to while being revoked
    abandoned,      \* history: families a failure left at Casdoor
    faults

redisVars == <<stored, index, bannedAccess, bannedRefresh, reserved>>
casdoorVars == <<family, issued>>
revokeVars == <<scope, rows, work, loaded, stale, failed>>
requestVars == <<at, tok, fresh, revokeVars>>
historyVars == <<held, rotated, raced, abandoned, faults>>
vars == <<redisVars, casdoorVars, requestVars, historyVars>>

Init ==
    /\ stored = [s \in Session |-> 0]
    /\ index = {}
    /\ bannedAccess = {} /\ bannedRefresh = {} /\ reserved = {}
    /\ family = {}
    /\ issued = [s \in Session |-> 0]
    /\ at = [p \in Request |-> "idle"]
    /\ tok = [p \in Request |-> NoPair]
    /\ fresh = [p \in Request |-> 0]
    /\ scope = [p \in Request |-> "none"]
    /\ rows = [p \in Request |-> {}]
    /\ work = [p \in Request |-> {}]
    /\ loaded = [p \in Request |-> NoPair]
    /\ stale = [p \in Request |-> {}]
    /\ failed = [p \in Request |-> FALSE]
    /\ held = {} /\ rotated = {} /\ raced = {} /\ abandoned = {}
    /\ faults = 0

Ses(p) == tok[p][1]
Fresh(p) == <<Ses(p), fresh[p]>>

\* A request that has been answered leaves nothing in memory.
End(p) ==
    /\ at' = [at EXCEPT ![p] = "idle"]
    /\ tok' = [tok EXCEPT ![p] = NoPair]
    /\ fresh' = [fresh EXCEPT ![p] = 0]
    /\ scope' = [scope EXCEPT ![p] = "none"]
    /\ rows' = [rows EXCEPT ![p] = {}]
    /\ work' = [work EXCEPT ![p] = {}]
    /\ loaded' = [loaded EXCEPT ![p] = NoPair]
    /\ stale' = [stale EXCEPT ![p] = {}]
    /\ failed' = [failed EXCEPT ![p] = FALSE]

Begin(p, to, x) ==
    /\ at[p] = "idle"
    /\ at' = [at EXCEPT ![p] = to]
    /\ tok' = [tok EXCEPT ![p] = x]
    /\ UNCHANGED <<fresh, revokeVars>>

GoTo(p, to) ==
    /\ at' = [at EXCEPT ![p] = to]
    /\ UNCHANGED <<tok, fresh, revokeVars>>

Fault ==
    /\ faults < MaxFaults
    /\ faults' = faults + 1

Revokes(p, s) ==
    \/ scope[p] = "all"
    \/ scope[p] = "one" /\ s = Ses(p)

\* The session is committed to: a new pair is in it, or it is new in the index.
Commit(s) == raced' = IF \E p \in Request : Revokes(p, s) THEN raced \cup {s} ELSE raced
-----------------------------------------------------------------------------
(* Login: SessionStore.Create sends its commands in a pipeline that is no  *)
(* transaction.                                                            *)

Login(p, s) ==
    /\ issued[s] = 0
    /\ issued' = [issued EXCEPT ![s] = 1]
    /\ family' = family \cup {<<s, 1>>}
    /\ Begin(p, "creating", <<s, 1>>)
    /\ UNCHANGED <<redisVars, historyVars>>

CreateSession(p) ==
    /\ at[p] = "creating"
    /\ stored' = [stored EXCEPT ![Ses(p)] = 1]
    /\ GoTo(p, "indexing")
    /\ UNCHANGED <<index, bannedAccess, bannedRefresh, reserved, casdoorVars, historyVars>>

IndexSession(p) ==
    /\ at[p] = "indexing"
    /\ index' = index \cup {Ses(p)}
    /\ Commit(Ses(p))
    /\ GoTo(p, "welcoming")
    /\ UNCHANGED <<stored, bannedAccess, bannedRefresh, reserved, casdoorVars, held, rotated,
                   abandoned, faults>>

FinishLogin(p) ==
    /\ at[p] = "welcoming"
    /\ held' = held \cup {tok[p]}
    /\ End(p)
    /\ UNCHANGED <<redisVars, casdoorVars, rotated, raced, abandoned, faults>>

\* The pipeline fails after some of its commands: no token is handed out, and the
\* family that the login got from Casdoor is left to its expiry.
FailLogin(p) ==
    /\ at[p] \in {"creating", "indexing", "welcoming"}
    /\ Fault
    /\ abandoned' = abandoned \cup {tok[p]}
    /\ End(p)
    /\ UNCHANGED <<redisVars, casdoorVars, held, rotated, raced>>
-----------------------------------------------------------------------------
(* RefreshToken up to the rotation.                                        *)

Refresh(p, x) ==
    /\ x \in held
    /\ Begin(p, "checking", x)
    /\ UNCHANGED <<redisVars, casdoorVars, historyVars>>

CheckBlacklist(p) ==
    /\ at[p] = "checking"
    /\ \/ tok[p] \in bannedRefresh /\ GoTo(p, "judging") /\ UNCHANGED faults
       \/ tok[p] \notin bannedRefresh /\ GoTo(p, "reserving") /\ UNCHANGED faults
       \/ Fault /\ End(p)
    /\ UNCHANGED <<redisVars, casdoorVars, held, rotated, raced, abandoned>>

\* Mutant of Reserve: the key is set without NX.
ReserveAnyway(p) ==
    /\ at[p] = "reserving"
    /\ reserved' = reserved \cup {tok[p]}
    /\ GoTo(p, "resolving")
    /\ UNCHANGED <<stored, index, bannedAccess, bannedRefresh, casdoorVars, historyVars>>

\* TryConsumeRefreshToken, by SET NX.
Reserve(p) ==
    /\ at[p] = "reserving"
    /\ \/ /\ tok[p] \notin reserved
          /\ reserved' = reserved \cup {tok[p]}
          /\ GoTo(p, "resolving")
          /\ UNCHANGED faults
       \/ tok[p] \in reserved /\ End(p) /\ UNCHANGED <<reserved, faults>>
       \/ Fault /\ End(p) /\ reserved' \in {reserved, reserved \cup {tok[p]}}
    /\ UNCHANGED <<stored, index, bannedAccess, bannedRefresh, casdoorVars, held, rotated, raced,
                   abandoned>>

\* OIDCSessionForRefresh.
Resolve(p) ==
    /\ at[p] = "resolving"
    /\ \/ tok[p] = <<Ses(p), stored[Ses(p)]>> /\ GoTo(p, "asking") /\ UNCHANGED faults
       \/ tok[p] # <<Ses(p), stored[Ses(p)]>> /\ GoTo(p, "releasing") /\ UNCHANGED faults
       \/ Fault /\ GoTo(p, "releasing")
    /\ UNCHANGED <<redisVars, casdoorVars, held, rotated, raced, abandoned>>

\* The subject is validated and Casdoor is asked for a refresh grant.  It finds the old
\* row here and replaces it in Issue: nothing relies on it doing both at once.
Ask(p) ==
    /\ at[p] = "asking"
    /\ \/ tok[p] \in family /\ issued[Ses(p)] < MaxPairs /\ GoTo(p, "issuing")
       \/ GoTo(p, "releasing")
    /\ UNCHANGED <<redisVars, casdoorVars, historyVars>>

\* Casdoor deletes the old row and writes a new one.  When its answer is lost, nobody
\* knows the new pair.
Issue(p) ==
    LET n == issued[Ses(p)] + 1
    IN  /\ at[p] = "issuing"
        /\ n <= MaxPairs
        /\ issued' = [issued EXCEPT ![Ses(p)] = n]
        /\ family' = (family \ {tok[p]}) \cup {<<Ses(p), n>>}
        /\ \/ /\ at' = [at EXCEPT ![p] = "verifying"]
              /\ fresh' = [fresh EXCEPT ![p] = n]
              /\ UNCHANGED <<tok, revokeVars, abandoned, faults>>
           \/ /\ Fault
              /\ abandoned' = abandoned \cup {<<Ses(p), n>>}
              /\ GoTo(p, "releasing")
        /\ UNCHANGED <<redisVars, held, rotated, raced>>
-----------------------------------------------------------------------------
(* The rotation, and what follows a refresh that did not get so far.       *)

\* The new token is validated and its user synchronised; then RotateSession looks
\* whether the session still has the old pair.
Verify(p) ==
    /\ at[p] = "verifying"
    /\ \/ tok[p] = <<Ses(p), stored[Ses(p)]>> /\ GoTo(p, "touching")
       \/ GoTo(p, "compensating")
    /\ UNCHANGED <<redisVars, casdoorVars, historyVars>>

\* The effect of Touch's script on a session that exists.
Rotate(p) ==
    /\ stored[Ses(p)] # 0
    /\ stored' = [stored EXCEPT ![Ses(p)] = fresh[p]]
    /\ index' = index \cup {Ses(p)}
    /\ rotated' = rotated \cup {<<Ses(p), stored[Ses(p)]>>}
    /\ Commit(Ses(p))

\* Mutant of Touch: the script writes the session whether or not it exists.
TouchOrCreate(p) ==
    /\ at[p] = "touching"
    /\ stored' = [stored EXCEPT ![Ses(p)] = fresh[p]]
    /\ index' = index \cup {Ses(p)}
    /\ Commit(Ses(p))
    /\ GoTo(p, "retiring")
    /\ UNCHANGED <<bannedAccess, bannedRefresh, reserved, casdoorVars, held, rotated, abandoned,
                   faults>>

\* Mutant of Touch: a session that is gone is reported like any other failure, and the
\* new pair is left alone.
TouchAndLeave(p) ==
    /\ at[p] = "touching"
    /\ \/ Rotate(p) /\ GoTo(p, "retiring")
       \/ /\ stored[Ses(p)] = 0
          /\ GoTo(p, "releasing")
          /\ UNCHANGED <<stored, index, rotated, raced>>
    /\ UNCHANGED <<bannedAccess, bannedRefresh, reserved, casdoorVars, held, abandoned, faults>>

\* One Lua script: it does not compare the pair it replaces.
Touch(p) ==
    /\ at[p] = "touching"
    /\ \/ Rotate(p) /\ GoTo(p, "retiring") /\ UNCHANGED faults
       \/ /\ stored[Ses(p)] = 0
          /\ GoTo(p, "compensating")
          /\ UNCHANGED <<stored, index, rotated, raced, faults>>
       \/ /\ Fault
          /\ Rotate(p) \/ UNCHANGED <<stored, index, rotated, raced>>
          /\ GoTo(p, "compensating")
    /\ UNCHANGED <<bannedAccess, bannedRefresh, reserved, casdoorVars, held, abandoned>>

\* The old refresh token is blacklisted and the response sent; the reservation is left
\* to expire.  A failure after the commit is logged only.
Retire(p) ==
    /\ at[p] = "retiring"
    /\ \/ bannedRefresh' = bannedRefresh \cup {tok[p]} /\ UNCHANGED faults
       \/ Fault /\ bannedRefresh' \in {bannedRefresh, bannedRefresh \cup {tok[p]}}
    /\ held' = held \cup {Fresh(p)}
    /\ End(p)
    /\ UNCHANGED <<stored, index, bannedAccess, reserved, casdoorVars, rotated, raced, abandoned>>

\* revokeIssuedProviderTokenFamily, by best effort.
Compensate(p) ==
    /\ at[p] = "compensating"
    /\ \/ family' = family \ {Fresh(p)} /\ UNCHANGED <<abandoned, faults>>
       \/ /\ Fault
          /\ abandoned' = abandoned \cup {Fresh(p)}
          /\ UNCHANGED family
    /\ GoTo(p, "releasing")
    /\ UNCHANGED <<redisVars, issued, held, rotated, raced>>

Release(p) ==
    /\ at[p] = "releasing"
    /\ \/ reserved' = reserved \ {tok[p]} /\ UNCHANGED faults
       \/ Fault /\ UNCHANGED reserved
    /\ End(p)
    /\ UNCHANGED <<stored, index, bannedAccess, bannedRefresh, casdoorVars, held, rotated, raced,
                   abandoned>>

Holding == {"resolving", "asking", "issuing", "verifying", "touching", "retiring", "compensating",
            "releasing"}
Holds(p, x) == at[p] \in Holding /\ tok[p] = x

\* A reservation expires.
Lapse(x) ==
    /\ x \in reserved
    /\ \A p \in Request : ~Holds(p, x)
    /\ reserved' = reserved \ {x}
    /\ UNCHANGED <<stored, index, bannedAccess, bannedRefresh, casdoorVars, requestVars, historyVars>>
-----------------------------------------------------------------------------
(* Revocation of one session or of all.                                    *)

\* Mutant of Judge: any blacklisted token of a session that exists counts as reused.
JudgeHastily(p) ==
    /\ at[p] = "judging"
    /\ \/ /\ stored[Ses(p)] # 0
          /\ at' = [at EXCEPT ![p] = "listing"]
          /\ scope' = [scope EXCEPT ![p] = "all"]
          /\ UNCHANGED <<tok, fresh, rows, work, loaded, stale, failed>>
       \/ End(p)
    /\ UNCHANGED <<redisVars, casdoorVars, historyVars>>

\* rejectRefreshReuse: only another pair in its session proves that a token was reused.
\* Everything else, a failure and an expired attribution included, is a refusal.
Judge(p) ==
    /\ at[p] = "judging"
    /\ \/ /\ stored[Ses(p)] # 0
          /\ <<Ses(p), stored[Ses(p)]>> # tok[p]
          /\ at' = [at EXCEPT ![p] = "listing"]
          /\ scope' = [scope EXCEPT ![p] = "all"]
          /\ UNCHANGED <<tok, fresh, rows, work, loaded, stale, failed>>
       \/ End(p)
    /\ UNCHANGED <<redisVars, casdoorVars, historyVars>>

\* What the middleware lets through: by cookie a pair its session has, by bearer one
\* that Casdoor calls active.
AcceptsCookie(x) == x \notin bannedAccess /\ x = <<x[1], stored[x[1]]>>
AcceptsBearer(x) == x \notin bannedAccess /\ x \in family

LogoutAll(p, x) ==
    /\ x \in held
    /\ AcceptsCookie(x) \/ AcceptsBearer(x)
    /\ at[p] = "idle"
    /\ at' = [at EXCEPT ![p] = "listing"]
    /\ scope' = [scope EXCEPT ![p] = "all"]
    /\ UNCHANGED <<redisVars, casdoorVars, tok, fresh, rows, work, loaded, stale, failed, historyVars>>

Logout(p, x) ==
    /\ x \in held
    /\ AcceptsCookie(x) \/ AcceptsBearer(x)
    /\ Begin(p, "matching", x)
    /\ UNCHANGED <<redisVars, casdoorVars, historyVars>>

\* RevokeSession checks the session; without a session id it blacklists the tokens.
Match(p) ==
    /\ at[p] = "matching"
    /\ \/ /\ tok[p] = <<Ses(p), stored[Ses(p)]>>
          /\ at' = [at EXCEPT ![p] = "loading"]
          /\ scope' = [scope EXCEPT ![p] = "one"]
          /\ rows' = [rows EXCEPT ![p] = {tok[p]}]
          /\ work' = [work EXCEPT ![p] = {Ses(p)}]
          /\ UNCHANGED <<tok, fresh, loaded, stale, failed, bannedAccess, bannedRefresh>>
       \/ /\ End(p)
          /\ \/ UNCHANGED <<bannedAccess, bannedRefresh>>
             \/ /\ bannedAccess' = bannedAccess \cup {tok[p]}
                /\ bannedRefresh' \in {bannedRefresh, bannedRefresh \cup {tok[p]}}
    /\ UNCHANGED <<stored, index, reserved, casdoorVars, historyVars>>

Indexed == {<<s, stored[s]>> : s \in {t \in index : stored[t] # 0}}

\* ListUserSessions captures the families first, and drops absent sessions from the
\* index.  (SMEMBERS and MGET are one step: a session that joins between them is one that
\* joins after both.)  If it fails, the families stay, but the sessions are revoked all
\* the same.
ListFamilies(p) ==
    /\ at[p] = "listing"
    /\ at' = [at EXCEPT ![p] = "collecting"]
    /\ \/ /\ rows' = [rows EXCEPT ![p] = Indexed]
          /\ index' \in {index, {s \in index : stored[s] # 0}}
          /\ UNCHANGED <<abandoned, faults>>
       \/ /\ Fault
          /\ abandoned' = abandoned \cup Indexed
          /\ UNCHANGED <<rows, index>>
    /\ UNCHANGED <<stored, bannedAccess, bannedRefresh, reserved, casdoorVars, tok, fresh, scope,
                   work, loaded, stale, failed, held, rotated, raced>>

\* RevokeAll reads the index again.
Collect(p) ==
    /\ at[p] = "collecting"
    /\ \/ /\ work' = [work EXCEPT ![p] = index]
          /\ at' = [at EXCEPT ![p] = "loading"]
          /\ UNCHANGED <<tok, fresh, scope, rows, loaded, stale, failed, faults>>
       \/ Fault /\ GoTo(p, "disowning")
    /\ UNCHANGED <<redisVars, casdoorVars, held, rotated, raced, abandoned>>

\* An error ends a logout, and is remembered by RevokeAll, which goes on.
Fail(p) ==
    \/ scope[p] = "one" /\ End(p)
    \/ /\ scope[p] = "all"
       /\ at' = [at EXCEPT ![p] = "loading"]
       /\ failed' = [failed EXCEPT ![p] = TRUE]
       /\ loaded' = [loaded EXCEPT ![p] = NoPair]
       /\ UNCHANGED <<tok, fresh, scope, rows, work, stale>>

LoadSession(p, s) ==
    /\ at[p] = "loading"
    /\ s \in work[p]
    /\ work' = [work EXCEPT ![p] = @ \ {s}]
    /\ \/ /\ stored[s] # 0
          /\ at' = [at EXCEPT ![p] = "banning"]
          /\ loaded' = [loaded EXCEPT ![p] = <<s, stored[s]>>]
          /\ UNCHANGED stale
       \/ /\ stored[s] = 0
          /\ stale' = [stale EXCEPT ![p] = @ \cup {s}]
          /\ UNCHANGED <<at, loaded>>
    /\ UNCHANGED <<redisVars, casdoorVars, tok, fresh, scope, rows, failed, historyVars>>

FailLoad(p, s) ==
    /\ at[p] = "loading"
    /\ s \in work[p]
    /\ Fault
    /\ \/ scope[p] = "one" /\ End(p)
       \/ /\ scope[p] = "all"
          /\ work' = [work EXCEPT ![p] = @ \ {s}]
          /\ failed' = [failed EXCEPT ![p] = TRUE]
          /\ UNCHANGED <<at, tok, fresh, scope, rows, loaded, stale>>
    /\ UNCHANGED <<redisVars, casdoorVars, held, rotated, raced, abandoned>>

\* Mutant of BanAccess: an error is logged and the session deleted all the same.
BanAccessOrNot(p) ==
    /\ at[p] = "banning"
    /\ \/ bannedAccess' = bannedAccess \cup {loaded[p]} /\ UNCHANGED faults
       \/ Fault /\ UNCHANGED bannedAccess
    /\ GoTo(p, "barring")
    /\ UNCHANGED <<stored, index, bannedRefresh, reserved, casdoorVars, held, rotated, raced,
                   abandoned>>

BanAccess(p) ==
    /\ at[p] = "banning"
    /\ \/ /\ bannedAccess' = bannedAccess \cup {loaded[p]}
          /\ GoTo(p, "barring")
          /\ UNCHANGED faults
       \/ /\ Fault
          /\ bannedAccess' \in {bannedAccess, bannedAccess \cup {loaded[p]}}
          /\ Fail(p)
    /\ UNCHANGED <<stored, index, bannedRefresh, reserved, casdoorVars, held, rotated, raced,
                   abandoned>>

BanRefresh(p) ==
    /\ at[p] = "barring"
    /\ \/ /\ bannedRefresh' = bannedRefresh \cup {loaded[p]}
          /\ GoTo(p, "deleting")
          /\ UNCHANGED faults
       \/ /\ Fault
          /\ bannedRefresh' \in {bannedRefresh, bannedRefresh \cup {loaded[p]}}
          /\ Fail(p)
    /\ UNCHANGED <<stored, index, bannedAccess, reserved, casdoorVars, held, rotated, raced,
                   abandoned>>

\* On to the next session.
Loop(p) ==
    /\ at' = [at EXCEPT ![p] = "loading"]
    /\ loaded' = [loaded EXCEPT ![p] = NoPair]
    /\ UNCHANGED <<tok, fresh, scope, rows, work, stale, failed>>

\* A pipeline of two commands; that it failed is logged, for the tokens are blacklisted.
DeleteSession(p) ==
    /\ at[p] = "deleting"
    /\ \/ /\ stored' = [stored EXCEPT ![loaded[p][1]] = 0]
          /\ GoTo(p, "unlisting")
          /\ UNCHANGED faults
       \/ Fault /\ Loop(p) /\ stored' \in {stored, [stored EXCEPT ![loaded[p][1]] = 0]}
    /\ UNCHANGED <<index, bannedAccess, bannedRefresh, reserved, casdoorVars, held, rotated, raced,
                   abandoned>>

Unlist(p) ==
    /\ at[p] = "unlisting"
    /\ \/ index' = index \ {loaded[p][1]} /\ UNCHANGED faults
       \/ Fault /\ UNCHANGED index
    /\ Loop(p)
    /\ UNCHANGED <<stored, bannedAccess, bannedRefresh, reserved, casdoorVars, held, rotated, raced,
                   abandoned>>

\* Mutant of Finish: the index is deleted although a session could not be revoked.
FinishAnyway(p) ==
    /\ at[p] = "loading"
    /\ work[p] = {}
    /\ \/ scope[p] = "one" /\ UNCHANGED index
       \/ scope[p] = "all" /\ index' = {}
    /\ GoTo(p, "disowning")
    /\ UNCHANGED <<stored, bannedAccess, bannedRefresh, reserved, casdoorVars, historyVars>>

\* The end of RevokeAll.  The whole index is deleted, with what has joined it since
\* Collect.
Finish(p) ==
    /\ at[p] = "loading"
    /\ work[p] = {}
    /\ \/ scope[p] = "one" /\ UNCHANGED <<index, faults>>
       \/ scope[p] = "all" /\ failed[p] /\ index' \in {index, index \ stale[p]} /\ UNCHANGED faults
       \/ scope[p] = "all" /\ ~failed[p] /\ index' = {} /\ UNCHANGED faults
       \/ scope[p] = "all" /\ ~failed[p] /\ Fault /\ index' \in {index, index \ stale[p], {}}
    /\ GoTo(p, "disowning")
    /\ UNCHANGED <<stored, bannedAccess, bannedRefresh, reserved, casdoorVars, held, rotated, raced,
                   abandoned>>

\* The families captured at the beginning are revoked at Casdoor.
Disown(p) ==
    /\ at[p] = "disowning"
    /\ \/ family' = family \ rows[p] /\ UNCHANGED <<abandoned, faults>>
       \/ /\ Fault
          /\ \E done \in SUBSET rows[p] :
                /\ family' = family \ done
                /\ abandoned' = abandoned \cup (rows[p] \ done)
    /\ End(p)
    /\ UNCHANGED <<redisVars, issued, held, rotated, raced>>

\* Families that nobody tracks any more if a request stops here.
InHand(p) ==
    CASE at[p] \in {"creating", "indexing", "welcoming"}     -> {tok[p]}
      [] at[p] \in {"verifying", "touching", "compensating"} -> {Fresh(p)}
      [] OTHER                                               -> rows[p]

\* The process dies.
Crash(p) ==
    /\ at[p] # "idle"
    /\ Fault
    /\ abandoned' = abandoned \cup InHand(p)
    /\ End(p)
    /\ UNCHANGED <<redisVars, casdoorVars, held, rotated, raced>>
-----------------------------------------------------------------------------
Creating(p) == CreateSession(p) \/ IndexSession(p) \/ FinishLogin(p) \/ FailLogin(p)

Refreshing(p) ==
    \/ CheckBlacklist(p) \/ Reserve(p) \/ Resolve(p) \/ Ask(p) \/ Issue(p)
    \/ Verify(p) \/ Touch(p) \/ Retire(p) \/ Compensate(p) \/ Release(p) \/ Judge(p)

Revoking(p) ==
    \/ Match(p) \/ ListFamilies(p) \/ Collect(p)
    \/ \E s \in Session : LoadSession(p, s) \/ FailLoad(p, s)
    \/ BanAccess(p) \/ BanRefresh(p) \/ DeleteSession(p) \/ Unlist(p) \/ Finish(p) \/ Disown(p)

Next ==
    \/ \E p \in Request :
          \/ \E s \in Session : Login(p, s)
          \/ \E x \in Pair : Refresh(p, x) \/ Logout(p, x) \/ LogoutAll(p, x)
          \/ Creating(p) \/ Refreshing(p) \/ Revoking(p) \/ Crash(p)
    \/ \E x \in Pair : Lapse(x)

Spec == Init /\ [][Next]_vars
-----------------------------------------------------------------------------
(* Properties.                                                             *)

LoggingIn == {"creating", "indexing", "welcoming"}
Presenting == {"checking", "reserving", "judging", "matching"} \cup Holding
Ending == {"banning", "barring", "deleting", "unlisting"}
Steps == {"idle", "listing", "collecting", "loading", "disowning"}
            \cup LoggingIn \cup Presenting \cup Ending

StoresTypeOK ==
    /\ stored \in [Session -> 0..MaxPairs] /\ index \subseteq Session
    /\ bannedAccess \subseteq Pair /\ bannedRefresh \subseteq Pair /\ reserved \subseteq Pair
    /\ family \subseteq Pair /\ issued \in [Session -> 0..MaxPairs]
    /\ held \subseteq Pair /\ rotated \subseteq Pair /\ abandoned \subseteq Pair
    /\ raced \subseteq Session
    /\ faults \in 0..MaxFaults

RequestsTypeOK ==
    /\ at \in [Request -> Steps]
    /\ tok \in [Request -> Pair \cup {NoPair}] /\ loaded \in [Request -> Pair \cup {NoPair}]
    /\ fresh \in [Request -> 0..MaxPairs]
    /\ scope \in [Request -> {"none", "one", "all"}]
    /\ rows \in [Request -> SUBSET Pair]
    /\ work \in [Request -> SUBSET Session] /\ stale \in [Request -> SUBSET Session]
    /\ failed \in [Request -> BOOLEAN]

\* The state is of its type.
TypeOK == StoresTypeOK /\ RequestsTypeOK

Current(s) == <<s, stored[s]>>

\* Rotations of a session are serial: although Touch compares nothing, the pair it replaces
\* is the one its request has presented, so that no rotation overwrites another (the
\* reservation of RefreshToken, Touch's promise).
RotationIsSerial ==
    [][\A s \in Session :
          stored[s] # 0 /\ stored'[s] \notin {0, stored[s]}
            => \E p \in Request : at[p] = "touching" /\ tok[p] = Current(s)]_vars

Ended(s) ==
    /\ issued[s] > 0 /\ stored[s] = 0
    /\ \A p \in Request : at[p] = "creating" => Ses(p) # s

\* A session that has ended stays so, whatever rotation was under way (Touch finds it
\* absent); only the login that issued it may still be writing it.
EndedStaysEnded ==
    [][\A s \in Session :
          Ended(s) => stored'[s] = 0]_vars

\* A session whose client has its pair can be found by a logout of all devices, or its
\* refresh token is blacklisted, or it was committed to while it was being revoked
\* (RevokeAll: the index outlives a session that could not be revoked).
LiveIsIndexed ==
    \A s \in Session :
       stored[s] # 0 /\ Current(s) \in held
         => s \in index \/ Current(s) \in bannedRefresh \/ s \in raced

\* When a session is gone, no token a client was given for it is accepted, unless a
\* rotation was committed while it was being revoked (revokeLoadedSession: blacklist before
\* delete, and Casdoor forgets the superseded pairs).
EndedIsRefused ==
    \A x \in held : stored[x[1]] = 0 /\ x[1] \notin raced => ~AcceptsBearer(x)

\* The documents' claim for a logout, without the exception: the device it revokes is
\* refused.
LogoutEndsAccess ==
    \A x \in held : stored[x[1]] = 0 => ~AcceptsBearer(x)

\* A token family at Casdoor has somebody to revoke it: its session, a request, or else a
\* failure has been reported (compensation of an uncommitted refresh, RevokeAllSessions).
FamilyIsTracked ==
    \A x \in family :
       \/ x = Current(x[1])
       \/ \E p \in Request : x \in InHand(p)
       \/ x \in abandoned
       \/ x[1] \in raced

\* Refreshing with a blacklisted token logs the user out everywhere only if a rotation has
\* superseded that token; a refresh that comes after a logout does not (rejectRefreshReuse).
ReuseIsProven ==
    \A p \in Request : scope[p] = "all" /\ tok[p] # NoPair => tok[p] \in rotated
-----------------------------------------------------------------------------
(* The inductive invariant.                                                *)

\* What a request has in its hands, by the step it takes next.
Shape ==
    \A p \in Request :
       /\ at[p] = "idle" => tok[p] = NoPair /\ fresh[p] = 0
       /\ at[p] \in LoggingIn \cup Presenting => tok[p] \in Pair
       /\ at[p] \in LoggingIn => tok[p][2] = 1
       /\ at[p] \in {"verifying", "touching", "retiring", "compensating"} => fresh[p] > 0
       /\ at[p] \in {"idle"} \cup LoggingIn \cup Presenting => scope[p] = "none"
       /\ at[p] \in {"idle", "listing"} \cup LoggingIn \cup Presenting => rows[p] = {}
       /\ at[p] \in {"listing", "collecting"} => scope[p] = "all"
       /\ at[p] \in {"loading", "disowning"} \cup Ending => scope[p] # "none"
       /\ at[p] \notin {"loading"} \cup Ending \cup {"disowning"}
            => work[p] = {} /\ stale[p] = {} /\ ~failed[p]
       /\ at[p] \in Ending => loaded[p] \in Pair
       /\ at[p] \notin Ending => loaded[p] = NoPair
       /\ scope[p] = "one" => tok[p] \in Pair /\ rows[p] = {tok[p]}
       /\ scope[p] = "one" => work[p] \subseteq {Ses(p)}
       /\ scope[p] = "one" /\ at[p] \in Ending => loaded[p][1] = Ses(p) /\ work[p] = {}

\* Whatever is known of a session is known after Casdoor has issued it.
Known ==
    \A s \in Session :
       /\ stored[s] <= issued[s]
       /\ issued[s] = 0 => s \notin index /\ \A p \in Request : s \notin work[p] \cup stale[p]

PairsAreIssued == \A x \in held \cup rotated \cup family : x[2] <= issued[x[1]]

InHandIsIssued ==
    \A p \in Request :
       /\ tok[p] # NoPair => tok[p][2] <= issued[Ses(p)] /\ fresh[p] <= issued[Ses(p)]
       /\ loaded[p] # NoPair => loaded[p][2] <= issued[loaded[p][1]]

\* Until it is indexed a session belongs to its login alone.
NewIsPrivate ==
    \A p \in Request : at[p] \in {"creating", "indexing"} =>
       /\ at[p] = "creating" => stored[Ses(p)] = 0
       /\ at[p] = "indexing" => stored[Ses(p)] = 1
       /\ Ses(p) \notin index
       /\ \A x \in held : x[1] # Ses(p)
       /\ \A q \in Request :
             /\ Ses(p) \notin work[q] \cup stale[q]
             /\ loaded[q] # NoPair => loaded[q][1] # Ses(p)
             /\ q # p /\ tok[q] # NoPair => Ses(q) # Ses(p)

\* The pair is a client's, or on its way to it.
Handed(x) ==
    \/ x \in held
    \/ \E p \in Request : at[p] = "welcoming" /\ x = tok[p]
    \/ \E p \in Request : at[p] = "retiring" /\ x = Fresh(p)

PresentedIsHeld == \A p \in Request : tok[p] # NoPair /\ at[p] \notin LoggingIn => tok[p] \in held

ReservationIsExclusive ==
    /\ \A p \in Request : at[p] \in Holding => tok[p] \in reserved
    /\ \A p, q \in Request : at[p] \in Holding /\ at[q] \in Holding /\ tok[p] = tok[q] => p = q

\* While a rotation is committed its session has the pair presented, or is gone.
TouchIsCurrent == \A p \in Request : at[p] = "touching" => stored[Ses(p)] \in {0, tok[p][2]}

HandedIsCurrent ==
    \A x \in Pair : Handed(x) => x = Current(x[1]) \/ stored[x[1]] = 0 \/ x \in rotated

RotatedIsForgotten ==
    /\ rotated \cap family = {}
    /\ \A p \in Request : at[p] \in {"verifying", "touching"} => tok[p] \notin family

StaleIsGone ==
    \A p \in Request :
       /\ \A s \in stale[p] : stored[s] = 0
       /\ at[p] = "unlisting" => stored[loaded[p][1]] = 0

LoadedIsCurrent ==
    \A p \in Request :
       /\ at[p] \in Ending => stored[loaded[p][1]] \in {0, loaded[p][2]} \/ loaded[p][1] \in raced
       /\ at[p] \in {"barring", "deleting", "unlisting"} => loaded[p] \in bannedAccess
       /\ at[p] \in {"deleting", "unlisting"} => loaded[p] \in bannedRefresh

\* A session that a client has can be found, or need not be.
Found(s) == Current(s) \in bannedRefresh \/ s \in raced
HandedIsIndexed ==
    \A s \in Session : stored[s] # 0 /\ Handed(Current(s)) => s \in index \/ Found(s)

\* A logout of all devices has dealt with it or is about to, or else has failed.
Visiting(p) == scope[p] = "all" /\ at[p] \in {"loading"} \cup Ending /\ ~failed[p]
AllAreVisited ==
    \A p \in Request, s \in Session : Visiting(p) =>
       (stored[s] # 0 /\ Handed(Current(s)) => s \in work[p] \/ Found(s) \/ loaded[p] = Current(s))

HandedIsRefused ==
    \A x \in Pair : Handed(x) =>
       x = Current(x[1]) \/ x \notin family \/ x \in bannedAccess \/ x[1] \in raced

\* Requests that will revoke a family, or report that they could not.
Tracks(p, x) ==
    \/ at[p] = "creating" /\ x = tok[p]
    \/ at[p] \in {"verifying", "touching", "compensating"} /\ x = Fresh(p)
    \/ scope[p] = "all" /\ x \in rows[p]
    \/ /\ scope[p] = "one" /\ x \in rows[p]
       /\ at[p] \in {"loading", "deleting", "unlisting", "disowning"}
       /\ at[p] = "loading" => work[p] = {}

Owned(x) ==
    \/ x = Current(x[1])
    \/ \E p \in Request : Tracks(p, x)
    \/ x \in abandoned
    \/ x[1] \in raced
FamilyIsOwned == \A x \in family : Owned(x)

\* The families are captured before their sessions are revoked.
Captured(p, s) ==
    \/ stored[s] = 0
    \/ Current(s) \in rows[p] \cup abandoned
    \/ s \in raced

RevokedAreCaptured ==
    \A p \in Request :
       /\ at[p] = "collecting" => \A s \in index : Captured(p, s)
       /\ at[p] = "loading" => \A s \in work[p] : Captured(p, s)
       /\ at[p] \in Ending => \A s \in work[p] \cup {loaded[p][1]} : Captured(p, s)

SessionsInv ==
    /\ TypeOK
    /\ Shape
    /\ Known
    /\ PairsAreIssued
    /\ InHandIsIssued
    /\ NewIsPrivate
    /\ PresentedIsHeld
    /\ ReservationIsExclusive
    /\ TouchIsCurrent
    /\ HandedIsCurrent
    /\ RotatedIsForgotten
    /\ StaleIsGone
    /\ LoadedIsCurrent
    /\ HandedIsIndexed
    /\ AllAreVisited
    /\ HandedIsRefused
    /\ FamilyIsOwned
    /\ RevokedAreCaptured
    /\ ReuseIsProven
-----------------------------------------------------------------------------
(* What the sessions implement, and what their invariant lacks for it.     *)

\* The request has a pair that its client does not know yet.
Brings(p, x) ==
    \/ at[p] \in LoggingIn /\ x = tok[p]
    \/ at[p] \in {"verifying", "touching", "retiring"} /\ x = Fresh(p)

\* A new pair is brought to one client by one request.
NewIsUnique ==
    \A p \in Request, x \in Pair : Brings(p, x) =>
        x \notin held /\ \A q \in Request : Brings(q, x) => q = p

\* A rotation goes forward from a pair a client had.
RotationsGoForward ==
    /\ rotated \subseteq held
    /\ \A x \in rotated : stored[x[1]] = 0 \/ x[2] < stored[x[1]]
    /\ \A p \in Request :
           at[p] \in {"verifying", "touching", "retiring"} => tok[p][2] < fresh[p]

ChainInv == SessionsInv /\ NewIsUnique /\ RotationsGoForward

Over == {s \in Session : Ended(s)}

Chain == INSTANCE RefreshChain WITH
    Number <- 1..MaxPairs, last <- stored, given <- held, spent <- rotated, closed <- Over

\* A session is a chain of pairs of which only the last is exchanged, once, for a later one,
\* by a client it was given to, and that nothing continues after its end: whatever
\* requests, crashes and lost answers come between the steps of a rotation.
ImplementsRefreshChain == Chain!Spec
=============================================================================
