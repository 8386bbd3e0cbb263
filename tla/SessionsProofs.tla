--------------------------- MODULE SessionsProofs ---------------------------
(***************************************************************************)
(* Proofs about Sessions, for any sessions, requests and bounds.           *)
(*                                                                         *)
(* SessionsInv is inductive: one lemma per step, one leaf per conjunct     *)
(* that the step could disturb.  The argument rests on three facts.  A     *)
(* reservation keeps two requests from rotating with one token             *)
(* (ReservationIsExclusive), so what Touch replaces is what its request    *)
(* presented (TouchIsCurrent).  Casdoor has forgotten a superseded pair    *)
(* before the session does (RotatedIsForgotten).  And whoever revokes      *)
(* blacklists before it deletes what it loaded (LoadedIsCurrent), and      *)
(* notes the families before that (RevokedAreCaptured).                    *)
(***************************************************************************)
EXTENDS Sessions, TLAPS

\* The parts of a pair, and the assumptions on the constants.
LEMMA PairParts ==
    /\ \A x \in Pair : x[1] \in Session /\ x[2] \in 1..MaxPairs /\ x = <<x[1], x[2]>>
    /\ \A s \in Session, n \in 1..MaxPairs : <<s, n>> \in Pair
    /\ NoPair \notin Pair /\ MaxPairs \in Nat /\ MaxPairs > 0 /\ MaxFaults \in Nat
  BY SessionAssumption DEF Pair
USE PairParts DEF SessionsInv, TypeOK, StoresTypeOK, RequestsTypeOK, Ses, Fresh, Holding, LoggingIn,
    Presenting, Ending, redisVars, casdoorVars, revokeVars, requestVars, historyVars

\* What a client has been given was issued.
LEMMA HandedIsIssued ==
    ASSUME SessionsInv, NEW x, Handed(x)
    PROVE  x \in Pair /\ x[1] \in Session /\ x[2] <= issued[x[1]]
<1>1. CASE x \in held
  BY <1>1 DEF PairsAreIssued
<1>2. ASSUME NEW p \in Request, at[p] = "welcoming", x = tok[p]
      PROVE  x \in Pair /\ x[2] <= issued[x[1]]
  BY <1>2 DEF InHandIsIssued, Shape, Ses
<1>3. ASSUME NEW p \in Request, at[p] = "retiring", x = Fresh(p)
      PROVE  x \in Pair /\ x[2] <= issued[x[1]]
  BY <1>3 DEF InHandIsIssued, Shape, Fresh, Ses
<1> QED
  BY <1>1, <1>2, <1>3 DEF Handed

\* Login starts with a pair of a session nobody knows.
LEMMA LoginKeepsInv ==
    ASSUME SessionsInv, NEW p \in Request, NEW s \in Session, Login(p, s)
    PROVE  SessionsInv'
<1>h. \A x : Handed(x)' => Handed(x)
  BY DEF Login, Begin, Shape, Handed
<1>t. \A q \in Request, x \in family' : Tracks(q, x) => Tracks(q, x)' \/ x \in abandoned'
  BY DEF Login, Begin, Shape, Tracks, Current, InHand
<1>1. StoresTypeOK'
  BY DEF Login, Begin, Shape
<1>2. RequestsTypeOK'
  BY DEF Login, Begin, Shape, Steps
<1>3. Shape'
  BY DEF Login, Begin, Shape, Steps
<1>4. Known'
  BY DEF Login, Begin, Known, Shape, InHandIsIssued
<1>5. PairsAreIssued'
  BY DEF Login, Begin, PairsAreIssued, Shape, InHandIsIssued
<1>6. InHandIsIssued'
  BY DEF Login, Begin, InHandIsIssued, Shape, PairsAreIssued
<1>7. NewIsPrivate'
  BY DEF Login, Begin, NewIsPrivate, Shape, Known, PairsAreIssued, InHandIsIssued
<1>8. PresentedIsHeld'
  BY DEF Login, Begin, PresentedIsHeld, Shape
<1>9. ReservationIsExclusive'
  BY DEF Login, Begin, ReservationIsExclusive, Shape
<1>10. TouchIsCurrent'
  BY DEF Login, Begin, TouchIsCurrent, Shape, NewIsPrivate, ReservationIsExclusive
<1>11. HandedIsCurrent'
  BY <1>h DEF Login, Begin, HandedIsCurrent, Shape, NewIsPrivate, Current
<1>12. RotatedIsForgotten'
  BY DEF Login, Begin, RotatedIsForgotten, Shape, PairsAreIssued, InHandIsIssued,
     TouchIsCurrent
<1>13. StaleIsGone'
  BY DEF Login, Begin, StaleIsGone, Shape, NewIsPrivate
<1>14. LoadedIsCurrent'
  BY DEF Login, Begin, LoadedIsCurrent, Shape, NewIsPrivate
<1>15. HandedIsIndexed'
  BY <1>h DEF Login, Begin, HandedIsIndexed, Shape, NewIsPrivate, StaleIsGone, AllAreVisited,
     Current, Found, Visiting
<1>16. AllAreVisited'
  BY <1>h DEF Login, Begin, AllAreVisited, Shape, NewIsPrivate, HandedIsIndexed,
     LoadedIsCurrent, Current, Found, Visiting
<1>17. HandedIsRefused'
  <2> SUFFICES ASSUME NEW y \in Pair, Handed(y)'
               PROVE  (y = Current(y[1]) \/ y \notin family \/ y \in bannedAccess \/ y[1] \in raced)'
    BY DEF HandedIsRefused
  <2>1. Handed(y) /\ y[1] \in Session /\ y[2] <= issued[y[1]]
    BY <1>h, HandedIsIssued
  <2>2. y # <<s, 1>>
    BY <2>1 DEF Login
  <2> QED
    BY <2>1, <2>2 DEF Login, Begin, HandedIsRefused, Shape, PairsAreIssued, NewIsPrivate,
       LoadedIsCurrent,
     RotatedIsForgotten, TouchIsCurrent, Current
<1>18. FamilyIsOwned'
  <2> SUFFICES ASSUME NEW y \in family'
               PROVE  Owned(y)'
    BY DEF FamilyIsOwned
  <2>1. CASE y = <<s, 1>>
    <3>1. Tracks(p, y)'
      BY <2>1 DEF Login, Begin, FamilyIsOwned, Shape, NewIsPrivate, RotatedIsForgotten,
         RevokedAreCaptured,
     LoadedIsCurrent, TouchIsCurrent, Tracks, Owned, Current, Captured
    <3> QED
      BY <3>1 DEF Owned
  <2>2. CASE y \in family
    BY <2>2, <1>t DEF FamilyIsOwned, Owned, Current, Login, redisVars, historyVars
  <2> QED
    BY <2>1, <2>2 DEF Login
<1>19. RevokedAreCaptured'
  BY DEF Login, Begin, RevokedAreCaptured, Shape, NewIsPrivate, Captured, Current, Indexed
<1>20. ReuseIsProven'
  BY DEF Login, Begin, ReuseIsProven, Shape, HandedIsCurrent, PresentedIsHeld, Current, Handed
<1> QED
  BY <1>1, <1>2, <1>3, <1>4, <1>5, <1>6, <1>7, <1>8, <1>9, <1>10, <1>11, <1>12, <1>13, <1>14,
     <1>15, <1>16, <1>17, <1>18, <1>19, <1>20 DEF SessionsInv, TypeOK

\* CreateSession preserves the invariant.
LEMMA CreateSessionKeepsInv ==
    ASSUME SessionsInv, NEW p \in Request, CreateSession(p)
    PROVE  SessionsInv'
<1>h. \A x : Handed(x)' => Handed(x)
  BY DEF CreateSession, GoTo, Shape, Handed
<1>t. \A q \in Request, x \in family' : Tracks(q, x) => Tracks(q, x)' \/ x \in abandoned'
                                       \/ x = Current(x[1])'
  BY DEF CreateSession, GoTo, Shape, Tracks, Current, InHand
<1>n. \A x : Handed(x) => x[1] # Ses(p)
  BY SMTT(30) DEF CreateSession, GoTo, Shape, NewIsPrivate, Handed
<1>1. StoresTypeOK'
  BY DEF CreateSession, GoTo, Shape
<1>2. RequestsTypeOK'
  BY DEF CreateSession, GoTo, Shape, Steps
<1>3. Shape'
  BY DEF CreateSession, GoTo, Shape, Steps
<1>4. Known'
  BY DEF CreateSession, GoTo, Known, Shape, InHandIsIssued
<1>5. PairsAreIssued'
  BY DEF CreateSession, GoTo, PairsAreIssued, Shape, InHandIsIssued
<1>6. InHandIsIssued'
  BY DEF CreateSession, GoTo, InHandIsIssued, Shape, PairsAreIssued
<1>7. NewIsPrivate'
  BY DEF CreateSession, GoTo, NewIsPrivate, Shape, Known, PairsAreIssued, InHandIsIssued
<1>8. PresentedIsHeld'
  BY DEF CreateSession, GoTo, PresentedIsHeld, Shape
<1>9. ReservationIsExclusive'
  BY DEF CreateSession, GoTo, ReservationIsExclusive, Shape
<1>10. TouchIsCurrent'
  BY DEF CreateSession, GoTo, TouchIsCurrent, Shape, NewIsPrivate, ReservationIsExclusive
<1>11. HandedIsCurrent'
  BY <1>h, <1>n DEF CreateSession, GoTo, HandedIsCurrent, Shape, NewIsPrivate, Current
<1>12. RotatedIsForgotten'
  BY DEF CreateSession, GoTo, RotatedIsForgotten, Shape, PairsAreIssued, InHandIsIssued,
     TouchIsCurrent
<1>13. StaleIsGone'
  BY DEF CreateSession, GoTo, StaleIsGone, Shape, NewIsPrivate
<1>14. LoadedIsCurrent'
  BY DEF CreateSession, GoTo, LoadedIsCurrent, Shape, NewIsPrivate
<1>15. HandedIsIndexed'
  BY <1>h, <1>n DEF CreateSession, GoTo, HandedIsIndexed, Shape, NewIsPrivate, StaleIsGone,
     AllAreVisited,
     Current, Found, Visiting
<1>16. AllAreVisited'
  BY <1>h, <1>n DEF CreateSession, GoTo, AllAreVisited, Shape, NewIsPrivate, HandedIsIndexed,
     LoadedIsCurrent,
     Current, Found, Visiting
<1>17. HandedIsRefused'
  BY <1>h DEF CreateSession, GoTo, HandedIsRefused, Shape, PairsAreIssued, NewIsPrivate,
     LoadedIsCurrent, RotatedIsForgotten, TouchIsCurrent, Current
<1>18. FamilyIsOwned'
  BY <1>t DEF CreateSession, GoTo, FamilyIsOwned, Shape, NewIsPrivate, RotatedIsForgotten,
     RevokedAreCaptured, LoadedIsCurrent, TouchIsCurrent, Owned, Current, Captured
<1>19. RevokedAreCaptured'
  BY DEF CreateSession, GoTo, RevokedAreCaptured, Shape, NewIsPrivate, Captured, Current,
     Indexed
<1>20. ReuseIsProven'
  BY DEF CreateSession, GoTo, ReuseIsProven, Shape, HandedIsCurrent, PresentedIsHeld, Current,
     Handed
<1> QED
  BY <1>1, <1>2, <1>3, <1>4, <1>5, <1>6, <1>7, <1>8, <1>9, <1>10, <1>11, <1>12, <1>13, <1>14,
     <1>15, <1>16, <1>17, <1>18, <1>19, <1>20 DEF SessionsInv, TypeOK

\* IndexSession preserves the invariant.
LEMMA IndexSessionKeepsInv ==
    ASSUME SessionsInv, NEW p \in Request, IndexSession(p)
    PROVE  SessionsInv'
<1>h. \A x : Handed(x)' => Handed(x) \/ x = tok[p]
  BY DEF IndexSession, GoTo, Commit, Revokes, Shape, Handed
<1>t. \A q \in Request, x \in family' : Tracks(q, x) => Tracks(q, x)' \/ x \in abandoned'
  BY DEF IndexSession, GoTo, Commit, Revokes, Shape, Tracks, Current, InHand
<1>1. StoresTypeOK'
  BY DEF IndexSession, GoTo, Commit, Revokes, Shape
<1>2. RequestsTypeOK'
  BY DEF IndexSession, GoTo, Commit, Revokes, Shape, Steps
<1>3. Shape'
  BY DEF IndexSession, GoTo, Commit, Revokes, Shape, Steps
<1>4. Known'
  BY DEF IndexSession, GoTo, Commit, Revokes, Known, Shape, InHandIsIssued
<1>5. PairsAreIssued'
  BY DEF IndexSession, GoTo, Commit, Revokes, PairsAreIssued, Shape, InHandIsIssued
<1>6. InHandIsIssued'
  BY DEF IndexSession, GoTo, Commit, Revokes, InHandIsIssued, Shape, PairsAreIssued
<1>7. NewIsPrivate'
  BY DEF IndexSession, GoTo, Commit, Revokes, NewIsPrivate, Shape, Known, PairsAreIssued,
     InHandIsIssued
<1>8. PresentedIsHeld'
  BY DEF IndexSession, GoTo, Commit, Revokes, PresentedIsHeld, Shape
<1>9. ReservationIsExclusive'
  BY DEF IndexSession, GoTo, Commit, Revokes, ReservationIsExclusive, Shape
<1>10. TouchIsCurrent'
  BY DEF IndexSession, GoTo, Commit, Revokes, TouchIsCurrent, Shape, NewIsPrivate,
     ReservationIsExclusive
<1>11. HandedIsCurrent'
  BY <1>h DEF IndexSession, GoTo, Commit, Revokes, HandedIsCurrent, Shape, NewIsPrivate,
     Current
<1>12. RotatedIsForgotten'
  BY DEF IndexSession, GoTo, Commit, Revokes, RotatedIsForgotten, Shape, PairsAreIssued,
     InHandIsIssued, TouchIsCurrent
<1>13. StaleIsGone'
  BY DEF IndexSession, GoTo, Commit, Revokes, StaleIsGone, Shape, NewIsPrivate
<1>14. LoadedIsCurrent'
  BY DEF IndexSession, GoTo, Commit, Revokes, LoadedIsCurrent, Shape, NewIsPrivate
<1>15. HandedIsIndexed'
  BY <1>h DEF IndexSession, GoTo, Commit, Revokes, HandedIsIndexed, Shape, NewIsPrivate,
     StaleIsGone, AllAreVisited, Current, Found, Visiting
<1>16. AllAreVisited'
  BY <1>h DEF IndexSession, GoTo, Commit, Revokes, AllAreVisited, Shape, NewIsPrivate,
     HandedIsIndexed, LoadedIsCurrent, Current, Found, Visiting
<1>17. HandedIsRefused'
  BY <1>h DEF IndexSession, GoTo, Commit, Revokes, HandedIsRefused, Shape, PairsAreIssued,
     NewIsPrivate, LoadedIsCurrent, RotatedIsForgotten, TouchIsCurrent, Current
<1>18. FamilyIsOwned'
  BY <1>t DEF IndexSession, GoTo, Commit, Revokes, FamilyIsOwned, Shape, NewIsPrivate,
     RotatedIsForgotten, RevokedAreCaptured, LoadedIsCurrent, TouchIsCurrent, Owned,
     Current, Captured
<1>19. RevokedAreCaptured'
  BY DEF IndexSession, GoTo, Commit, Revokes, RevokedAreCaptured, Shape, NewIsPrivate,
     Captured, Current, Indexed
<1>20. ReuseIsProven'
  BY DEF IndexSession, GoTo, Commit, Revokes, ReuseIsProven, Shape, HandedIsCurrent,
     PresentedIsHeld, Current, Handed
<1> QED
  BY <1>1, <1>2, <1>3, <1>4, <1>5, <1>6, <1>7, <1>8, <1>9, <1>10, <1>11, <1>12, <1>13, <1>14,
     <1>15, <1>16, <1>17, <1>18, <1>19, <1>20 DEF SessionsInv, TypeOK

\* FinishLogin preserves the invariant.
LEMMA FinishLoginKeepsInv ==
    ASSUME SessionsInv, NEW p \in Request, FinishLogin(p)
    PROVE  SessionsInv'
<1>h. \A x : Handed(x)' => Handed(x)
  BY DEF FinishLogin, End, Shape, Handed
<1>t. \A q \in Request, x \in family' : Tracks(q, x) => Tracks(q, x)' \/ x \in abandoned'
  BY DEF FinishLogin, End, Shape, Tracks, Current, InHand
<1>1. StoresTypeOK'
  BY DEF FinishLogin, End, Shape
<1>2. RequestsTypeOK'
  BY DEF FinishLogin, End, Shape, Steps
<1>3. Shape'
  BY DEF FinishLogin, End, Shape, Steps
<1>4. Known'
  BY DEF FinishLogin, End, Known, Shape, InHandIsIssued
<1>5. PairsAreIssued'
  BY DEF FinishLogin, End, PairsAreIssued, Shape, InHandIsIssued
<1>6. InHandIsIssued'
  BY DEF FinishLogin, End, InHandIsIssued, Shape, PairsAreIssued
<1>7. NewIsPrivate'
  BY DEF FinishLogin, End, NewIsPrivate, Shape, Known, PairsAreIssued, InHandIsIssued
<1>8. PresentedIsHeld'
  BY DEF FinishLogin, End, PresentedIsHeld, Shape
<1>9. ReservationIsExclusive'
  BY DEF FinishLogin, End, ReservationIsExclusive, Shape
<1>10. TouchIsCurrent'
  BY DEF FinishLogin, End, TouchIsCurrent, Shape, NewIsPrivate, ReservationIsExclusive
<1>11. HandedIsCurrent'
  BY <1>h DEF FinishLogin, End, HandedIsCurrent, Shape, NewIsPrivate, Current
<1>12. RotatedIsForgotten'
  BY DEF FinishLogin, End, RotatedIsForgotten, Shape, PairsAreIssued, InHandIsIssued,
     TouchIsCurrent
<1>13. StaleIsGone'
  BY DEF FinishLogin, End, StaleIsGone, Shape, NewIsPrivate
<1>14. LoadedIsCurrent'
  BY DEF FinishLogin, End, LoadedIsCurrent, Shape, NewIsPrivate
<1>15. HandedIsIndexed'
  BY <1>h DEF FinishLogin, End, HandedIsIndexed, Shape, NewIsPrivate, StaleIsGone,
     AllAreVisited, Current, Found, Visiting
<1>16. AllAreVisited'
  BY <1>h DEF FinishLogin, End, AllAreVisited, Shape, NewIsPrivate, HandedIsIndexed,
     LoadedIsCurrent, Current, Found, Visiting
<1>17. HandedIsRefused'
  BY <1>h DEF FinishLogin, End, HandedIsRefused, Shape, PairsAreIssued, NewIsPrivate,
     LoadedIsCurrent, RotatedIsForgotten, TouchIsCurrent, Current
<1>18. FamilyIsOwned'
  BY <1>t DEF FinishLogin, End, FamilyIsOwned, Shape, NewIsPrivate, RotatedIsForgotten,
     RevokedAreCaptured, LoadedIsCurrent, TouchIsCurrent, Owned, Current, Captured
<1>19. RevokedAreCaptured'
  BY DEF FinishLogin, End, RevokedAreCaptured, Shape, NewIsPrivate, Captured, Current, Indexed
<1>20. ReuseIsProven'
  BY DEF FinishLogin, End, ReuseIsProven, Shape, HandedIsCurrent, PresentedIsHeld, Current,
     Handed
<1> QED
  BY <1>1, <1>2, <1>3, <1>4, <1>5, <1>6, <1>7, <1>8, <1>9, <1>10, <1>11, <1>12, <1>13, <1>14,
     <1>15, <1>16, <1>17, <1>18, <1>19, <1>20 DEF SessionsInv, TypeOK

\* FailLogin preserves the invariant.
LEMMA FailLoginKeepsInv ==
    ASSUME SessionsInv, NEW p \in Request, FailLogin(p)
    PROVE  SessionsInv'
<1>h. \A x : Handed(x)' => Handed(x)
  BY DEF FailLogin, End, Fault, Shape, Handed
<1>t. \A q \in Request, x \in family' : Tracks(q, x) => Tracks(q, x)' \/ x \in abandoned'
  BY DEF FailLogin, End, Fault, Shape, Tracks, Current, InHand
<1>1. StoresTypeOK'
  BY DEF FailLogin, End, Fault, Shape
<1>2. RequestsTypeOK'
  BY DEF FailLogin, End, Fault, Shape, Steps
<1>3. Shape'
  BY DEF FailLogin, End, Fault, Shape, Steps
<1>4. Known'
  BY DEF FailLogin, End, Fault, Known, Shape, InHandIsIssued
<1>5. PairsAreIssued'
  BY DEF FailLogin, End, Fault, PairsAreIssued, Shape, InHandIsIssued
<1>6. InHandIsIssued'
  BY DEF FailLogin, End, Fault, InHandIsIssued, Shape, PairsAreIssued
<1>7. NewIsPrivate'
  BY DEF FailLogin, End, Fault, NewIsPrivate, Shape, Known, PairsAreIssued, InHandIsIssued
<1>8. PresentedIsHeld'
  BY DEF FailLogin, End, Fault, PresentedIsHeld, Shape
<1>9. ReservationIsExclusive'
  BY DEF FailLogin, End, Fault, ReservationIsExclusive, Shape
<1>10. TouchIsCurrent'
  BY DEF FailLogin, End, Fault, TouchIsCurrent, Shape, NewIsPrivate, ReservationIsExclusive
<1>11. HandedIsCurrent'
  BY <1>h DEF FailLogin, End, Fault, HandedIsCurrent, Shape, NewIsPrivate, Current
<1>12. RotatedIsForgotten'
  BY DEF FailLogin, End, Fault, RotatedIsForgotten, Shape, PairsAreIssued, InHandIsIssued,
     TouchIsCurrent
<1>13. StaleIsGone'
  BY DEF FailLogin, End, Fault, StaleIsGone, Shape, NewIsPrivate
<1>14. LoadedIsCurrent'
  BY DEF FailLogin, End, Fault, LoadedIsCurrent, Shape, NewIsPrivate
<1>15. HandedIsIndexed'
  BY <1>h DEF FailLogin, End, Fault, HandedIsIndexed, Shape, NewIsPrivate, StaleIsGone,
     AllAreVisited, Current, Found, Visiting
<1>16. AllAreVisited'
  BY <1>h DEF FailLogin, End, Fault, AllAreVisited, Shape, NewIsPrivate, HandedIsIndexed,
     LoadedIsCurrent, Current, Found, Visiting
<1>17. HandedIsRefused'
  BY <1>h DEF FailLogin, End, Fault, HandedIsRefused, Shape, PairsAreIssued, NewIsPrivate,
     LoadedIsCurrent, RotatedIsForgotten, TouchIsCurrent, Current
<1>18. FamilyIsOwned'
  BY <1>t DEF FailLogin, End, Fault, FamilyIsOwned, Shape, NewIsPrivate, RotatedIsForgotten,
     RevokedAreCaptured, LoadedIsCurrent, TouchIsCurrent, Owned, Current, Captured
<1>19. RevokedAreCaptured'
  BY DEF FailLogin, End, Fault, RevokedAreCaptured, Shape, NewIsPrivate, Captured, Current,
     Indexed
<1>20. ReuseIsProven'
  BY DEF FailLogin, End, Fault, ReuseIsProven, Shape, HandedIsCurrent, PresentedIsHeld,
     Current, Handed
<1> QED
  BY <1>1, <1>2, <1>3, <1>4, <1>5, <1>6, <1>7, <1>8, <1>9, <1>10, <1>11, <1>12, <1>13, <1>14,
     <1>15, <1>16, <1>17, <1>18, <1>19, <1>20 DEF SessionsInv, TypeOK

\* Refresh preserves the invariant.
LEMMA RefreshKeepsInv ==
    ASSUME SessionsInv, NEW p \in Request, NEW x \in Pair, Refresh(p, x)
    PROVE  SessionsInv'
<1>h. \A y : Handed(y)' => Handed(y)
  BY DEF Refresh, Begin, Shape, Handed
<1>t. \A q \in Request, y \in family' : Tracks(q, y) => Tracks(q, y)' \/ y \in abandoned'
  BY DEF Refresh, Begin, Shape, Tracks, Current, InHand
<1>1. StoresTypeOK'
  BY DEF Refresh, Begin, Shape
<1>2. RequestsTypeOK'
  BY DEF Refresh, Begin, Shape, Steps
<1>3. Shape'
  BY DEF Refresh, Begin, Shape, Steps
<1>4. Known'
  BY DEF Refresh, Begin, Known, Shape, InHandIsIssued
<1>5. PairsAreIssued'
  BY DEF Refresh, Begin, PairsAreIssued, Shape, InHandIsIssued
<1>6. InHandIsIssued'
  BY DEF Refresh, Begin, InHandIsIssued, Shape, PairsAreIssued
<1>7. NewIsPrivate'
  BY DEF Refresh, Begin, NewIsPrivate, Shape, Known, PairsAreIssued, InHandIsIssued
<1>8. PresentedIsHeld'
  BY DEF Refresh, Begin, PresentedIsHeld, Shape
<1>9. ReservationIsExclusive'
  BY DEF Refresh, Begin, ReservationIsExclusive, Shape
<1>10. TouchIsCurrent'
  BY DEF Refresh, Begin, TouchIsCurrent, Shape, NewIsPrivate, ReservationIsExclusive
<1>11. HandedIsCurrent'
  BY <1>h DEF Refresh, Begin, HandedIsCurrent, Shape, NewIsPrivate, Current
<1>12. RotatedIsForgotten'
  BY DEF Refresh, Begin, RotatedIsForgotten, Shape, PairsAreIssued, InHandIsIssued,
     TouchIsCurrent
<1>13. StaleIsGone'
  BY DEF Refresh, Begin, StaleIsGone, Shape, NewIsPrivate
<1>14. LoadedIsCurrent'
  BY DEF Refresh, Begin, LoadedIsCurrent, Shape, NewIsPrivate
<1>15. HandedIsIndexed'
  BY <1>h DEF Refresh, Begin, HandedIsIndexed, Shape, NewIsPrivate, StaleIsGone,
     AllAreVisited, Current, Found, Visiting
<1>16. AllAreVisited'
  BY <1>h DEF Refresh, Begin, AllAreVisited, Shape, NewIsPrivate, HandedIsIndexed,
     LoadedIsCurrent, Current, Found, Visiting
<1>17. HandedIsRefused'
  BY <1>h DEF Refresh, Begin, HandedIsRefused, Shape, PairsAreIssued, NewIsPrivate,
     LoadedIsCurrent, RotatedIsForgotten, TouchIsCurrent, Current
<1>18. FamilyIsOwned'
  BY <1>t DEF Refresh, Begin, FamilyIsOwned, Shape, NewIsPrivate, RotatedIsForgotten,
     RevokedAreCaptured, LoadedIsCurrent, TouchIsCurrent, Owned, Current, Captured
<1>19. RevokedAreCaptured'
  BY DEF Refresh, Begin, RevokedAreCaptured, Shape, NewIsPrivate, Captured, Current, Indexed
<1>20. ReuseIsProven'
  BY DEF Refresh, Begin, ReuseIsProven, Shape, HandedIsCurrent, PresentedIsHeld, Current,
     Handed
<1> QED
  BY <1>1, <1>2, <1>3, <1>4, <1>5, <1>6, <1>7, <1>8, <1>9, <1>10, <1>11, <1>12, <1>13, <1>14,
     <1>15, <1>16, <1>17, <1>18, <1>19, <1>20 DEF SessionsInv, TypeOK

\* CheckBlacklist preserves the invariant.
LEMMA CheckBlacklistKeepsInv ==
    ASSUME SessionsInv, NEW p \in Request, CheckBlacklist(p)
    PROVE  SessionsInv'
<1>h. \A x : Handed(x)' => Handed(x)
  BY DEF CheckBlacklist, GoTo, End, Fault, Shape, Handed
<1>t. \A q \in Request, x \in family' : Tracks(q, x) => Tracks(q, x)' \/ x \in abandoned'
  BY DEF CheckBlacklist, GoTo, End, Fault, Shape, Tracks, Current, InHand
<1>e. /\ at'[p] \notin Holding /\ reserved' = reserved
      /\ \A q \in Request \ {p} : at'[q] = at[q] /\ tok'[q] = tok[q]
  BY DEF CheckBlacklist, GoTo, End, Fault, Shape
<1>1. StoresTypeOK'
  BY DEF CheckBlacklist, GoTo, End, Fault, Shape
<1>2. RequestsTypeOK'
  <2>1. at' \in [Request -> Steps]
    BY DEF CheckBlacklist, GoTo, End, Fault, Shape, Steps
  <2>2. tok' \in [Request -> Pair \cup {NoPair}]
    BY DEF CheckBlacklist, GoTo, End, Fault, Shape, Steps
  <2>3. fresh' \in [Request -> 0..MaxPairs]
    BY DEF CheckBlacklist, GoTo, End, Fault, Shape, Steps
  <2>4. scope' \in [Request -> {"none", "one", "all"}]
    BY DEF CheckBlacklist, GoTo, End, Fault, Shape, Steps
  <2>5. rows' \in [Request -> SUBSET Pair]
    BY DEF CheckBlacklist, GoTo, End, Fault, Shape, Steps
  <2>6. work' \in [Request -> SUBSET Session]
    BY DEF CheckBlacklist, GoTo, End, Fault, Shape, Steps
  <2>7. stale' \in [Request -> SUBSET Session]
    BY DEF CheckBlacklist, GoTo, End, Fault, Shape, Steps
  <2>8. loaded' \in [Request -> Pair \cup {NoPair}]
    BY DEF CheckBlacklist, GoTo, End, Fault, Shape, Steps
  <2>9. failed' \in [Request -> BOOLEAN]
    BY DEF CheckBlacklist, GoTo, End, Fault, Shape, Steps
  <2> QED
    BY <2>1, <2>2, <2>3, <2>4, <2>5, <2>6, <2>7, <2>8, <2>9 DEF RequestsTypeOK
<1>3. Shape'
  BY DEF CheckBlacklist, GoTo, End, Fault, Shape, Steps
<1>4. Known'
  BY DEF CheckBlacklist, GoTo, End, Fault, Known, Shape, InHandIsIssued
<1>5. PairsAreIssued'
  BY DEF CheckBlacklist, GoTo, End, Fault, PairsAreIssued, Shape, InHandIsIssued
<1>6. InHandIsIssued'
  BY DEF CheckBlacklist, GoTo, End, Fault, InHandIsIssued, Shape, PairsAreIssued
<1>7. NewIsPrivate'
  BY SMTT(30) DEF CheckBlacklist, GoTo, End, Fault, NewIsPrivate, Shape, Known, PairsAreIssued,
     InHandIsIssued
<1>8. PresentedIsHeld'
  BY DEF CheckBlacklist, GoTo, End, Fault, PresentedIsHeld, Shape
<1>9. ReservationIsExclusive'
  BY <1>e DEF ReservationIsExclusive
<1>10. TouchIsCurrent'
  BY DEF CheckBlacklist, GoTo, End, Fault, TouchIsCurrent, Shape, NewIsPrivate,
     ReservationIsExclusive
<1>11. HandedIsCurrent'
  BY <1>h DEF CheckBlacklist, GoTo, End, Fault, HandedIsCurrent, Shape, NewIsPrivate, Current
<1>12. RotatedIsForgotten'
  BY DEF CheckBlacklist, GoTo, End, Fault, RotatedIsForgotten, Shape, PairsAreIssued,
     InHandIsIssued, TouchIsCurrent
<1>13. StaleIsGone'
  BY DEF CheckBlacklist, GoTo, End, Fault, StaleIsGone, Shape, NewIsPrivate
<1>14. LoadedIsCurrent'
  BY DEF CheckBlacklist, GoTo, End, Fault, LoadedIsCurrent, Shape, NewIsPrivate
<1>15. HandedIsIndexed'
  BY <1>h DEF CheckBlacklist, GoTo, End, Fault, HandedIsIndexed, Shape, NewIsPrivate,
     StaleIsGone, AllAreVisited, Current, Found, Visiting
<1>16. AllAreVisited'
  BY <1>h DEF CheckBlacklist, GoTo, End, Fault, AllAreVisited, Shape, NewIsPrivate,
     HandedIsIndexed, LoadedIsCurrent, Current, Found, Visiting
<1>17. HandedIsRefused'
  BY <1>h DEF CheckBlacklist, GoTo, End, Fault, HandedIsRefused, Shape, PairsAreIssued,
     NewIsPrivate, LoadedIsCurrent, RotatedIsForgotten, TouchIsCurrent, Current
<1>18. FamilyIsOwned'
  BY <1>t DEF CheckBlacklist, GoTo, End, Fault, FamilyIsOwned, Shape, NewIsPrivate,
     RotatedIsForgotten, RevokedAreCaptured, LoadedIsCurrent, TouchIsCurrent, Owned,
     Current, Captured
<1>19. RevokedAreCaptured'
  BY DEF CheckBlacklist, GoTo, End, Fault, RevokedAreCaptured, Shape, NewIsPrivate, Captured,
     Current, Indexed
<1>20. ReuseIsProven'
  BY DEF CheckBlacklist, GoTo, End, Fault, ReuseIsProven, Shape, HandedIsCurrent,
     PresentedIsHeld, Current, Handed
<1> QED
  BY <1>1, <1>2, <1>3, <1>4, <1>5, <1>6, <1>7, <1>8, <1>9, <1>10, <1>11, <1>12, <1>13, <1>14,
     <1>15, <1>16, <1>17, <1>18, <1>19, <1>20 DEF SessionsInv, TypeOK

\* Only one request gets the reservation.
LEMMA ReserveKeepsInv ==
    ASSUME SessionsInv, NEW p \in Request, Reserve(p)
    PROVE  SessionsInv'
<1>h. \A x : Handed(x)' => Handed(x)
  BY SMTT(30) DEF Reserve, GoTo, End, Fault, Shape, Handed
<1>t. \A q \in Request, x \in family' : Tracks(q, x) => Tracks(q, x)' \/ x \in abandoned'
  BY DEF Reserve, GoTo, End, Fault, Shape, Tracks, Current, InHand
<1>1. StoresTypeOK'
  BY DEF Reserve, GoTo, End, Fault, Shape
<1>2. RequestsTypeOK'
  <2>1. at' \in [Request -> Steps]
    BY SMTT(30) DEF Reserve, GoTo, End, Fault, Shape, Steps
  <2>2. tok' \in [Request -> Pair \cup {NoPair}]
    BY DEF Reserve, GoTo, End, Fault, Shape, Steps
  <2>3. fresh' \in [Request -> 0..MaxPairs]
    BY DEF Reserve, GoTo, End, Fault, Shape, Steps
  <2>4. scope' \in [Request -> {"none", "one", "all"}]
    BY DEF Reserve, GoTo, End, Fault, Shape, Steps
  <2>5. rows' \in [Request -> SUBSET Pair]
    BY DEF Reserve, GoTo, End, Fault, Shape, Steps
  <2>6. work' \in [Request -> SUBSET Session]
    BY DEF Reserve, GoTo, End, Fault, Shape, Steps
  <2>7. stale' \in [Request -> SUBSET Session]
    BY DEF Reserve, GoTo, End, Fault, Shape, Steps
  <2>8. loaded' \in [Request -> Pair \cup {NoPair}]
    BY DEF Reserve, GoTo, End, Fault, Shape, Steps
  <2>9. failed' \in [Request -> BOOLEAN]
    BY DEF Reserve, GoTo, End, Fault, Shape, Steps
  <2> QED
    BY <2>1, <2>2, <2>3, <2>4, <2>5, <2>6, <2>7, <2>8, <2>9 DEF RequestsTypeOK
<1>3. Shape'
  BY DEF Reserve, GoTo, End, Fault, Shape, Steps
<1>4. Known'
  BY DEF Reserve, GoTo, End, Fault, Known, Shape, InHandIsIssued
<1>5. PairsAreIssued'
  BY DEF Reserve, GoTo, End, Fault, PairsAreIssued, Shape, InHandIsIssued
<1>6. InHandIsIssued'
  BY DEF Reserve, GoTo, End, Fault, InHandIsIssued, Shape, PairsAreIssued
<1>7. NewIsPrivate'
  BY DEF Reserve, GoTo, End, Fault, NewIsPrivate, Shape, Known, PairsAreIssued, InHandIsIssued
<1>8. PresentedIsHeld'
  BY DEF Reserve, GoTo, End, Fault, PresentedIsHeld, Shape
<1>9. ReservationIsExclusive'
  <2>0. \A q \in Request \ {p} : at'[q] = at[q] /\ tok'[q] = tok[q]
    BY DEF Reserve, GoTo, End, Fault
  <2>1. CASE at'[p] = "resolving"
    <3>1. /\ tok[p] \notin reserved /\ reserved' = reserved \cup {tok[p]} /\ tok' = tok
      BY <2>1 DEF Reserve, GoTo, End, Fault
    <3> QED
      BY <2>0, <2>1, <3>1 DEF ReservationIsExclusive
  <2>2. CASE at'[p] # "resolving"
    <3>1. at'[p] = "idle" /\ reserved \subseteq reserved'
      BY <2>2 DEF Reserve, GoTo, End, Fault
    <3> QED
      BY <2>0, <3>1, SMTT(30) DEF ReservationIsExclusive
  <2> QED
    BY <2>1, <2>2
<1>10. TouchIsCurrent'
  BY DEF Reserve, GoTo, End, Fault, TouchIsCurrent, Shape, NewIsPrivate,
     ReservationIsExclusive
<1>11. HandedIsCurrent'
  BY <1>h DEF Reserve, GoTo, End, Fault, HandedIsCurrent, Shape, NewIsPrivate, Current
<1>12. RotatedIsForgotten'
  BY DEF Reserve, GoTo, End, Fault, RotatedIsForgotten, Shape, PairsAreIssued, InHandIsIssued,
     TouchIsCurrent
<1>13. StaleIsGone'
  BY DEF Reserve, GoTo, End, Fault, StaleIsGone, Shape, NewIsPrivate
<1>14. LoadedIsCurrent'
  BY DEF Reserve, GoTo, End, Fault, LoadedIsCurrent, Shape, NewIsPrivate
<1>15. HandedIsIndexed'
  BY <1>h DEF Reserve, GoTo, End, Fault, HandedIsIndexed, Shape, NewIsPrivate, StaleIsGone,
     AllAreVisited, Current, Found, Visiting
<1>16. AllAreVisited'
  BY <1>h DEF Reserve, GoTo, End, Fault, AllAreVisited, Shape, NewIsPrivate, HandedIsIndexed,
     LoadedIsCurrent, Current, Found, Visiting
<1>17. HandedIsRefused'
  BY <1>h DEF Reserve, GoTo, End, Fault, HandedIsRefused, Shape, PairsAreIssued, NewIsPrivate,
     LoadedIsCurrent, RotatedIsForgotten, TouchIsCurrent, Current
<1>18. FamilyIsOwned'
  BY <1>t DEF Reserve, GoTo, End, Fault, FamilyIsOwned, Shape, NewIsPrivate,
     RotatedIsForgotten, RevokedAreCaptured, LoadedIsCurrent, TouchIsCurrent, Owned,
     Current, Captured
<1>19. RevokedAreCaptured'
  BY DEF Reserve, GoTo, End, Fault, RevokedAreCaptured, Shape, NewIsPrivate, Captured,
     Current, Indexed
<1>20. ReuseIsProven'
  BY DEF Reserve, GoTo, End, Fault, ReuseIsProven, Shape, HandedIsCurrent, PresentedIsHeld,
     Current, Handed
<1> QED
  BY <1>1, <1>2, <1>3, <1>4, <1>5, <1>6, <1>7, <1>8, <1>9, <1>10, <1>11, <1>12, <1>13, <1>14,
     <1>15, <1>16, <1>17, <1>18, <1>19, <1>20 DEF SessionsInv, TypeOK

\* Resolve preserves the invariant.
LEMMA ResolveKeepsInv ==
    ASSUME SessionsInv, NEW p \in Request, Resolve(p)
    PROVE  SessionsInv'
<1>h. \A x : Handed(x)' => Handed(x)
  BY DEF Resolve, GoTo, Fault, Shape, Handed
<1>t. \A q \in Request, x \in family' : Tracks(q, x) => Tracks(q, x)' \/ x \in abandoned'
  BY DEF Resolve, GoTo, Fault, Shape, Tracks, Current, InHand
<1>1. StoresTypeOK'
  BY DEF Resolve, GoTo, Fault, Shape
<1>2. RequestsTypeOK'
  BY DEF Resolve, GoTo, Fault, Shape, Steps
<1>3. Shape'
  BY DEF Resolve, GoTo, Fault, Shape, Steps
<1>4. Known'
  BY DEF Resolve, GoTo, Fault, Known, Shape, InHandIsIssued
<1>5. PairsAreIssued'
  BY DEF Resolve, GoTo, Fault, PairsAreIssued, Shape, InHandIsIssued
<1>6. InHandIsIssued'
  BY DEF Resolve, GoTo, Fault, InHandIsIssued, Shape, PairsAreIssued
<1>7. NewIsPrivate'
  BY DEF Resolve, GoTo, Fault, NewIsPrivate, Shape, Known, PairsAreIssued, InHandIsIssued
<1>8. PresentedIsHeld'
  BY DEF Resolve, GoTo, Fault, PresentedIsHeld, Shape
<1>9. ReservationIsExclusive'
  BY DEF Resolve, GoTo, Fault, ReservationIsExclusive, Shape
<1>10. TouchIsCurrent'
  BY DEF Resolve, GoTo, Fault, TouchIsCurrent, Shape, NewIsPrivate, ReservationIsExclusive
<1>11. HandedIsCurrent'
  BY <1>h DEF Resolve, GoTo, Fault, HandedIsCurrent, Shape, NewIsPrivate, Current
<1>12. RotatedIsForgotten'
  BY DEF Resolve, GoTo, Fault, RotatedIsForgotten, Shape, PairsAreIssued, InHandIsIssued,
     TouchIsCurrent
<1>13. StaleIsGone'
  BY DEF Resolve, GoTo, Fault, StaleIsGone, Shape, NewIsPrivate
<1>14. LoadedIsCurrent'
  BY DEF Resolve, GoTo, Fault, LoadedIsCurrent, Shape, NewIsPrivate
<1>15. HandedIsIndexed'
  BY <1>h DEF Resolve, GoTo, Fault, HandedIsIndexed, Shape, NewIsPrivate, StaleIsGone,
     AllAreVisited, Current, Found, Visiting
<1>16. AllAreVisited'
  BY <1>h DEF Resolve, GoTo, Fault, AllAreVisited, Shape, NewIsPrivate, HandedIsIndexed,
     LoadedIsCurrent, Current, Found, Visiting
<1>17. HandedIsRefused'
  BY <1>h DEF Resolve, GoTo, Fault, HandedIsRefused, Shape, PairsAreIssued, NewIsPrivate,
     LoadedIsCurrent, RotatedIsForgotten, TouchIsCurrent, Current
<1>18. FamilyIsOwned'
  BY <1>t DEF Resolve, GoTo, Fault, FamilyIsOwned, Shape, NewIsPrivate, RotatedIsForgotten,
     RevokedAreCaptured, LoadedIsCurrent, TouchIsCurrent, Owned, Current, Captured
<1>19. RevokedAreCaptured'
  BY DEF Resolve, GoTo, Fault, RevokedAreCaptured, Shape, NewIsPrivate, Captured, Current,
     Indexed
<1>20. ReuseIsProven'
  BY DEF Resolve, GoTo, Fault, ReuseIsProven, Shape, HandedIsCurrent, PresentedIsHeld,
     Current, Handed
<1> QED
  BY <1>1, <1>2, <1>3, <1>4, <1>5, <1>6, <1>7, <1>8, <1>9, <1>10, <1>11, <1>12, <1>13, <1>14,
     <1>15, <1>16, <1>17, <1>18, <1>19, <1>20 DEF SessionsInv, TypeOK

\* Ask preserves the invariant.
LEMMA AskKeepsInv ==
    ASSUME SessionsInv, NEW p \in Request, Ask(p)
    PROVE  SessionsInv'
<1>h. \A x : Handed(x)' => Handed(x)
  BY DEF Ask, GoTo, Shape, Handed
<1>t. \A q \in Request, x \in family' : Tracks(q, x) => Tracks(q, x)' \/ x \in abandoned'
  BY DEF Ask, GoTo, Shape, Tracks, Current, InHand
<1>1. StoresTypeOK'
  BY DEF Ask, GoTo, Shape
<1>2. RequestsTypeOK'
  BY DEF Ask, GoTo, Shape, Steps
<1>3. Shape'
  BY DEF Ask, GoTo, Shape, Steps
<1>4. Known'
  BY DEF Ask, GoTo, Known, Shape, InHandIsIssued
<1>5. PairsAreIssued'
  BY DEF Ask, GoTo, PairsAreIssued, Shape, InHandIsIssued
<1>6. InHandIsIssued'
  BY DEF Ask, GoTo, InHandIsIssued, Shape, PairsAreIssued
<1>7. NewIsPrivate'
  BY DEF Ask, GoTo, NewIsPrivate, Shape, Known, PairsAreIssued, InHandIsIssued
<1>8. PresentedIsHeld'
  BY DEF Ask, GoTo, PresentedIsHeld, Shape
<1>9. ReservationIsExclusive'
  BY DEF Ask, GoTo, ReservationIsExclusive, Shape
<1>10. TouchIsCurrent'
  BY DEF Ask, GoTo, TouchIsCurrent, Shape, NewIsPrivate, ReservationIsExclusive
<1>11. HandedIsCurrent'
  BY <1>h DEF Ask, GoTo, HandedIsCurrent, Shape, NewIsPrivate, Current
<1>12. RotatedIsForgotten'
  BY DEF Ask, GoTo, RotatedIsForgotten, Shape, PairsAreIssued, InHandIsIssued, TouchIsCurrent
<1>13. StaleIsGone'
  BY DEF Ask, GoTo, StaleIsGone, Shape, NewIsPrivate
<1>14. LoadedIsCurrent'
  BY DEF Ask, GoTo, LoadedIsCurrent, Shape, NewIsPrivate
<1>15. HandedIsIndexed'
  BY <1>h DEF Ask, GoTo, HandedIsIndexed, Shape, NewIsPrivate, StaleIsGone, AllAreVisited,
     Current, Found, Visiting
<1>16. AllAreVisited'
  BY <1>h DEF Ask, GoTo, AllAreVisited, Shape, NewIsPrivate, HandedIsIndexed, LoadedIsCurrent,
     Current, Found, Visiting
<1>17. HandedIsRefused'
  BY <1>h DEF Ask, GoTo, HandedIsRefused, Shape, PairsAreIssued, NewIsPrivate,
     LoadedIsCurrent, RotatedIsForgotten, TouchIsCurrent, Current
<1>18. FamilyIsOwned'
  BY <1>t DEF Ask, GoTo, FamilyIsOwned, Shape, NewIsPrivate, RotatedIsForgotten,
     RevokedAreCaptured, LoadedIsCurrent, TouchIsCurrent, Owned, Current, Captured
<1>19. RevokedAreCaptured'
  BY DEF Ask, GoTo, RevokedAreCaptured, Shape, NewIsPrivate, Captured, Current, Indexed
<1>20. ReuseIsProven'
  BY DEF Ask, GoTo, ReuseIsProven, Shape, HandedIsCurrent, PresentedIsHeld, Current, Handed
<1> QED
  BY <1>1, <1>2, <1>3, <1>4, <1>5, <1>6, <1>7, <1>8, <1>9, <1>10, <1>11, <1>12, <1>13, <1>14,
     <1>15, <1>16, <1>17, <1>18, <1>19, <1>20 DEF SessionsInv, TypeOK

\* The new pair is nobody's yet, and the old one is forgotten.
LEMMA IssueKeepsInv ==
    ASSUME SessionsInv, NEW p \in Request, Issue(p)
    PROVE  SessionsInv'
<1>h. \A x : Handed(x)' => Handed(x)
  BY DEF Issue, GoTo, Fault, Shape, Handed
<1>t. \A q \in Request, x \in family' : Tracks(q, x) => Tracks(q, x)' \/ x \in abandoned'
  BY DEF Issue, GoTo, Fault, Shape, Tracks, Current, InHand
<1>1. StoresTypeOK'
  BY DEF Issue, GoTo, Fault, Shape
<1>2. RequestsTypeOK'
  <2>1. at' \in [Request -> Steps]
    BY DEF Issue, GoTo, Fault, Shape, Steps
  <2>2. tok' \in [Request -> Pair \cup {NoPair}]
    BY DEF Issue, GoTo, Fault, Shape, Steps
  <2>3. fresh' \in [Request -> 0..MaxPairs]
    BY DEF Issue, GoTo, Fault, Shape, Steps
  <2>4. scope' \in [Request -> {"none", "one", "all"}]
    BY DEF Issue, GoTo, Fault, Shape, Steps
  <2>5. rows' \in [Request -> SUBSET Pair]
    BY DEF Issue, GoTo, Fault, Shape, Steps
  <2>6. work' \in [Request -> SUBSET Session]
    BY DEF Issue, GoTo, Fault, Shape, Steps
  <2>7. stale' \in [Request -> SUBSET Session]
    BY DEF Issue, GoTo, Fault, Shape, Steps
  <2>8. loaded' \in [Request -> Pair \cup {NoPair}]
    BY DEF Issue, GoTo, Fault, Shape, Steps
  <2>9. failed' \in [Request -> BOOLEAN]
    BY DEF Issue, GoTo, Fault, Shape, Steps
  <2> QED
    BY <2>1, <2>2, <2>3, <2>4, <2>5, <2>6, <2>7, <2>8, <2>9 DEF RequestsTypeOK
<1>3. Shape'
  BY DEF Issue, GoTo, Fault, Shape, Steps
<1>4. Known'
  BY DEF Issue, GoTo, Fault, Known, Shape, InHandIsIssued
<1>5. PairsAreIssued'
  BY DEF Issue, GoTo, Fault, PairsAreIssued, Shape, InHandIsIssued
<1>6. InHandIsIssued'
  BY DEF Issue, GoTo, Fault, InHandIsIssued, Shape, PairsAreIssued
<1>7. NewIsPrivate'
  BY DEF Issue, GoTo, Fault, NewIsPrivate, Shape, Known, PairsAreIssued, InHandIsIssued
<1>8. PresentedIsHeld'
  BY DEF Issue, GoTo, Fault, PresentedIsHeld, Shape
<1>9. ReservationIsExclusive'
  BY DEF Issue, GoTo, Fault, ReservationIsExclusive, Shape
<1>10. TouchIsCurrent'
  BY DEF Issue, GoTo, Fault, TouchIsCurrent, Shape, NewIsPrivate, ReservationIsExclusive
<1>11. HandedIsCurrent'
  BY <1>h DEF Issue, GoTo, Fault, HandedIsCurrent, Shape, NewIsPrivate, Current
<1>12. RotatedIsForgotten'
  BY DEF Issue, GoTo, Fault, RotatedIsForgotten, Shape, PairsAreIssued, InHandIsIssued,
     TouchIsCurrent
<1>13. StaleIsGone'
  BY DEF Issue, GoTo, Fault, StaleIsGone, Shape, NewIsPrivate
<1>14. LoadedIsCurrent'
  BY DEF Issue, GoTo, Fault, LoadedIsCurrent, Shape, NewIsPrivate
<1>15. HandedIsIndexed'
  BY <1>h DEF Issue, GoTo, Fault, HandedIsIndexed, Shape, NewIsPrivate, StaleIsGone,
     AllAreVisited, Current, Found, Visiting
<1>16. AllAreVisited'
  BY <1>h DEF Issue, GoTo, Fault, AllAreVisited, Shape, NewIsPrivate, HandedIsIndexed,
     LoadedIsCurrent, Current, Found, Visiting
<1>17. HandedIsRefused'
  <2> SUFFICES ASSUME NEW y \in Pair, Handed(y)'
               PROVE  (y = Current(y[1]) \/ y \notin family \/ y \in bannedAccess \/ y[1] \in raced)'
    BY DEF HandedIsRefused
  <2>1. Handed(y) /\ y[1] \in Session /\ y[2] <= issued[y[1]]
    BY <1>h, HandedIsIssued
  <2>2. y # <<Ses(p), issued[Ses(p)] + 1>>
    BY <2>1 DEF Issue, GoTo, Fault, HandedIsRefused, Shape, PairsAreIssued, NewIsPrivate,
       LoadedIsCurrent,
     RotatedIsForgotten, TouchIsCurrent, Current
  <2> QED
    BY <2>1, <2>2 DEF Issue, GoTo, Fault, HandedIsRefused, Shape, PairsAreIssued,
       NewIsPrivate, LoadedIsCurrent,
     RotatedIsForgotten, TouchIsCurrent, Current
<1>18. FamilyIsOwned'
  <2> SUFFICES ASSUME NEW y \in family'
               PROVE  Owned(y)'
    BY DEF FamilyIsOwned
  <2>1. CASE y = <<Ses(p), issued[Ses(p)] + 1>>
    <3>1. CASE at'[p] = "verifying"
      <4>1. Tracks(p, y)'
        BY <2>1, <3>1 DEF Issue, GoTo, Fault, FamilyIsOwned, Shape, NewIsPrivate,
           RotatedIsForgotten,
     RevokedAreCaptured, LoadedIsCurrent, TouchIsCurrent, Tracks, Owned, Current, Captured
      <4> QED
        BY <4>1 DEF Owned
    <3>2. CASE at'[p] # "verifying"
      BY <2>1, <3>2 DEF Issue, GoTo, Fault, FamilyIsOwned, Shape, NewIsPrivate, RotatedIsForgotten,
     RevokedAreCaptured, LoadedIsCurrent, TouchIsCurrent, Tracks, Owned, Current, Captured
    <3> QED
      BY <3>1, <3>2
  <2>2. CASE y \in family
    BY <2>2, <1>t DEF FamilyIsOwned, Owned, Current, Issue, GoTo, Fault, redisVars
  <2> QED
    BY <2>1, <2>2 DEF Issue
<1>19. RevokedAreCaptured'
  BY DEF Issue, GoTo, Fault, RevokedAreCaptured, Shape, NewIsPrivate, Captured, Current,
     Indexed
<1>20. ReuseIsProven'
  BY DEF Issue, GoTo, Fault, ReuseIsProven, Shape, HandedIsCurrent, PresentedIsHeld, Current,
     Handed
<1> QED
  BY <1>1, <1>2, <1>3, <1>4, <1>5, <1>6, <1>7, <1>8, <1>9, <1>10, <1>11, <1>12, <1>13, <1>14,
     <1>15, <1>16, <1>17, <1>18, <1>19, <1>20 DEF SessionsInv, TypeOK

\* Verify preserves the invariant.
LEMMA VerifyKeepsInv ==
    ASSUME SessionsInv, NEW p \in Request, Verify(p)
    PROVE  SessionsInv'
<1>h. \A x : Handed(x)' => Handed(x)
  BY DEF Verify, GoTo, Shape, Handed
<1>t. \A q \in Request, x \in family' : Tracks(q, x) => Tracks(q, x)' \/ x \in abandoned'
  BY DEF Verify, GoTo, Shape, Tracks, Current, InHand
<1>1. StoresTypeOK'
  BY DEF Verify, GoTo, Shape
<1>2. RequestsTypeOK'
  BY DEF Verify, GoTo, Shape, Steps
<1>3. Shape'
  BY DEF Verify, GoTo, Shape, Steps
<1>4. Known'
  BY DEF Verify, GoTo, Known, Shape, InHandIsIssued
<1>5. PairsAreIssued'
  BY DEF Verify, GoTo, PairsAreIssued, Shape, InHandIsIssued
<1>6. InHandIsIssued'
  BY DEF Verify, GoTo, InHandIsIssued, Shape, PairsAreIssued
<1>7. NewIsPrivate'
  BY DEF Verify, GoTo, NewIsPrivate, Shape, Known, PairsAreIssued, InHandIsIssued
<1>8. PresentedIsHeld'
  BY DEF Verify, GoTo, PresentedIsHeld, Shape
<1>9. ReservationIsExclusive'
  BY DEF Verify, GoTo, ReservationIsExclusive, Shape
<1>10. TouchIsCurrent'
  BY DEF Verify, GoTo, TouchIsCurrent, Shape, NewIsPrivate, ReservationIsExclusive
<1>11. HandedIsCurrent'
  BY <1>h DEF Verify, GoTo, HandedIsCurrent, Shape, NewIsPrivate, Current
<1>12. RotatedIsForgotten'
  BY DEF Verify, GoTo, RotatedIsForgotten, Shape, PairsAreIssued, InHandIsIssued,
     TouchIsCurrent
<1>13. StaleIsGone'
  BY DEF Verify, GoTo, StaleIsGone, Shape, NewIsPrivate
<1>14. LoadedIsCurrent'
  BY DEF Verify, GoTo, LoadedIsCurrent, Shape, NewIsPrivate
<1>15. HandedIsIndexed'
  BY <1>h DEF Verify, GoTo, HandedIsIndexed, Shape, NewIsPrivate, StaleIsGone, AllAreVisited,
     Current, Found, Visiting
<1>16. AllAreVisited'
  BY <1>h DEF Verify, GoTo, AllAreVisited, Shape, NewIsPrivate, HandedIsIndexed,
     LoadedIsCurrent, Current, Found, Visiting
<1>17. HandedIsRefused'
  BY <1>h DEF Verify, GoTo, HandedIsRefused, Shape, PairsAreIssued, NewIsPrivate,
     LoadedIsCurrent, RotatedIsForgotten, TouchIsCurrent, Current
<1>18. FamilyIsOwned'
  BY <1>t DEF Verify, GoTo, FamilyIsOwned, Shape, NewIsPrivate, RotatedIsForgotten,
     RevokedAreCaptured, LoadedIsCurrent, TouchIsCurrent, Owned, Current, Captured
<1>19. RevokedAreCaptured'
  BY DEF Verify, GoTo, RevokedAreCaptured, Shape, NewIsPrivate, Captured, Current, Indexed
<1>20. ReuseIsProven'
  BY DEF Verify, GoTo, ReuseIsProven, Shape, HandedIsCurrent, PresentedIsHeld, Current, Handed
<1> QED
  BY <1>1, <1>2, <1>3, <1>4, <1>5, <1>6, <1>7, <1>8, <1>9, <1>10, <1>11, <1>12, <1>13, <1>14,
     <1>15, <1>16, <1>17, <1>18, <1>19, <1>20 DEF SessionsInv, TypeOK

\* Touch replaces the pair its request presented, or nothing.
LEMMA TouchKeepsInv ==
    ASSUME SessionsInv, NEW p \in Request, Touch(p)
    PROVE  SessionsInv'
<1>h. \A x : Handed(x)' => Handed(x) \/ (at'[p] = "retiring" /\ x = Fresh(p))
  BY DEF Touch, GoTo, Rotate, Commit, Revokes, Fault, Shape, Handed
<1>t. \A q \in Request, x \in family' : Tracks(q, x) => Tracks(q, x)' \/ x \in abandoned'
                                       \/ x = Current(x[1])'
  BY DEF Touch, GoTo, Rotate, Commit, Revokes, Fault, Shape, Tracks, Current, InHand
<1>a. /\ tok[p] \in Pair /\ tok[p] \in held /\ tok[p] \notin family
      /\ Ses(p) \in Session /\ fresh[p] \in 1..MaxPairs
      /\ stored[Ses(p)] \in {0, tok[p][2]}
  BY DEF Touch, GoTo, Rotate, Commit, Revokes, Fault, Shape, PresentedIsHeld,
     RotatedIsForgotten, TouchIsCurrent
<1>b. /\ UNCHANGED <<family, issued, held, bannedAccess, bannedRefresh, abandoned, tok, fresh, revokeVars>>
      /\ \A q \in Request \ {p} : at'[q] = at[q]
      /\ at[p] = "touching" /\ at'[p] \in {"retiring", "compensating"}
  BY DEF Touch, GoTo, Rotate, Commit, Revokes, Fault, Shape
<1>c. (at'[p] = "compensating" /\ UNCHANGED <<stored, index, rotated, raced>>) \/ Rotate(p)
  BY DEF Touch, GoTo, Rotate, Commit, Revokes, Fault, Shape
<1>d. Rotate(p) => /\ rotated' = rotated \cup {tok[p]} /\ tok[p] = Current(Ses(p))
                   /\ stored'[Ses(p)] = fresh[p]
                   /\ \A r \in Session \ {Ses(p)} : stored'[r] = stored[r]
  BY DEF Touch, GoTo, Rotate, Commit, Revokes, Fault, Shape, Current, TouchIsCurrent
<1>1. StoresTypeOK'
  BY DEF Touch, GoTo, Rotate, Commit, Revokes, Fault, Shape
<1>2. RequestsTypeOK'
  BY SMTT(30) DEF Touch, GoTo, Rotate, Commit, Revokes, Fault, Shape, Steps
<1>3. Shape'
  BY DEF Touch, GoTo, Rotate, Commit, Revokes, Fault, Shape, Steps
<1>4. Known'
  BY DEF Touch, GoTo, Rotate, Commit, Revokes, Fault, Known, Shape, InHandIsIssued
<1>5. PairsAreIssued'
  BY <1>a, <1>b, <1>c, <1>d DEF PairsAreIssued
<1>6. InHandIsIssued'
  BY DEF Touch, GoTo, Rotate, Commit, Revokes, Fault, InHandIsIssued, Shape, PairsAreIssued
<1>7. NewIsPrivate'
  BY DEF Touch, GoTo, Rotate, Commit, Revokes, Fault, NewIsPrivate, Shape, Known,
     PairsAreIssued, InHandIsIssued
<1>8. PresentedIsHeld'
  BY DEF Touch, GoTo, Rotate, Commit, Revokes, Fault, PresentedIsHeld, Shape
<1>9. ReservationIsExclusive'
  BY DEF Touch, GoTo, Rotate, Commit, Revokes, Fault, ReservationIsExclusive, Shape
<1>10. TouchIsCurrent'
  BY SMTT(30) DEF Touch, GoTo, Rotate, Commit, Revokes, Fault, TouchIsCurrent, Shape, NewIsPrivate,
     ReservationIsExclusive
<1>11. HandedIsCurrent'
  <2> SUFFICES ASSUME NEW y \in Pair, Handed(y)'
               PROVE  (y = Current(y[1]) \/ stored[y[1]] = 0 \/ y \in rotated)'
    BY DEF HandedIsCurrent
  <2>1. CASE Rotate(p)
    <3>1. CASE Handed(y)
      BY <1>a, <1>d, <2>1, <3>1 DEF HandedIsCurrent, Current
    <3>2. CASE y = Fresh(p)
      BY <1>a, <1>d, <2>1, <3>2 DEF Fresh, Current, Ses
    <3> QED
      BY <1>h, <3>1, <3>2
  <2>2. CASE at'[p] = "compensating" /\ UNCHANGED <<stored, index, rotated, raced>>
    BY <1>h, <2>2 DEF HandedIsCurrent, Current
  <2> QED
    BY <1>c, <2>1, <2>2
<1>12. RotatedIsForgotten'
  BY <1>a, <1>b, <1>c, <1>d DEF RotatedIsForgotten
<1>13. StaleIsGone'
  BY DEF Touch, GoTo, Rotate, Commit, Revokes, Fault, StaleIsGone, Shape, NewIsPrivate
<1>14. LoadedIsCurrent'
  BY DEF Touch, GoTo, Rotate, Commit, Revokes, Fault, LoadedIsCurrent, Shape, NewIsPrivate
<1>15. HandedIsIndexed'
  <2> SUFFICES ASSUME NEW r \in Session, stored'[r] # 0, Handed(Current(r))'
               PROVE  (r \in index \/ Found(r))'
    BY DEF HandedIsIndexed
  <2>1. CASE Rotate(p)
    <3>1. CASE r # Ses(p)
      <4>1. Current(r)' = Current(r) /\ stored[r] # 0
        BY <1>d, <2>1, <3>1 DEF Current
      <4>2. Handed(Current(r))
        BY <1>h, <3>1, <4>1 DEF Fresh, Current
      <4> QED
        BY <1>b, <2>1, <4>1, <4>2 DEF HandedIsIndexed, Found, Rotate, Commit
    <3> QED
      BY <2>1, <3>1 DEF Rotate
  <2>2. CASE at'[p] = "compensating" /\ UNCHANGED <<stored, index, rotated, raced>>
    BY <1>b, <1>h, <2>2 DEF HandedIsIndexed, Current, Found
  <2> QED
    BY <1>c, <2>1, <2>2
<1>16. AllAreVisited'
  <2> SUFFICES ASSUME NEW q \in Request, NEW r \in Session, Visiting(q)',
                      stored'[r] # 0, Handed(Current(r))'
               PROVE  (r \in work[q] \/ Found(r) \/ loaded[q] = Current(r))'
    BY DEF AllAreVisited
  <2>1. CASE Rotate(p)
    <3>1. CASE r # Ses(p)
      <4>1. Current(r)' = Current(r) /\ stored[r] # 0
        BY <1>d, <2>1, <3>1 DEF Current
      <4>2. Handed(Current(r))
        BY <1>h, <3>1, <4>1 DEF Fresh, Current
      <4> QED
        BY <1>b, <2>1, <4>1, <4>2 DEF AllAreVisited, Visiting, Found, Rotate, Commit,
           revokeVars, Ending
    <3>2. CASE r = Ses(p)
      BY <1>b, <2>1, <3>2 DEF Rotate, Commit, Revokes, Visiting, Found, revokeVars
    <3> QED
      BY <3>1, <3>2
  <2>2. CASE at'[p] = "compensating" /\ UNCHANGED <<stored, index, rotated, raced>>
    <3>1. Current(r)' = Current(r) /\ stored[r] # 0 /\ Handed(Current(r))
      BY <1>h, <2>2 DEF Current
    <3> QED
      BY <1>b, <2>2, <3>1 DEF AllAreVisited, Visiting, Found, revokeVars, Ending
  <2> QED
    BY <1>c, <2>1, <2>2
<1>17. HandedIsRefused'
  <2> SUFFICES ASSUME NEW y \in Pair, Handed(y)'
               PROVE  (y = Current(y[1]) \/ y \notin family \/ y \in bannedAccess \/ y[1] \in raced)'
    BY DEF HandedIsRefused
  <2>1. CASE Rotate(p)
    <3>1. CASE Handed(y)
      BY <1>a, <1>b, <1>d, <2>1, <3>1 DEF HandedIsRefused, Current, Rotate, Commit
    <3>2. CASE y = Fresh(p)
      BY <1>a, <1>d, <2>1, <3>2 DEF Fresh, Current, Ses
    <3> QED
      BY <1>h, <3>1, <3>2
  <2>2. CASE at'[p] = "compensating" /\ UNCHANGED <<stored, index, rotated, raced>>
    BY <1>b, <1>h, <2>2 DEF HandedIsRefused, Current
  <2> QED
    BY <1>c, <2>1, <2>2
<1>18. FamilyIsOwned'
  <2> SUFFICES ASSUME NEW y \in family'
               PROVE  Owned(y)'
    BY DEF FamilyIsOwned
  <2>1. Owned(y) /\ y \in Pair
    BY <1>b DEF FamilyIsOwned, TypeOK, StoresTypeOK
  <2>2. CASE y = Current(y[1])
    BY <1>a, <1>b, <1>c, <1>d, <2>1, <2>2 DEF Owned, Current
  <2>3. CASE y # Current(y[1])
    BY <1>b, <1>c, <1>t, <2>1, <2>3 DEF Owned, Rotate, Commit
  <2> QED
    BY <2>2, <2>3
<1>19. RevokedAreCaptured'
  BY DEF Touch, GoTo, Rotate, Commit, Revokes, Fault, RevokedAreCaptured, Shape, NewIsPrivate,
     Captured, Current, Indexed
<1>20. ReuseIsProven'
  BY DEF Touch, GoTo, Rotate, Commit, Revokes, Fault, ReuseIsProven, Shape, HandedIsCurrent,
     PresentedIsHeld, Current, Handed
<1> QED
  BY <1>1, <1>2, <1>3, <1>4, <1>5, <1>6, <1>7, <1>8, <1>9, <1>10, <1>11, <1>12, <1>13, <1>14,
     <1>15, <1>16, <1>17, <1>18, <1>19, <1>20 DEF SessionsInv, TypeOK

\* Retire preserves the invariant.
LEMMA RetireKeepsInv ==
    ASSUME SessionsInv, NEW p \in Request, Retire(p)
    PROVE  SessionsInv'
<1>h. \A x : Handed(x)' => Handed(x)
  BY DEF Retire, End, Fault, Shape, Handed
<1>t. \A q \in Request, x \in family' : Tracks(q, x) => Tracks(q, x)' \/ x \in abandoned'
  BY DEF Retire, End, Fault, Shape, Tracks, Current, InHand
<1>1. StoresTypeOK'
  BY DEF Retire, End, Fault, Shape
<1>2. RequestsTypeOK'
  BY DEF Retire, End, Fault, Shape, Steps
<1>3. Shape'
  BY DEF Retire, End, Fault, Shape, Steps
<1>4. Known'
  BY DEF Retire, End, Fault, Known, Shape, InHandIsIssued
<1>5. PairsAreIssued'
  BY DEF Retire, End, Fault, PairsAreIssued, Shape, InHandIsIssued
<1>6. InHandIsIssued'
  BY DEF Retire, End, Fault, InHandIsIssued, Shape, PairsAreIssued
<1>7. NewIsPrivate'
  BY DEF Retire, End, Fault, NewIsPrivate, Shape, Known, PairsAreIssued, InHandIsIssued
<1>8. PresentedIsHeld'
  BY DEF Retire, End, Fault, PresentedIsHeld, Shape
<1>9. ReservationIsExclusive'
  BY DEF Retire, End, Fault, ReservationIsExclusive, Shape
<1>10. TouchIsCurrent'
  BY DEF Retire, End, Fault, TouchIsCurrent, Shape, NewIsPrivate, ReservationIsExclusive
<1>11. HandedIsCurrent'
  BY <1>h DEF Retire, End, Fault, HandedIsCurrent, Shape, NewIsPrivate, Current
<1>12. RotatedIsForgotten'
  BY DEF Retire, End, Fault, RotatedIsForgotten, Shape, PairsAreIssued, InHandIsIssued,
     TouchIsCurrent
<1>13. StaleIsGone'
  BY DEF Retire, End, Fault, StaleIsGone, Shape, NewIsPrivate
<1>14. LoadedIsCurrent'
  BY DEF Retire, End, Fault, LoadedIsCurrent, Shape, NewIsPrivate
<1>15. HandedIsIndexed'
  BY <1>h DEF Retire, End, Fault, HandedIsIndexed, Shape, NewIsPrivate, StaleIsGone,
     AllAreVisited, Current, Found, Visiting
<1>16. AllAreVisited'
  BY <1>h DEF Retire, End, Fault, AllAreVisited, Shape, NewIsPrivate, HandedIsIndexed,
     LoadedIsCurrent, Current, Found, Visiting
<1>17. HandedIsRefused'
  BY <1>h DEF Retire, End, Fault, HandedIsRefused, Shape, PairsAreIssued, NewIsPrivate,
     LoadedIsCurrent, RotatedIsForgotten, TouchIsCurrent, Current
<1>18. FamilyIsOwned'
  BY <1>t DEF Retire, End, Fault, FamilyIsOwned, Shape, NewIsPrivate, RotatedIsForgotten,
     RevokedAreCaptured, LoadedIsCurrent, TouchIsCurrent, Owned, Current, Captured
<1>19. RevokedAreCaptured'
  BY DEF Retire, End, Fault, RevokedAreCaptured, Shape, NewIsPrivate, Captured, Current,
     Indexed
<1>20. ReuseIsProven'
  BY DEF Retire, End, Fault, ReuseIsProven, Shape, HandedIsCurrent, PresentedIsHeld, Current,
     Handed
<1> QED
  BY <1>1, <1>2, <1>3, <1>4, <1>5, <1>6, <1>7, <1>8, <1>9, <1>10, <1>11, <1>12, <1>13, <1>14,
     <1>15, <1>16, <1>17, <1>18, <1>19, <1>20 DEF SessionsInv, TypeOK

\* Compensate preserves the invariant.
LEMMA CompensateKeepsInv ==
    ASSUME SessionsInv, NEW p \in Request, Compensate(p)
    PROVE  SessionsInv'
<1>h. \A x : Handed(x)' => Handed(x)
  BY DEF Compensate, GoTo, Fault, Shape, Handed
<1>t. \A q \in Request, x \in family' : Tracks(q, x) => Tracks(q, x)' \/ x \in abandoned'
  BY DEF Compensate, GoTo, Fault, Shape, Tracks, Current, InHand
<1>1. StoresTypeOK'
  BY DEF Compensate, GoTo, Fault, Shape
<1>2. RequestsTypeOK'
  BY DEF Compensate, GoTo, Fault, Shape, Steps
<1>3. Shape'
  BY DEF Compensate, GoTo, Fault, Shape, Steps
<1>4. Known'
  BY DEF Compensate, GoTo, Fault, Known, Shape, InHandIsIssued
<1>5. PairsAreIssued'
  BY DEF Compensate, GoTo, Fault, PairsAreIssued, Shape, InHandIsIssued
<1>6. InHandIsIssued'
  BY DEF Compensate, GoTo, Fault, InHandIsIssued, Shape, PairsAreIssued
<1>7. NewIsPrivate'
  BY DEF Compensate, GoTo, Fault, NewIsPrivate, Shape, Known, PairsAreIssued, InHandIsIssued
<1>8. PresentedIsHeld'
  BY DEF Compensate, GoTo, Fault, PresentedIsHeld, Shape
<1>9. ReservationIsExclusive'
  BY DEF Compensate, GoTo, Fault, ReservationIsExclusive, Shape
<1>10. TouchIsCurrent'
  BY DEF Compensate, GoTo, Fault, TouchIsCurrent, Shape, NewIsPrivate, ReservationIsExclusive
<1>11. HandedIsCurrent'
  BY <1>h DEF Compensate, GoTo, Fault, HandedIsCurrent, Shape, NewIsPrivate, Current
<1>12. RotatedIsForgotten'
  BY DEF Compensate, GoTo, Fault, RotatedIsForgotten, Shape, PairsAreIssued, InHandIsIssued,
     TouchIsCurrent
<1>13. StaleIsGone'
  BY DEF Compensate, GoTo, Fault, StaleIsGone, Shape, NewIsPrivate
<1>14. LoadedIsCurrent'
  BY DEF Compensate, GoTo, Fault, LoadedIsCurrent, Shape, NewIsPrivate
<1>15. HandedIsIndexed'
  BY <1>h DEF Compensate, GoTo, Fault, HandedIsIndexed, Shape, NewIsPrivate, StaleIsGone,
     AllAreVisited, Current, Found, Visiting
<1>16. AllAreVisited'
  BY <1>h DEF Compensate, GoTo, Fault, AllAreVisited, Shape, NewIsPrivate, HandedIsIndexed,
     LoadedIsCurrent, Current, Found, Visiting
<1>17. HandedIsRefused'
  BY <1>h DEF Compensate, GoTo, Fault, HandedIsRefused, Shape, PairsAreIssued, NewIsPrivate,
     LoadedIsCurrent, RotatedIsForgotten, TouchIsCurrent, Current
<1>18. FamilyIsOwned'
  BY <1>t DEF Compensate, GoTo, Fault, FamilyIsOwned, Shape, NewIsPrivate, RotatedIsForgotten,
     RevokedAreCaptured, LoadedIsCurrent, TouchIsCurrent, Owned, Current, Captured
<1>19. RevokedAreCaptured'
  BY DEF Compensate, GoTo, Fault, RevokedAreCaptured, Shape, NewIsPrivate, Captured, Current,
     Indexed
<1>20. ReuseIsProven'
  BY DEF Compensate, GoTo, Fault, ReuseIsProven, Shape, HandedIsCurrent, PresentedIsHeld,
     Current, Handed
<1> QED
  BY <1>1, <1>2, <1>3, <1>4, <1>5, <1>6, <1>7, <1>8, <1>9, <1>10, <1>11, <1>12, <1>13, <1>14,
     <1>15, <1>16, <1>17, <1>18, <1>19, <1>20 DEF SessionsInv, TypeOK

\* Release preserves the invariant.
LEMMA ReleaseKeepsInv ==
    ASSUME SessionsInv, NEW p \in Request, Release(p)
    PROVE  SessionsInv'
<1>h. \A x : Handed(x)' => Handed(x)
  BY DEF Release, End, Fault, Shape, Handed
<1>t. \A q \in Request, x \in family' : Tracks(q, x) => Tracks(q, x)' \/ x \in abandoned'
  BY DEF Release, End, Fault, Shape, Tracks, Current, InHand
<1>1. StoresTypeOK'
  BY DEF Release, End, Fault, Shape
<1>2. RequestsTypeOK'
  BY DEF Release, End, Fault, Shape, Steps
<1>3. Shape'
  BY DEF Release, End, Fault, Shape, Steps
<1>4. Known'
  BY DEF Release, End, Fault, Known, Shape, InHandIsIssued
<1>5. PairsAreIssued'
  BY DEF Release, End, Fault, PairsAreIssued, Shape, InHandIsIssued
<1>6. InHandIsIssued'
  BY DEF Release, End, Fault, InHandIsIssued, Shape, PairsAreIssued
<1>7. NewIsPrivate'
  BY DEF Release, End, Fault, NewIsPrivate, Shape, Known, PairsAreIssued, InHandIsIssued
<1>8. PresentedIsHeld'
  BY DEF Release, End, Fault, PresentedIsHeld, Shape
<1>9. ReservationIsExclusive'
  BY DEF Release, End, Fault, ReservationIsExclusive, Shape
<1>10. TouchIsCurrent'
  BY DEF Release, End, Fault, TouchIsCurrent, Shape, NewIsPrivate, ReservationIsExclusive
<1>11. HandedIsCurrent'
  BY <1>h DEF Release, End, Fault, HandedIsCurrent, Shape, NewIsPrivate, Current
<1>12. RotatedIsForgotten'
  BY DEF Release, End, Fault, RotatedIsForgotten, Shape, PairsAreIssued, InHandIsIssued,
     TouchIsCurrent
<1>13. StaleIsGone'
  BY DEF Release, End, Fault, StaleIsGone, Shape, NewIsPrivate
<1>14. LoadedIsCurrent'
  BY DEF Release, End, Fault, LoadedIsCurrent, Shape, NewIsPrivate
<1>15. HandedIsIndexed'
  BY <1>h DEF Release, End, Fault, HandedIsIndexed, Shape, NewIsPrivate, StaleIsGone,
     AllAreVisited, Current, Found, Visiting
<1>16. AllAreVisited'
  BY <1>h DEF Release, End, Fault, AllAreVisited, Shape, NewIsPrivate, HandedIsIndexed,
     LoadedIsCurrent, Current, Found, Visiting
<1>17. HandedIsRefused'
  BY <1>h DEF Release, End, Fault, HandedIsRefused, Shape, PairsAreIssued, NewIsPrivate,
     LoadedIsCurrent, RotatedIsForgotten, TouchIsCurrent, Current
<1>18. FamilyIsOwned'
  BY <1>t DEF Release, End, Fault, FamilyIsOwned, Shape, NewIsPrivate, RotatedIsForgotten,
     RevokedAreCaptured, LoadedIsCurrent, TouchIsCurrent, Owned, Current, Captured
<1>19. RevokedAreCaptured'
  BY DEF Release, End, Fault, RevokedAreCaptured, Shape, NewIsPrivate, Captured, Current,
     Indexed
<1>20. ReuseIsProven'
  BY DEF Release, End, Fault, ReuseIsProven, Shape, HandedIsCurrent, PresentedIsHeld, Current,
     Handed
<1> QED
  BY <1>1, <1>2, <1>3, <1>4, <1>5, <1>6, <1>7, <1>8, <1>9, <1>10, <1>11, <1>12, <1>13, <1>14,
     <1>15, <1>16, <1>17, <1>18, <1>19, <1>20 DEF SessionsInv, TypeOK

\* A reservation expires that no request needs.
LEMMA LapseKeepsInv ==
    ASSUME SessionsInv, NEW x \in Pair, Lapse(x)
    PROVE  SessionsInv'
<1>h. \A y : Handed(y)' = Handed(y)
  BY DEF Lapse, Holds, Shape, Handed
<1>t. \A q \in Request : \A y : Tracks(q, y)' = Tracks(q, y)
  BY DEF Lapse, Holds, Shape, Tracks
<1>1. StoresTypeOK'
  BY DEF Lapse, Holds, Shape
<1>2. RequestsTypeOK'
  BY DEF Lapse, Holds, Shape, Steps
<1>3. Shape'
  BY DEF Lapse, Holds, Shape, Steps
<1>4. Known'
  BY DEF Lapse, Holds, Known, Shape, InHandIsIssued
<1>5. PairsAreIssued'
  BY DEF Lapse, Holds, PairsAreIssued, Shape, InHandIsIssued
<1>6. InHandIsIssued'
  BY DEF Lapse, Holds, InHandIsIssued, Shape, PairsAreIssued
<1>7. NewIsPrivate'
  BY DEF Lapse, Holds, NewIsPrivate, Shape, Known, PairsAreIssued, InHandIsIssued
<1>8. PresentedIsHeld'
  BY DEF Lapse, Holds, PresentedIsHeld, Shape
<1>9. ReservationIsExclusive'
  BY DEF Lapse, Holds, ReservationIsExclusive, Shape
<1>10. TouchIsCurrent'
  BY DEF Lapse, Holds, TouchIsCurrent, Shape, NewIsPrivate, ReservationIsExclusive
<1>11. HandedIsCurrent'
  BY <1>h DEF Lapse, Holds, HandedIsCurrent, Shape, NewIsPrivate, Current
<1>12. RotatedIsForgotten'
  BY DEF Lapse, Holds, RotatedIsForgotten, Shape, PairsAreIssued, InHandIsIssued,
     TouchIsCurrent
<1>13. StaleIsGone'
  BY DEF Lapse, Holds, StaleIsGone, Shape, NewIsPrivate
<1>14. LoadedIsCurrent'
  BY DEF Lapse, Holds, LoadedIsCurrent, Shape, NewIsPrivate
<1>15. HandedIsIndexed'
  BY <1>h DEF Lapse, Holds, HandedIsIndexed, Shape, NewIsPrivate, StaleIsGone, AllAreVisited,
     Current, Found, Visiting
<1>16. AllAreVisited'
  BY <1>h DEF Lapse, Holds, AllAreVisited, Shape, NewIsPrivate, HandedIsIndexed,
     LoadedIsCurrent, Current, Found, Visiting
<1>17. HandedIsRefused'
  BY <1>h DEF Lapse, Holds, HandedIsRefused, Shape, PairsAreIssued, NewIsPrivate,
     LoadedIsCurrent, RotatedIsForgotten, TouchIsCurrent, Current
<1>18. FamilyIsOwned'
  BY <1>t DEF Lapse, Holds, FamilyIsOwned, Shape, NewIsPrivate, RotatedIsForgotten,
     RevokedAreCaptured, LoadedIsCurrent, TouchIsCurrent, Owned, Current, Captured
<1>19. RevokedAreCaptured'
  BY DEF Lapse, Holds, RevokedAreCaptured, Shape, NewIsPrivate, Captured, Current, Indexed
<1>20. ReuseIsProven'
  BY DEF Lapse, Holds, ReuseIsProven, Shape, HandedIsCurrent, PresentedIsHeld, Current, Handed
<1> QED
  BY <1>1, <1>2, <1>3, <1>4, <1>5, <1>6, <1>7, <1>8, <1>9, <1>10, <1>11, <1>12, <1>13, <1>14,
     <1>15, <1>16, <1>17, <1>18, <1>19, <1>20 DEF SessionsInv, TypeOK

\* Judge preserves the invariant.
LEMMA JudgeKeepsInv ==
    ASSUME SessionsInv, NEW p \in Request, Judge(p)
    PROVE  SessionsInv'
<1>h. \A x : Handed(x)' => Handed(x)
  BY SMTT(40) DEF Judge, End, Shape, Handed
<1>t. \A q \in Request, x \in family' : Tracks(q, x) => Tracks(q, x)' \/ x \in abandoned'
  BY DEF Judge, End, Shape, Tracks, Current, InHand
<1>e. /\ at'[p] \notin Holding /\ reserved' = reserved
      /\ \A q \in Request \ {p} : at'[q] = at[q] /\ tok'[q] = tok[q]
  BY DEF Judge, End, Shape
<1>1. StoresTypeOK'
  BY DEF Judge, End, Shape
<1>2. RequestsTypeOK'
  <2>1. at' \in [Request -> Steps]
    BY DEF Judge, End, Shape, Steps
  <2>2. tok' \in [Request -> Pair \cup {NoPair}]
    BY DEF Judge, End, Shape, Steps
  <2>3. fresh' \in [Request -> 0..MaxPairs]
    BY DEF Judge, End, Shape, Steps
  <2>4. scope' \in [Request -> {"none", "one", "all"}]
    BY DEF Judge, End, Shape, Steps
  <2>5. rows' \in [Request -> SUBSET Pair]
    BY DEF Judge, End, Shape, Steps
  <2>6. work' \in [Request -> SUBSET Session]
    BY DEF Judge, End, Shape, Steps
  <2>7. stale' \in [Request -> SUBSET Session]
    BY DEF Judge, End, Shape, Steps
  <2>8. loaded' \in [Request -> Pair \cup {NoPair}]
    BY DEF Judge, End, Shape, Steps
  <2>9. failed' \in [Request -> BOOLEAN]
    BY DEF Judge, End, Shape, Steps
  <2> QED
    BY <2>1, <2>2, <2>3, <2>4, <2>5, <2>6, <2>7, <2>8, <2>9 DEF RequestsTypeOK
<1>3. Shape'
  BY DEF Judge, End, Shape, Steps
<1>4. Known'
  BY DEF Judge, End, Known, Shape, InHandIsIssued
<1>5. PairsAreIssued'
  BY DEF Judge, End, PairsAreIssued, Shape, InHandIsIssued
<1>6. InHandIsIssued'
  BY DEF Judge, End, InHandIsIssued, Shape, PairsAreIssued
<1>7. NewIsPrivate'
  BY SMTT(60) DEF Judge, End, NewIsPrivate, Shape, Known, PairsAreIssued, InHandIsIssued
<1>8. PresentedIsHeld'
  BY DEF Judge, End, PresentedIsHeld, Shape
<1>9. ReservationIsExclusive'
  BY <1>e DEF ReservationIsExclusive
<1>10. TouchIsCurrent'
  BY DEF Judge, End, TouchIsCurrent, Shape, NewIsPrivate, ReservationIsExclusive
<1>11. HandedIsCurrent'
  BY <1>h DEF Judge, End, HandedIsCurrent, Shape, NewIsPrivate, Current
<1>12. RotatedIsForgotten'
  BY DEF Judge, End, RotatedIsForgotten, Shape, PairsAreIssued, InHandIsIssued, TouchIsCurrent
<1>13. StaleIsGone'
  BY DEF Judge, End, StaleIsGone, Shape, NewIsPrivate
<1>14. LoadedIsCurrent'
  BY DEF Judge, End, LoadedIsCurrent, Shape, NewIsPrivate
<1>15. HandedIsIndexed'
  BY <1>h DEF Judge, End, HandedIsIndexed, Shape, NewIsPrivate, StaleIsGone, AllAreVisited,
     Current, Found, Visiting
<1>16. AllAreVisited'
  BY <1>h DEF Judge, End, AllAreVisited, Shape, NewIsPrivate, HandedIsIndexed,
     LoadedIsCurrent, Current, Found, Visiting
<1>17. HandedIsRefused'
  BY <1>h DEF Judge, End, HandedIsRefused, Shape, PairsAreIssued, NewIsPrivate,
     LoadedIsCurrent, RotatedIsForgotten, TouchIsCurrent, Current
<1>18. FamilyIsOwned'
  BY <1>t DEF Judge, End, FamilyIsOwned, Shape, NewIsPrivate, RotatedIsForgotten,
     RevokedAreCaptured, LoadedIsCurrent, TouchIsCurrent, Owned, Current, Captured
<1>19. RevokedAreCaptured'
  BY DEF Judge, End, RevokedAreCaptured, Shape, NewIsPrivate, Captured, Current, Indexed
<1>20. ReuseIsProven'
  BY DEF Judge, End, ReuseIsProven, Shape, HandedIsCurrent, PresentedIsHeld, Current, Handed
<1> QED
  BY <1>1, <1>2, <1>3, <1>4, <1>5, <1>6, <1>7, <1>8, <1>9, <1>10, <1>11, <1>12, <1>13, <1>14,
     <1>15, <1>16, <1>17, <1>18, <1>19, <1>20 DEF SessionsInv, TypeOK

\* LogoutAll preserves the invariant.
LEMMA LogoutAllKeepsInv ==
    ASSUME SessionsInv, NEW p \in Request, NEW x \in Pair, LogoutAll(p, x)
    PROVE  SessionsInv'
<1>h. \A y : Handed(y)' => Handed(y)
  BY DEF LogoutAll, Shape, Handed
<1>t. \A q \in Request, y \in family' : Tracks(q, y) => Tracks(q, y)' \/ y \in abandoned'
  BY DEF LogoutAll, Shape, Tracks, Current, InHand
<1>1. StoresTypeOK'
  BY DEF LogoutAll, Shape
<1>2. RequestsTypeOK'
  BY DEF LogoutAll, Shape, Steps
<1>3. Shape'
  BY DEF LogoutAll, Shape, Steps
<1>4. Known'
  BY DEF LogoutAll, Known, Shape, InHandIsIssued
<1>5. PairsAreIssued'
  BY DEF LogoutAll, PairsAreIssued, Shape, InHandIsIssued
<1>6. InHandIsIssued'
  BY DEF LogoutAll, InHandIsIssued, Shape, PairsAreIssued
<1>7. NewIsPrivate'
  BY DEF LogoutAll, NewIsPrivate, Shape, Known, PairsAreIssued, InHandIsIssued
<1>8. PresentedIsHeld'
  BY DEF LogoutAll, PresentedIsHeld, Shape
<1>9. ReservationIsExclusive'
  BY DEF LogoutAll, ReservationIsExclusive, Shape
<1>10. TouchIsCurrent'
  BY DEF LogoutAll, TouchIsCurrent, Shape, NewIsPrivate, ReservationIsExclusive
<1>11. HandedIsCurrent'
  BY <1>h DEF LogoutAll, HandedIsCurrent, Shape, NewIsPrivate, Current
<1>12. RotatedIsForgotten'
  BY DEF LogoutAll, RotatedIsForgotten, Shape, PairsAreIssued, InHandIsIssued, TouchIsCurrent
<1>13. StaleIsGone'
  BY DEF LogoutAll, StaleIsGone, Shape, NewIsPrivate
<1>14. LoadedIsCurrent'
  BY DEF LogoutAll, LoadedIsCurrent, Shape, NewIsPrivate
<1>15. HandedIsIndexed'
  BY <1>h DEF LogoutAll, HandedIsIndexed, Shape, NewIsPrivate, StaleIsGone, AllAreVisited,
     Current, Found, Visiting
<1>16. AllAreVisited'
  BY <1>h DEF LogoutAll, AllAreVisited, Shape, NewIsPrivate, HandedIsIndexed, LoadedIsCurrent,
     Current, Found, Visiting
<1>17. HandedIsRefused'
  BY <1>h DEF LogoutAll, HandedIsRefused, Shape, PairsAreIssued, NewIsPrivate,
     LoadedIsCurrent, RotatedIsForgotten, TouchIsCurrent, Current
<1>18. FamilyIsOwned'
  BY <1>t DEF LogoutAll, FamilyIsOwned, Shape, NewIsPrivate, RotatedIsForgotten,
     RevokedAreCaptured, LoadedIsCurrent, TouchIsCurrent, Owned, Current, Captured
<1>19. RevokedAreCaptured'
  BY DEF LogoutAll, RevokedAreCaptured, Shape, NewIsPrivate, Captured, Current, Indexed
<1>20. ReuseIsProven'
  BY DEF LogoutAll, ReuseIsProven, Shape, HandedIsCurrent, PresentedIsHeld, Current, Handed
<1> QED
  BY <1>1, <1>2, <1>3, <1>4, <1>5, <1>6, <1>7, <1>8, <1>9, <1>10, <1>11, <1>12, <1>13, <1>14,
     <1>15, <1>16, <1>17, <1>18, <1>19, <1>20 DEF SessionsInv, TypeOK

\* Logout preserves the invariant.
LEMMA LogoutKeepsInv ==
    ASSUME SessionsInv, NEW p \in Request, NEW x \in Pair, Logout(p, x)
    PROVE  SessionsInv'
<1>h. \A y : Handed(y)' => Handed(y)
  BY DEF Logout, Begin, Shape, Handed
<1>t. \A q \in Request, y \in family' : Tracks(q, y) => Tracks(q, y)' \/ y \in abandoned'
  BY DEF Logout, Begin, Shape, Tracks, Current, InHand
<1>1. StoresTypeOK'
  BY DEF Logout, Begin, Shape
<1>2. RequestsTypeOK'
  BY DEF Logout, Begin, Shape, Steps
<1>3. Shape'
  BY DEF Logout, Begin, Shape, Steps
<1>4. Known'
  BY DEF Logout, Begin, Known, Shape, InHandIsIssued
<1>5. PairsAreIssued'
  BY DEF Logout, Begin, PairsAreIssued, Shape, InHandIsIssued
<1>6. InHandIsIssued'
  BY DEF Logout, Begin, InHandIsIssued, Shape, PairsAreIssued
<1>7. NewIsPrivate'
  BY DEF Logout, Begin, NewIsPrivate, Shape, Known, PairsAreIssued, InHandIsIssued
<1>8. PresentedIsHeld'
  BY DEF Logout, Begin, PresentedIsHeld, Shape
<1>9. ReservationIsExclusive'
  BY DEF Logout, Begin, ReservationIsExclusive, Shape
<1>10. TouchIsCurrent'
  BY DEF Logout, Begin, TouchIsCurrent, Shape, NewIsPrivate, ReservationIsExclusive
<1>11. HandedIsCurrent'
  BY <1>h DEF Logout, Begin, HandedIsCurrent, Shape, NewIsPrivate, Current
<1>12. RotatedIsForgotten'
  BY DEF Logout, Begin, RotatedIsForgotten, Shape, PairsAreIssued, InHandIsIssued,
     TouchIsCurrent
<1>13. StaleIsGone'
  BY DEF Logout, Begin, StaleIsGone, Shape, NewIsPrivate
<1>14. LoadedIsCurrent'
  BY DEF Logout, Begin, LoadedIsCurrent, Shape, NewIsPrivate
<1>15. HandedIsIndexed'
  BY <1>h DEF Logout, Begin, HandedIsIndexed, Shape, NewIsPrivate, StaleIsGone, AllAreVisited,
     Current, Found, Visiting
<1>16. AllAreVisited'
  BY <1>h DEF Logout, Begin, AllAreVisited, Shape, NewIsPrivate, HandedIsIndexed,
     LoadedIsCurrent, Current, Found, Visiting
<1>17. HandedIsRefused'
  BY <1>h DEF Logout, Begin, HandedIsRefused, Shape, PairsAreIssued, NewIsPrivate,
     LoadedIsCurrent, RotatedIsForgotten, TouchIsCurrent, Current
<1>18. FamilyIsOwned'
  BY <1>t DEF Logout, Begin, FamilyIsOwned, Shape, NewIsPrivate, RotatedIsForgotten,
     RevokedAreCaptured, LoadedIsCurrent, TouchIsCurrent, Owned, Current, Captured
<1>19. RevokedAreCaptured'
  BY DEF Logout, Begin, RevokedAreCaptured, Shape, NewIsPrivate, Captured, Current, Indexed
<1>20. ReuseIsProven'
  BY DEF Logout, Begin, ReuseIsProven, Shape, HandedIsCurrent, PresentedIsHeld, Current,
     Handed
<1> QED
  BY <1>1, <1>2, <1>3, <1>4, <1>5, <1>6, <1>7, <1>8, <1>9, <1>10, <1>11, <1>12, <1>13, <1>14,
     <1>15, <1>16, <1>17, <1>18, <1>19, <1>20 DEF SessionsInv, TypeOK

\* Match preserves the invariant.
LEMMA MatchKeepsInv ==
    ASSUME SessionsInv, NEW p \in Request, Match(p)
    PROVE  SessionsInv'
<1>h. \A x : Handed(x)' => Handed(x)
  BY DEF Match, End, Shape, Handed
<1>t. \A q \in Request, x \in family' : Tracks(q, x) => Tracks(q, x)' \/ x \in abandoned'
  BY DEF Match, End, Shape, Tracks, Current, InHand
<1>e. /\ at'[p] \notin Holding /\ reserved' = reserved
      /\ \A q \in Request \ {p} : at'[q] = at[q] /\ tok'[q] = tok[q]
  BY DEF Match, End, Shape
<1>f. /\ at'[p] \notin LoggingIn /\ stored' = stored /\ index' = index /\ held' = held
      /\ tok'[p] \in {tok[p], NoPair} /\ loaded'[p] \in {loaded[p], NoPair}
      /\ stale'[p] \subseteq stale[p]
  BY DEF Match, End, Shape
<1>g. \A q \in Request \ {p} :
       /\ at'[q] = at[q] /\ tok'[q] = tok[q] /\ loaded'[q] = loaded[q]
       /\ work'[q] = work[q] /\ stale'[q] = stale[q]
  BY DEF Match, End, Shape
<1>k. work'[p] \subseteq {Ses(p)} /\ at[p] \notin LoggingIn /\ tok[p] # NoPair
  BY DEF Match, End, Shape
<1>1. StoresTypeOK'
  BY DEF Match, End, Shape
<1>2. RequestsTypeOK'
  <2>1. at' \in [Request -> Steps]
    BY DEF Match, End, Shape, Steps
  <2>2. tok' \in [Request -> Pair \cup {NoPair}]
    BY DEF Match, End, Shape, Steps
  <2>3. fresh' \in [Request -> 0..MaxPairs]
    BY DEF Match, End, Shape, Steps
  <2>4. scope' \in [Request -> {"none", "one", "all"}]
    BY DEF Match, End, Shape, Steps
  <2>5. rows' \in [Request -> SUBSET Pair]
    BY DEF Match, End, Shape, Steps
  <2>6. work' \in [Request -> SUBSET Session]
    BY DEF Match, End, Shape, Steps
  <2>7. stale' \in [Request -> SUBSET Session]
    BY DEF Match, End, Shape, Steps
  <2>8. loaded' \in [Request -> Pair \cup {NoPair}]
    BY DEF Match, End, Shape, Steps
  <2>9. failed' \in [Request -> BOOLEAN]
    BY DEF Match, End, Shape, Steps
  <2> QED
    BY <2>1, <2>2, <2>3, <2>4, <2>5, <2>6, <2>7, <2>8, <2>9 DEF RequestsTypeOK
<1>3. Shape'
  BY DEF Match, End, Shape, Steps
<1>4. Known'
  BY DEF Match, End, Known, Shape, InHandIsIssued
<1>5. PairsAreIssued'
  BY DEF Match, End, PairsAreIssued, Shape, InHandIsIssued
<1>6. InHandIsIssued'
  BY DEF Match, End, InHandIsIssued, Shape, PairsAreIssued
<1>7. NewIsPrivate'
  <2> SUFFICES ASSUME NEW q \in Request, at'[q] \in {"creating", "indexing"}
               PROVE  /\ at'[q] = "creating" => stored'[Ses(q)'] = 0
                      /\ at'[q] = "indexing" => stored'[Ses(q)'] = 1
                      /\ Ses(q)' \notin index'
                      /\ \A y \in held' : y[1] # Ses(q)'
                      /\ \A o \in Request :
                            /\ Ses(q)' \notin work'[o] \cup stale'[o]
                            /\ loaded'[o] # NoPair => loaded'[o][1] # Ses(q)'
                            /\ o # q /\ tok'[o] # NoPair => Ses(o)' # Ses(q)'
    BY DEF NewIsPrivate
  <2>1. q # p /\ at[q] \in {"creating", "indexing"} /\ Ses(q)' = Ses(q)
    BY <1>f, <1>g DEF LoggingIn, Ses
  <2>2. \A o \in Request : o # q /\ tok[o] # NoPair => Ses(o) # Ses(q)
    BY <2>1 DEF NewIsPrivate
  <2>3. \A o \in Request : Ses(q) \notin work'[o] \cup stale'[o]
    BY <1>f, <1>g, <1>k, <2>1, <2>2 DEF NewIsPrivate
  <2>4. \A o \in Request : loaded'[o] # NoPair => loaded'[o][1] # Ses(q)
    BY <1>f, <1>g, <2>1 DEF NewIsPrivate
  <2>5. \A o \in Request : o # q /\ tok'[o] # NoPair => Ses(o)' # Ses(q)
    BY <1>f, <1>g, <2>1, <2>2 DEF Ses
  <2> QED
    BY <1>f, <1>g, <2>1, <2>3, <2>4, <2>5 DEF NewIsPrivate
<1>8. PresentedIsHeld'
  BY DEF Match, End, PresentedIsHeld, Shape
<1>9. ReservationIsExclusive'
  BY <1>e DEF ReservationIsExclusive
<1>10. TouchIsCurrent'
  BY DEF Match, End, TouchIsCurrent, Shape, NewIsPrivate, ReservationIsExclusive
<1>11. HandedIsCurrent'
  BY <1>h DEF Match, End, HandedIsCurrent, Shape, NewIsPrivate, Current
<1>12. RotatedIsForgotten'
  BY DEF Match, End, RotatedIsForgotten, Shape, PairsAreIssued, InHandIsIssued, TouchIsCurrent
<1>13. StaleIsGone'
  BY DEF Match, End, StaleIsGone, Shape, NewIsPrivate
<1>14. LoadedIsCurrent'
  BY DEF Match, End, LoadedIsCurrent, Shape, NewIsPrivate
<1>15. HandedIsIndexed'
  BY <1>h DEF Match, End, HandedIsIndexed, Shape, NewIsPrivate, StaleIsGone, AllAreVisited,
     Current, Found, Visiting
<1>16. AllAreVisited'
  BY <1>h DEF Match, End, AllAreVisited, Shape, NewIsPrivate, HandedIsIndexed,
     LoadedIsCurrent, Current, Found, Visiting
<1>17. HandedIsRefused'
  BY <1>h DEF Match, End, HandedIsRefused, Shape, PairsAreIssued, NewIsPrivate,
     LoadedIsCurrent, RotatedIsForgotten, TouchIsCurrent, Current
<1>18. FamilyIsOwned'
  BY <1>t DEF Match, End, FamilyIsOwned, Shape, NewIsPrivate, RotatedIsForgotten,
     RevokedAreCaptured, LoadedIsCurrent, TouchIsCurrent, Owned, Current, Captured
<1>19. RevokedAreCaptured'
  <2>1. CASE at'[p] = "loading"
    BY <2>1 DEF Match, End, RevokedAreCaptured, Shape, NewIsPrivate, Captured, Current, Indexed
  <2>2. CASE at'[p] = "idle"
    BY <2>2 DEF Match, End, RevokedAreCaptured, Shape, NewIsPrivate, Captured, Current, Indexed
  <2> QED
    BY <2>1, <2>2 DEF Match, End, RevokedAreCaptured, Shape, NewIsPrivate, Captured, Current,
       Indexed
<1>20. ReuseIsProven'
  BY DEF Match, End, ReuseIsProven, Shape, HandedIsCurrent, PresentedIsHeld, Current, Handed
<1> QED
  BY <1>1, <1>2, <1>3, <1>4, <1>5, <1>6, <1>7, <1>8, <1>9, <1>10, <1>11, <1>12, <1>13, <1>14,
     <1>15, <1>16, <1>17, <1>18, <1>19, <1>20 DEF SessionsInv, TypeOK

\* ListFamilies preserves the invariant.
LEMMA ListFamiliesKeepsInv ==
    ASSUME SessionsInv, NEW p \in Request, ListFamilies(p)
    PROVE  SessionsInv'
<1>h. \A x : Handed(x)' => Handed(x)
  BY DEF ListFamilies, Fault, Indexed, Shape, Handed
<1>t. \A q \in Request, x \in family' : Tracks(q, x) => Tracks(q, x)' \/ x \in abandoned'
  BY DEF ListFamilies, Fault, Indexed, Shape, Tracks, Current, InHand
<1>1. StoresTypeOK'
  BY DEF ListFamilies, Fault, Indexed, Shape
<1>2. RequestsTypeOK'
  BY DEF ListFamilies, Fault, Indexed, Shape, Steps
<1>3. Shape'
  BY DEF ListFamilies, Fault, Indexed, Shape, Steps
<1>4. Known'
  BY DEF ListFamilies, Fault, Indexed, Known, Shape, InHandIsIssued
<1>5. PairsAreIssued'
  BY DEF ListFamilies, Fault, Indexed, PairsAreIssued, Shape, InHandIsIssued
<1>6. InHandIsIssued'
  BY DEF ListFamilies, Fault, Indexed, InHandIsIssued, Shape, PairsAreIssued
<1>7. NewIsPrivate'
  BY DEF ListFamilies, Fault, Indexed, NewIsPrivate, Shape, Known, PairsAreIssued,
     InHandIsIssued
<1>8. PresentedIsHeld'
  BY DEF ListFamilies, Fault, Indexed, PresentedIsHeld, Shape
<1>9. ReservationIsExclusive'
  BY DEF ListFamilies, Fault, Indexed, ReservationIsExclusive, Shape
<1>10. TouchIsCurrent'
  BY DEF ListFamilies, Fault, Indexed, TouchIsCurrent, Shape, NewIsPrivate,
     ReservationIsExclusive
<1>11. HandedIsCurrent'
  BY <1>h DEF ListFamilies, Fault, Indexed, HandedIsCurrent, Shape, NewIsPrivate, Current
<1>12. RotatedIsForgotten'
  BY DEF ListFamilies, Fault, Indexed, RotatedIsForgotten, Shape, PairsAreIssued,
     InHandIsIssued, TouchIsCurrent
<1>13. StaleIsGone'
  BY DEF ListFamilies, Fault, Indexed, StaleIsGone, Shape, NewIsPrivate
<1>14. LoadedIsCurrent'
  BY DEF ListFamilies, Fault, Indexed, LoadedIsCurrent, Shape, NewIsPrivate
<1>15. HandedIsIndexed'
  BY <1>h DEF ListFamilies, Fault, Indexed, HandedIsIndexed, Shape, NewIsPrivate, StaleIsGone,
     AllAreVisited, Current, Found, Visiting
<1>16. AllAreVisited'
  BY <1>h DEF ListFamilies, Fault, Indexed, AllAreVisited, Shape, NewIsPrivate,
     HandedIsIndexed, LoadedIsCurrent, Current, Found, Visiting
<1>17. HandedIsRefused'
  BY <1>h DEF ListFamilies, Fault, Indexed, HandedIsRefused, Shape, PairsAreIssued,
     NewIsPrivate, LoadedIsCurrent, RotatedIsForgotten, TouchIsCurrent, Current
<1>18. FamilyIsOwned'
  BY <1>t DEF ListFamilies, Fault, Indexed, FamilyIsOwned, Shape, NewIsPrivate,
     RotatedIsForgotten, RevokedAreCaptured, LoadedIsCurrent, TouchIsCurrent, Owned,
     Current, Captured
<1>19. RevokedAreCaptured'
  BY DEF ListFamilies, Fault, Indexed, RevokedAreCaptured, Shape, NewIsPrivate, Captured,
     Current
<1>20. ReuseIsProven'
  BY DEF ListFamilies, Fault, Indexed, ReuseIsProven, Shape, HandedIsCurrent, PresentedIsHeld,
     Current, Handed
<1> QED
  BY <1>1, <1>2, <1>3, <1>4, <1>5, <1>6, <1>7, <1>8, <1>9, <1>10, <1>11, <1>12, <1>13, <1>14,
     <1>15, <1>16, <1>17, <1>18, <1>19, <1>20 DEF SessionsInv, TypeOK

\* Collect preserves the invariant.
LEMMA CollectKeepsInv ==
    ASSUME SessionsInv, NEW p \in Request, Collect(p)
    PROVE  SessionsInv'
<1>h. \A x : Handed(x)' => Handed(x)
  BY DEF Collect, GoTo, Fault, Shape, Handed
<1>t. \A q \in Request, x \in family' : Tracks(q, x) => Tracks(q, x)' \/ x \in abandoned'
  BY DEF Collect, GoTo, Fault, Shape, Tracks, Current, InHand
<1>1. StoresTypeOK'
  BY DEF Collect, GoTo, Fault, Shape
<1>2. RequestsTypeOK'
  BY DEF Collect, GoTo, Fault, Shape, Steps
<1>3. Shape'
  BY DEF Collect, GoTo, Fault, Shape, Steps
<1>4. Known'
  <2>1. CASE at'[p] = "loading"
    BY <2>1 DEF Collect, GoTo, Fault, Known, Shape, InHandIsIssued
  <2>2. CASE at'[p] = "disowning"
    BY <2>2 DEF Collect, GoTo, Fault, Known, Shape, InHandIsIssued
  <2> QED
    BY <2>1, <2>2 DEF Collect, GoTo, Fault, Known, Shape, InHandIsIssued
<1>5. PairsAreIssued'
  BY DEF Collect, GoTo, Fault, PairsAreIssued, Shape, InHandIsIssued
<1>6. InHandIsIssued'
  BY DEF Collect, GoTo, Fault, InHandIsIssued, Shape, PairsAreIssued
<1>7. NewIsPrivate'
  BY DEF Collect, GoTo, Fault, NewIsPrivate, Shape, Known, PairsAreIssued, InHandIsIssued
<1>8. PresentedIsHeld'
  BY DEF Collect, GoTo, Fault, PresentedIsHeld, Shape
<1>9. ReservationIsExclusive'
  BY DEF Collect, GoTo, Fault, ReservationIsExclusive, Shape
<1>10. TouchIsCurrent'
  BY DEF Collect, GoTo, Fault, TouchIsCurrent, Shape, NewIsPrivate, ReservationIsExclusive
<1>11. HandedIsCurrent'
  BY <1>h DEF Collect, GoTo, Fault, HandedIsCurrent, Shape, NewIsPrivate, Current
<1>12. RotatedIsForgotten'
  BY DEF Collect, GoTo, Fault, RotatedIsForgotten, Shape, PairsAreIssued, InHandIsIssued,
     TouchIsCurrent
<1>13. StaleIsGone'
  BY DEF Collect, GoTo, Fault, StaleIsGone, Shape, NewIsPrivate
<1>14. LoadedIsCurrent'
  BY DEF Collect, GoTo, Fault, LoadedIsCurrent, Shape, NewIsPrivate
<1>15. HandedIsIndexed'
  BY <1>h DEF Collect, GoTo, Fault, HandedIsIndexed, Shape, NewIsPrivate, StaleIsGone,
     AllAreVisited, Current, Found, Visiting
<1>16. AllAreVisited'
  BY <1>h DEF Collect, GoTo, Fault, AllAreVisited, Shape, NewIsPrivate, HandedIsIndexed,
     LoadedIsCurrent, Current, Found, Visiting
<1>17. HandedIsRefused'
  BY <1>h DEF Collect, GoTo, Fault, HandedIsRefused, Shape, PairsAreIssued, NewIsPrivate,
     LoadedIsCurrent, RotatedIsForgotten, TouchIsCurrent, Current
<1>18. FamilyIsOwned'
  BY <1>t DEF Collect, GoTo, Fault, FamilyIsOwned, Shape, NewIsPrivate, RotatedIsForgotten,
     RevokedAreCaptured, LoadedIsCurrent, TouchIsCurrent, Owned, Current, Captured
<1>19. RevokedAreCaptured'
  BY DEF Collect, GoTo, Fault, RevokedAreCaptured, Shape, NewIsPrivate, Captured, Current,
     Indexed
<1>20. ReuseIsProven'
  BY DEF Collect, GoTo, Fault, ReuseIsProven, Shape, HandedIsCurrent, PresentedIsHeld,
     Current, Handed
<1> QED
  BY <1>1, <1>2, <1>3, <1>4, <1>5, <1>6, <1>7, <1>8, <1>9, <1>10, <1>11, <1>12, <1>13, <1>14,
     <1>15, <1>16, <1>17, <1>18, <1>19, <1>20 DEF SessionsInv, TypeOK

\* LoadSession preserves the invariant.
LEMMA LoadSessionKeepsInv ==
    ASSUME SessionsInv, NEW p \in Request, NEW s \in Session, LoadSession(p, s)
    PROVE  SessionsInv'
<1>h. \A x : Handed(x)' => Handed(x)
  BY DEF LoadSession, Shape, Handed
<1>t. \A q \in Request, x \in family' : Tracks(q, x) => Tracks(q, x)' \/ x \in abandoned'
  BY DEF LoadSession, Shape, Tracks, Current, InHand
<1>1. StoresTypeOK'
  BY DEF LoadSession, Shape
<1>2. RequestsTypeOK'
  <2>1. at' \in [Request -> Steps]
    BY DEF LoadSession, Shape, Steps
  <2>2. tok' \in [Request -> Pair \cup {NoPair}]
    BY DEF LoadSession, Shape, Steps
  <2>3. fresh' \in [Request -> 0..MaxPairs]
    BY DEF LoadSession, Shape, Steps
  <2>4. scope' \in [Request -> {"none", "one", "all"}]
    BY DEF LoadSession, Shape, Steps
  <2>5. rows' \in [Request -> SUBSET Pair]
    BY DEF LoadSession, Shape, Steps
  <2>6. work' \in [Request -> SUBSET Session]
    BY DEF LoadSession, Shape, Steps
  <2>7. stale' \in [Request -> SUBSET Session]
    BY DEF LoadSession, Shape, Steps
  <2>8. loaded' \in [Request -> Pair \cup {NoPair}]
    BY DEF LoadSession, Shape, Steps
  <2>9. failed' \in [Request -> BOOLEAN]
    BY DEF LoadSession, Shape, Steps
  <2> QED
    BY <2>1, <2>2, <2>3, <2>4, <2>5, <2>6, <2>7, <2>8, <2>9 DEF RequestsTypeOK
<1>3. Shape'
  BY DEF LoadSession, Shape, Steps
<1>4. Known'
  BY DEF LoadSession, Known, Shape, InHandIsIssued
<1>5. PairsAreIssued'
  BY DEF LoadSession, PairsAreIssued, Shape, InHandIsIssued
<1>6. InHandIsIssued'
  <2>1. CASE stored[s] # 0
    BY <2>1 DEF LoadSession, InHandIsIssued, Shape, PairsAreIssued, Known
  <2>2. CASE stored[s] = 0
    BY <2>2 DEF LoadSession, InHandIsIssued, Shape, PairsAreIssued
  <2> QED
    BY <2>1, <2>2
<1>7. NewIsPrivate'
  BY DEF LoadSession, NewIsPrivate, Shape, Known, PairsAreIssued, InHandIsIssued
<1>8. PresentedIsHeld'
  BY DEF LoadSession, PresentedIsHeld, Shape
<1>9. ReservationIsExclusive'
  BY DEF LoadSession, ReservationIsExclusive, Shape
<1>10. TouchIsCurrent'
  BY DEF LoadSession, TouchIsCurrent, Shape, NewIsPrivate, ReservationIsExclusive
<1>11. HandedIsCurrent'
  BY <1>h DEF LoadSession, HandedIsCurrent, Shape, NewIsPrivate, Current
<1>12. RotatedIsForgotten'
  BY DEF LoadSession, RotatedIsForgotten, Shape, PairsAreIssued, InHandIsIssued,
     TouchIsCurrent
<1>13. StaleIsGone'
  BY DEF LoadSession, StaleIsGone, Shape, NewIsPrivate
<1>14. LoadedIsCurrent'
  BY DEF LoadSession, LoadedIsCurrent, Shape, NewIsPrivate
<1>15. HandedIsIndexed'
  BY <1>h DEF LoadSession, HandedIsIndexed, Shape, NewIsPrivate, StaleIsGone, AllAreVisited,
     Current, Found, Visiting
<1>16. AllAreVisited'
  <2> SUFFICES ASSUME NEW q \in Request, NEW r \in Session, Visiting(q)',
                      stored'[r] # 0, Handed(Current(r))'
               PROVE  (r \in work[q] \/ Found(r) \/ loaded[q] = Current(r))'
    BY DEF AllAreVisited
  <2>1. Visiting(q) /\ stored[r] # 0 /\ Handed(Current(r))
    BY <1>h DEF LoadSession, AllAreVisited, Shape, NewIsPrivate, HandedIsIndexed,
       LoadedIsCurrent, Current,
     Found, Visiting
  <2>2. r \in work[q] \/ Found(r) \/ loaded[q] = Current(r)
    BY <2>1 DEF AllAreVisited
  <2>3. CASE q = p
    BY <2>1, <2>2, <2>3, SMTT(60) DEF LoadSession, AllAreVisited, Shape, NewIsPrivate,
       HandedIsIndexed, LoadedIsCurrent, Current,
     Found, Visiting
  <2>4. CASE q # p
    BY <2>2, <2>4 DEF LoadSession, Found, Current, redisVars, historyVars, RequestsTypeOK, TypeOK
  <2> QED
    BY <2>3, <2>4
<1>17. HandedIsRefused'
  BY <1>h DEF LoadSession, HandedIsRefused, Shape, PairsAreIssued, NewIsPrivate,
     LoadedIsCurrent, RotatedIsForgotten, TouchIsCurrent, Current
<1>18. FamilyIsOwned'
  BY <1>t DEF LoadSession, FamilyIsOwned, Shape, NewIsPrivate, RotatedIsForgotten,
     RevokedAreCaptured, LoadedIsCurrent, TouchIsCurrent, Owned, Current, Captured
<1>19. RevokedAreCaptured'
  BY DEF LoadSession, RevokedAreCaptured, Shape, NewIsPrivate, Captured, Current, Indexed
<1>20. ReuseIsProven'
  BY DEF LoadSession, ReuseIsProven, Shape, HandedIsCurrent, PresentedIsHeld, Current, Handed
<1> QED
  BY <1>1, <1>2, <1>3, <1>4, <1>5, <1>6, <1>7, <1>8, <1>9, <1>10, <1>11, <1>12, <1>13, <1>14,
     <1>15, <1>16, <1>17, <1>18, <1>19, <1>20 DEF SessionsInv, TypeOK

\* FailLoad preserves the invariant.
LEMMA FailLoadKeepsInv ==
    ASSUME SessionsInv, NEW p \in Request, NEW s \in Session, FailLoad(p, s)
    PROVE  SessionsInv'
<1>h. \A x : Handed(x)' => Handed(x)
  BY DEF FailLoad, End, Fault, Shape, Handed
<1>t. \A q \in Request, x \in family' : Tracks(q, x) => Tracks(q, x)' \/ x \in abandoned'
  BY DEF FailLoad, End, Fault, Shape, Tracks, Current, InHand
<1>e. /\ at'[p] \notin Holding /\ reserved' = reserved
      /\ \A q \in Request \ {p} : at'[q] = at[q] /\ tok'[q] = tok[q]
  BY DEF FailLoad, End, Fault, Shape
<1>f. /\ at'[p] \notin LoggingIn /\ stored' = stored /\ index' = index /\ held' = held
      /\ tok'[p] \in {tok[p], NoPair} /\ loaded'[p] \in {loaded[p], NoPair}
      /\ stale'[p] \subseteq stale[p]
  BY DEF FailLoad, End, Fault, Shape
<1>g. \A q \in Request \ {p} :
       /\ at'[q] = at[q] /\ tok'[q] = tok[q] /\ loaded'[q] = loaded[q]
       /\ work'[q] = work[q] /\ stale'[q] = stale[q]
  BY DEF FailLoad, End, Fault, Shape
<1>k. work'[p] \subseteq work[p]
  BY DEF FailLoad, End, Fault, Shape
<1>1. StoresTypeOK'
  BY DEF FailLoad, End, Fault, Shape
<1>2. RequestsTypeOK'
  <2>1. at' \in [Request -> Steps]
    BY DEF FailLoad, End, Fault, Shape, Steps
  <2>2. tok' \in [Request -> Pair \cup {NoPair}]
    BY DEF FailLoad, End, Fault, Shape, Steps
  <2>3. fresh' \in [Request -> 0..MaxPairs]
    BY DEF FailLoad, End, Fault, Shape, Steps
  <2>4. scope' \in [Request -> {"none", "one", "all"}]
    BY DEF FailLoad, End, Fault, Shape, Steps
  <2>5. rows' \in [Request -> SUBSET Pair]
    BY DEF FailLoad, End, Fault, Shape, Steps
  <2>6. work' \in [Request -> SUBSET Session]
    BY DEF FailLoad, End, Fault, Shape, Steps
  <2>7. stale' \in [Request -> SUBSET Session]
    BY DEF FailLoad, End, Fault, Shape, Steps
  <2>8. loaded' \in [Request -> Pair \cup {NoPair}]
    BY DEF FailLoad, End, Fault, Shape, Steps
  <2>9. failed' \in [Request -> BOOLEAN]
    BY DEF FailLoad, End, Fault, Shape, Steps
  <2> QED
    BY <2>1, <2>2, <2>3, <2>4, <2>5, <2>6, <2>7, <2>8, <2>9 DEF RequestsTypeOK
<1>3. Shape'
  BY DEF FailLoad, End, Fault, Shape, Steps
<1>4. Known'
  BY DEF FailLoad, End, Fault, Known, Shape, InHandIsIssued
<1>5. PairsAreIssued'
  BY DEF FailLoad, End, Fault, PairsAreIssued, Shape, InHandIsIssued
<1>6. InHandIsIssued'
  BY DEF FailLoad, End, Fault, InHandIsIssued, Shape, PairsAreIssued
<1>7. NewIsPrivate'
  <2> SUFFICES ASSUME NEW q \in Request, at'[q] \in {"creating", "indexing"}
               PROVE  /\ at'[q] = "creating" => stored'[Ses(q)'] = 0
                      /\ at'[q] = "indexing" => stored'[Ses(q)'] = 1
                      /\ Ses(q)' \notin index'
                      /\ \A y \in held' : y[1] # Ses(q)'
                      /\ \A o \in Request :
                            /\ Ses(q)' \notin work'[o] \cup stale'[o]
                            /\ loaded'[o] # NoPair => loaded'[o][1] # Ses(q)'
                            /\ o # q /\ tok'[o] # NoPair => Ses(o)' # Ses(q)'
    BY DEF NewIsPrivate
  <2>1. q # p /\ at[q] \in {"creating", "indexing"} /\ Ses(q)' = Ses(q)
    BY <1>f, <1>g DEF LoggingIn, Ses
  <2>2. \A o \in Request : o # q /\ tok[o] # NoPair => Ses(o) # Ses(q)
    BY <2>1 DEF NewIsPrivate
  <2>3. \A o \in Request : Ses(q) \notin work'[o] \cup stale'[o]
    BY <1>f, <1>g, <1>k, <2>1, <2>2 DEF NewIsPrivate
  <2>4. \A o \in Request : loaded'[o] # NoPair => loaded'[o][1] # Ses(q)
    BY <1>f, <1>g, <2>1 DEF NewIsPrivate
  <2>5. \A o \in Request : o # q /\ tok'[o] # NoPair => Ses(o)' # Ses(q)
    BY <1>f, <1>g, <2>1, <2>2 DEF Ses
  <2> QED
    BY <1>f, <1>g, <2>1, <2>3, <2>4, <2>5 DEF NewIsPrivate
<1>8. PresentedIsHeld'
  BY DEF FailLoad, End, Fault, PresentedIsHeld, Shape
<1>9. ReservationIsExclusive'
  BY <1>e DEF ReservationIsExclusive
<1>10. TouchIsCurrent'
  BY DEF FailLoad, End, Fault, TouchIsCurrent, Shape, NewIsPrivate, ReservationIsExclusive
<1>11. HandedIsCurrent'
  BY <1>h DEF FailLoad, End, Fault, HandedIsCurrent, Shape, NewIsPrivate, Current
<1>12. RotatedIsForgotten'
  BY DEF FailLoad, End, Fault, RotatedIsForgotten, Shape, PairsAreIssued, InHandIsIssued,
     TouchIsCurrent
<1>13. StaleIsGone'
  BY DEF FailLoad, End, Fault, StaleIsGone, Shape, NewIsPrivate
<1>14. LoadedIsCurrent'
  BY DEF FailLoad, End, Fault, LoadedIsCurrent, Shape, NewIsPrivate
<1>15. HandedIsIndexed'
  BY <1>h DEF FailLoad, End, Fault, HandedIsIndexed, Shape, NewIsPrivate, StaleIsGone,
     AllAreVisited, Current, Found, Visiting
<1>16. AllAreVisited'
  BY <1>h DEF FailLoad, End, Fault, AllAreVisited, Shape, NewIsPrivate, HandedIsIndexed,
     LoadedIsCurrent, Current, Found, Visiting
<1>17. HandedIsRefused'
  BY <1>h DEF FailLoad, End, Fault, HandedIsRefused, Shape, PairsAreIssued, NewIsPrivate,
     LoadedIsCurrent, RotatedIsForgotten, TouchIsCurrent, Current
<1>18. FamilyIsOwned'
  BY <1>t DEF FailLoad, End, Fault, FamilyIsOwned, Shape, NewIsPrivate, RotatedIsForgotten,
     RevokedAreCaptured, LoadedIsCurrent, TouchIsCurrent, Owned, Current, Captured
<1>19. RevokedAreCaptured'
  BY DEF FailLoad, End, Fault, RevokedAreCaptured, Shape, NewIsPrivate, Captured, Current,
     Indexed
<1>20. ReuseIsProven'
  BY DEF FailLoad, End, Fault, ReuseIsProven, Shape, HandedIsCurrent, PresentedIsHeld,
     Current, Handed
<1> QED
  BY <1>1, <1>2, <1>3, <1>4, <1>5, <1>6, <1>7, <1>8, <1>9, <1>10, <1>11, <1>12, <1>13, <1>14,
     <1>15, <1>16, <1>17, <1>18, <1>19, <1>20 DEF SessionsInv, TypeOK

\* BanAccess preserves the invariant.
LEMMA BanAccessKeepsInv ==
    ASSUME SessionsInv, NEW p \in Request, BanAccess(p)
    PROVE  SessionsInv'
<1>h. \A x : Handed(x)' => Handed(x)
  BY DEF BanAccess, GoTo, Fail, End, Fault, Shape, Handed
<1>t. \A q \in Request, x \in family' : Tracks(q, x) => Tracks(q, x)' \/ x \in abandoned'
  BY DEF BanAccess, GoTo, Fail, End, Fault, Shape, Tracks, Current, InHand
<1>e. /\ at'[p] \notin Holding /\ reserved' = reserved
      /\ \A q \in Request \ {p} : at'[q] = at[q] /\ tok'[q] = tok[q]
  BY DEF BanAccess, GoTo, Fail, End, Fault, Shape
<1>1. StoresTypeOK'
  BY DEF BanAccess, GoTo, Fail, End, Fault, Shape
<1>2. RequestsTypeOK'
  <2>1. at' \in [Request -> Steps]
    BY DEF BanAccess, GoTo, Fail, End, Fault, Shape, Steps
  <2>2. tok' \in [Request -> Pair \cup {NoPair}]
    BY DEF BanAccess, GoTo, Fail, End, Fault, Shape, Steps
  <2>3. fresh' \in [Request -> 0..MaxPairs]
    BY DEF BanAccess, GoTo, Fail, End, Fault, Shape, Steps
  <2>4. scope' \in [Request -> {"none", "one", "all"}]
    BY DEF BanAccess, GoTo, Fail, End, Fault, Shape, Steps
  <2>5. rows' \in [Request -> SUBSET Pair]
    BY DEF BanAccess, GoTo, Fail, End, Fault, Shape, Steps
  <2>6. work' \in [Request -> SUBSET Session]
    BY SMTT(30) DEF BanAccess, GoTo, Fail, End, Fault, Shape, Steps
  <2>7. stale' \in [Request -> SUBSET Session]
    BY SMTT(30) DEF BanAccess, GoTo, Fail, End, Fault, Shape, Steps
  <2>8. loaded' \in [Request -> Pair \cup {NoPair}]
    BY DEF BanAccess, GoTo, Fail, End, Fault, Shape, Steps
  <2>9. failed' \in [Request -> BOOLEAN]
    BY DEF BanAccess, GoTo, Fail, End, Fault, Shape, Steps
  <2> QED
    BY <2>1, <2>2, <2>3, <2>4, <2>5, <2>6, <2>7, <2>8, <2>9 DEF RequestsTypeOK
<1>3. Shape'
  BY DEF BanAccess, GoTo, Fail, End, Fault, Shape, Steps
<1>4. Known'
  BY DEF BanAccess, GoTo, Fail, End, Fault, Known, Shape, InHandIsIssued
<1>5. PairsAreIssued'
  BY DEF BanAccess, GoTo, Fail, End, Fault, PairsAreIssued, Shape, InHandIsIssued
<1>6. InHandIsIssued'
  BY DEF BanAccess, GoTo, Fail, End, Fault, InHandIsIssued, Shape, PairsAreIssued
<1>7. NewIsPrivate'
  BY SMTT(30) DEF BanAccess, GoTo, Fail, End, Fault, NewIsPrivate, Shape, Known, PairsAreIssued,
     InHandIsIssued
<1>8. PresentedIsHeld'
  BY DEF BanAccess, GoTo, Fail, End, Fault, PresentedIsHeld, Shape
<1>9. ReservationIsExclusive'
  BY <1>e DEF ReservationIsExclusive
<1>10. TouchIsCurrent'
  BY DEF BanAccess, GoTo, Fail, End, Fault, TouchIsCurrent, Shape, NewIsPrivate,
     ReservationIsExclusive
<1>11. HandedIsCurrent'
  BY <1>h DEF BanAccess, GoTo, Fail, End, Fault, HandedIsCurrent, Shape, NewIsPrivate, Current
<1>12. RotatedIsForgotten'
  BY DEF BanAccess, GoTo, Fail, End, Fault, RotatedIsForgotten, Shape, PairsAreIssued,
     InHandIsIssued, TouchIsCurrent
<1>13. StaleIsGone'
  BY DEF BanAccess, GoTo, Fail, End, Fault, StaleIsGone, Shape, NewIsPrivate
<1>14. LoadedIsCurrent'
  BY DEF BanAccess, GoTo, Fail, End, Fault, LoadedIsCurrent, Shape, NewIsPrivate
<1>15. HandedIsIndexed'
  BY <1>h DEF BanAccess, GoTo, Fail, End, Fault, HandedIsIndexed, Shape, NewIsPrivate,
     StaleIsGone, AllAreVisited, Current, Found, Visiting
<1>16. AllAreVisited'
  BY <1>h DEF BanAccess, GoTo, Fail, End, Fault, AllAreVisited, Shape, NewIsPrivate,
     HandedIsIndexed, LoadedIsCurrent, Current, Found, Visiting
<1>17. HandedIsRefused'
  BY <1>h DEF BanAccess, GoTo, Fail, End, Fault, HandedIsRefused, Shape, PairsAreIssued,
     NewIsPrivate, LoadedIsCurrent, RotatedIsForgotten, TouchIsCurrent, Current
<1>18. FamilyIsOwned'
  BY <1>t DEF BanAccess, GoTo, Fail, End, Fault, FamilyIsOwned, Shape, NewIsPrivate,
     RotatedIsForgotten, RevokedAreCaptured, LoadedIsCurrent, TouchIsCurrent, Owned,
     Current, Captured
<1>19. RevokedAreCaptured'
  BY DEF BanAccess, GoTo, Fail, End, Fault, RevokedAreCaptured, Shape, NewIsPrivate, Captured,
     Current, Indexed
<1>20. ReuseIsProven'
  BY DEF BanAccess, GoTo, Fail, End, Fault, ReuseIsProven, Shape, HandedIsCurrent,
     PresentedIsHeld, Current, Handed
<1> QED
  BY <1>1, <1>2, <1>3, <1>4, <1>5, <1>6, <1>7, <1>8, <1>9, <1>10, <1>11, <1>12, <1>13, <1>14,
     <1>15, <1>16, <1>17, <1>18, <1>19, <1>20 DEF SessionsInv, TypeOK

\* BanRefresh preserves the invariant.
LEMMA BanRefreshKeepsInv ==
    ASSUME SessionsInv, NEW p \in Request, BanRefresh(p)
    PROVE  SessionsInv'
<1>h. \A x : Handed(x)' => Handed(x)
  BY DEF BanRefresh, GoTo, Fail, End, Fault, Shape, Handed
<1>t. \A q \in Request, x \in family' : Tracks(q, x) => Tracks(q, x)' \/ x \in abandoned'
  BY DEF BanRefresh, GoTo, Fail, End, Fault, Shape, Tracks, Current, InHand
<1>1. StoresTypeOK'
  BY DEF BanRefresh, GoTo, Fail, End, Fault, Shape
<1>2. RequestsTypeOK'
  <2>1. at' \in [Request -> Steps]
    BY DEF BanRefresh, GoTo, Fail, End, Fault, Shape, Steps
  <2>2. tok' \in [Request -> Pair \cup {NoPair}]
    BY DEF BanRefresh, GoTo, Fail, End, Fault, Shape, Steps
  <2>3. fresh' \in [Request -> 0..MaxPairs]
    BY DEF BanRefresh, GoTo, Fail, End, Fault, Shape, Steps
  <2>4. scope' \in [Request -> {"none", "one", "all"}]
    BY DEF BanRefresh, GoTo, Fail, End, Fault, Shape, Steps
  <2>5. rows' \in [Request -> SUBSET Pair]
    BY DEF BanRefresh, GoTo, Fail, End, Fault, Shape, Steps
  <2>6. work' \in [Request -> SUBSET Session]
    BY SMTT(30) DEF BanRefresh, GoTo, Fail, End, Fault, Shape, Steps
  <2>7. stale' \in [Request -> SUBSET Session]
    BY DEF BanRefresh, GoTo, Fail, End, Fault, Shape, Steps
  <2>8. loaded' \in [Request -> Pair \cup {NoPair}]
    BY DEF BanRefresh, GoTo, Fail, End, Fault, Shape, Steps
  <2>9. failed' \in [Request -> BOOLEAN]
    BY DEF BanRefresh, GoTo, Fail, End, Fault, Shape, Steps
  <2> QED
    BY <2>1, <2>2, <2>3, <2>4, <2>5, <2>6, <2>7, <2>8, <2>9 DEF RequestsTypeOK
<1>3. Shape'
  BY DEF BanRefresh, GoTo, Fail, End, Fault, Shape, Steps
<1>4. Known'
  BY DEF BanRefresh, GoTo, Fail, End, Fault, Known, Shape, InHandIsIssued
<1>5. PairsAreIssued'
  BY DEF BanRefresh, GoTo, Fail, End, Fault, PairsAreIssued, Shape, InHandIsIssued
<1>6. InHandIsIssued'
  BY DEF BanRefresh, GoTo, Fail, End, Fault, InHandIsIssued, Shape, PairsAreIssued
<1>7. NewIsPrivate'
  BY SMTT(30) DEF BanRefresh, GoTo, Fail, End, Fault, NewIsPrivate, Shape, Known, PairsAreIssued,
     InHandIsIssued
<1>8. PresentedIsHeld'
  BY DEF BanRefresh, GoTo, Fail, End, Fault, PresentedIsHeld, Shape
<1>9. ReservationIsExclusive'
  BY DEF BanRefresh, GoTo, Fail, End, Fault, ReservationIsExclusive, Shape
<1>10. TouchIsCurrent'
  BY DEF BanRefresh, GoTo, Fail, End, Fault, TouchIsCurrent, Shape, NewIsPrivate,
     ReservationIsExclusive
<1>11. HandedIsCurrent'
  BY <1>h DEF BanRefresh, GoTo, Fail, End, Fault, HandedIsCurrent, Shape, NewIsPrivate,
     Current
<1>12. RotatedIsForgotten'
  BY DEF BanRefresh, GoTo, Fail, End, Fault, RotatedIsForgotten, Shape, PairsAreIssued,
     InHandIsIssued, TouchIsCurrent
<1>13. StaleIsGone'
  BY DEF BanRefresh, GoTo, Fail, End, Fault, StaleIsGone, Shape, NewIsPrivate
<1>14. LoadedIsCurrent'
  BY DEF BanRefresh, GoTo, Fail, End, Fault, LoadedIsCurrent, Shape, NewIsPrivate
<1>15. HandedIsIndexed'
  BY <1>h DEF BanRefresh, GoTo, Fail, End, Fault, HandedIsIndexed, Shape, NewIsPrivate,
     StaleIsGone, AllAreVisited, Current, Found, Visiting
<1>16. AllAreVisited'
  BY <1>h DEF BanRefresh, GoTo, Fail, End, Fault, AllAreVisited, Shape, NewIsPrivate,
     HandedIsIndexed, LoadedIsCurrent, Current, Found, Visiting
<1>17. HandedIsRefused'
  BY <1>h DEF BanRefresh, GoTo, Fail, End, Fault, HandedIsRefused, Shape, PairsAreIssued,
     NewIsPrivate, LoadedIsCurrent, RotatedIsForgotten, TouchIsCurrent, Current
<1>18. FamilyIsOwned'
  BY <1>t DEF BanRefresh, GoTo, Fail, End, Fault, FamilyIsOwned, Shape, NewIsPrivate,
     RotatedIsForgotten, RevokedAreCaptured, LoadedIsCurrent, TouchIsCurrent, Owned,
     Current, Captured
<1>19. RevokedAreCaptured'
  BY DEF BanRefresh, GoTo, Fail, End, Fault, RevokedAreCaptured, Shape, NewIsPrivate,
     Captured, Current, Indexed
<1>20. ReuseIsProven'
  BY DEF BanRefresh, GoTo, Fail, End, Fault, ReuseIsProven, Shape, HandedIsCurrent,
     PresentedIsHeld, Current, Handed
<1> QED
  BY <1>1, <1>2, <1>3, <1>4, <1>5, <1>6, <1>7, <1>8, <1>9, <1>10, <1>11, <1>12, <1>13, <1>14,
     <1>15, <1>16, <1>17, <1>18, <1>19, <1>20 DEF SessionsInv, TypeOK

\* What is deleted was loaded, blacklisted and captured before.
LEMMA DeleteSessionKeepsInv ==
    ASSUME SessionsInv, NEW p \in Request, DeleteSession(p)
    PROVE  SessionsInv'
<1>h. \A x : Handed(x)' => Handed(x)
  BY DEF DeleteSession, GoTo, Loop, Fault, Shape, Handed
<1>t. \A q \in Request, x \in family' : Tracks(q, x) => Tracks(q, x)' \/ x \in abandoned'
  BY DEF DeleteSession, GoTo, Loop, Fault, Shape, Tracks, Current, InHand
<1>e. /\ at'[p] \notin Holding /\ reserved' = reserved
      /\ \A q \in Request \ {p} : at'[q] = at[q] /\ tok'[q] = tok[q]
  BY DEF DeleteSession, GoTo, Loop, Fault, Shape
<1>1. StoresTypeOK'
  BY DEF DeleteSession, GoTo, Loop, Fault, Shape
<1>2. RequestsTypeOK'
  BY DEF DeleteSession, GoTo, Loop, Fault, Shape, Steps
<1>3. Shape'
  BY DEF DeleteSession, GoTo, Loop, Fault, Shape, Steps
<1>4. Known'
  BY DEF DeleteSession, GoTo, Loop, Fault, Known, Shape, InHandIsIssued
<1>5. PairsAreIssued'
  BY DEF DeleteSession, GoTo, Loop, Fault, PairsAreIssued, Shape, InHandIsIssued
<1>6. InHandIsIssued'
  BY DEF DeleteSession, GoTo, Loop, Fault, InHandIsIssued, Shape, PairsAreIssued
<1>7. NewIsPrivate'
  BY DEF DeleteSession, GoTo, Loop, Fault, NewIsPrivate, Shape, Known, PairsAreIssued,
     InHandIsIssued
<1>8. PresentedIsHeld'
  BY DEF DeleteSession, GoTo, Loop, Fault, PresentedIsHeld, Shape
<1>9. ReservationIsExclusive'
  BY <1>e DEF ReservationIsExclusive
<1>10. TouchIsCurrent'
  BY DEF DeleteSession, GoTo, Loop, Fault, TouchIsCurrent, Shape, NewIsPrivate,
     ReservationIsExclusive
<1>11. HandedIsCurrent'
  BY <1>h DEF DeleteSession, GoTo, Loop, Fault, HandedIsCurrent, Shape, NewIsPrivate, Current
<1>12. RotatedIsForgotten'
  BY DEF DeleteSession, GoTo, Loop, Fault, RotatedIsForgotten, Shape, PairsAreIssued,
     InHandIsIssued, TouchIsCurrent
<1>13. StaleIsGone'
  BY DEF DeleteSession, GoTo, Loop, Fault, StaleIsGone, Shape, NewIsPrivate
<1>14. LoadedIsCurrent'
  BY DEF DeleteSession, GoTo, Loop, Fault, LoadedIsCurrent, Shape, NewIsPrivate
<1>15. HandedIsIndexed'
  BY <1>h DEF DeleteSession, GoTo, Loop, Fault, HandedIsIndexed, Shape, NewIsPrivate,
     StaleIsGone, AllAreVisited, Current, Found, Visiting
<1>16. AllAreVisited'
  <2> SUFFICES ASSUME NEW q \in Request, NEW r \in Session, Visiting(q)',
                      stored'[r] # 0, Handed(Current(r))'
               PROVE  (r \in work[q] \/ Found(r) \/ loaded[q] = Current(r))'
    BY DEF AllAreVisited
  <2>1. Visiting(q) /\ stored[r] # 0 /\ Handed(Current(r)) /\ Current(r)' = Current(r)
    <3>1. stored[r] # 0 /\ Current(r)' = Current(r)
      BY DEF DeleteSession, GoTo, Loop, Fault, Current, Shape
    <3>2. Visiting(q)
      BY DEF DeleteSession, GoTo, Loop, Fault, Visiting, Shape
    <3> QED
      BY <1>h, <3>1, <3>2
  <2>2. r \in work[q] \/ Found(r) \/ loaded[q] = Current(r)
    BY <2>1 DEF AllAreVisited
  <2>3. work'[q] = work[q] /\ (Found(r) => Found(r)')
    BY <2>1 DEF DeleteSession, GoTo, Loop, Fault, Found
  <2>4. CASE q = p
    <3>1. loaded[p] \in bannedRefresh
      BY DEF DeleteSession, GoTo, Loop, Fault, LoadedIsCurrent
    <3> QED
      BY <2>1, <2>2, <2>3, <2>4, <3>1 DEF Found
  <2>5. CASE q # p
    <3>1. loaded'[q] = loaded[q]
      BY <2>5 DEF DeleteSession, GoTo, Loop, Fault
    <3> QED
      BY <2>1, <2>2, <2>3, <3>1
  <2> QED
    BY <2>4, <2>5
<1>17. HandedIsRefused'
  <2> SUFFICES ASSUME NEW y \in Pair, Handed(y)'
               PROVE  (y = Current(y[1]) \/ y \notin family \/ y \in bannedAccess \/ y[1] \in raced)'
    BY DEF HandedIsRefused
  <2>1. Handed(y) /\ y[1] \in Session /\ y[2] <= issued[y[1]]
    BY <1>h, HandedIsIssued
  <2>2. y = Current(y[1]) \/ y \notin family \/ y \in bannedAccess \/ y[1] \in raced
    BY <2>1 DEF HandedIsRefused
  <2>3. CASE y[1] = loaded[p][1]
    <3>1. loaded[p] \in Pair /\ loaded[p] \in bannedAccess
      BY DEF DeleteSession, LoadedIsCurrent, Shape, Ending
    <3>2. stored[loaded[p][1]] \in {0, loaded[p][2]} \/ loaded[p][1] \in raced
      BY DEF DeleteSession, LoadedIsCurrent, Ending
    <3>3. y = Current(y[1]) => y \in bannedAccess \/ y[1] \in raced
      BY <2>3, <3>1, <3>2 DEF Current
    <3> QED
      BY <2>2, <3>3 DEF DeleteSession, Fault, casdoorVars
  <2>4. CASE y[1] # loaded[p][1]
    <3>1. stored'[y[1]] = stored[y[1]]
      BY <2>1, <2>4 DEF DeleteSession, TypeOK, StoresTypeOK
    <3> QED
      BY <2>2, <3>1 DEF DeleteSession, Fault, Current, casdoorVars
  <2> QED
    BY <2>3, <2>4
<1>18. FamilyIsOwned'
  <2> SUFFICES ASSUME NEW y \in family'
               PROVE  Owned(y)'
    BY DEF FamilyIsOwned
  <2>1. Owned(y) /\ y \in Pair
    BY DEF FamilyIsOwned, DeleteSession, casdoorVars, TypeOK, StoresTypeOK
  <2>2. CASE y = Current(y[1]) /\ y[1] = loaded[p][1]
    <3>1. Captured(p, y[1])
      BY <2>2 DEF RevokedAreCaptured, DeleteSession, Ending
    <3>2. y \in rows[p] => Tracks(p, y)'
      BY DEF DeleteSession, GoTo, Loop, Fault, FamilyIsOwned, Shape, NewIsPrivate,
         RotatedIsForgotten,
     RevokedAreCaptured, LoadedIsCurrent, TouchIsCurrent, Tracks, Owned, Current, Captured
    <3> QED
      BY <2>1, <2>2, <3>1, <3>2 DEF Owned, Captured, Current, DeleteSession, Fault, casdoorVars
  <2>3. CASE y = Current(y[1]) /\ y[1] # loaded[p][1]
    <3>1. stored'[y[1]] = stored[y[1]]
      BY <2>1, <2>3 DEF DeleteSession, TypeOK, StoresTypeOK
    <3> QED
      BY <2>3, <3>1 DEF Owned, Current
  <2>4. CASE y # Current(y[1])
    BY <2>1, <2>4, <1>t DEF Owned, DeleteSession, Fault
  <2> QED
    BY <2>2, <2>3, <2>4
<1>19. RevokedAreCaptured'
  BY SMTT(60) DEF DeleteSession, GoTo, Loop, Fault, RevokedAreCaptured, Shape, NewIsPrivate,
     Captured,
     Current, Indexed
<1>20. ReuseIsProven'
  BY DEF DeleteSession, GoTo, Loop, Fault, ReuseIsProven, Shape, HandedIsCurrent,
     PresentedIsHeld, Current, Handed
<1> QED
  BY <1>1, <1>2, <1>3, <1>4, <1>5, <1>6, <1>7, <1>8, <1>9, <1>10, <1>11, <1>12, <1>13, <1>14,
     <1>15, <1>16, <1>17, <1>18, <1>19, <1>20 DEF SessionsInv, TypeOK

\* Unlist preserves the invariant.
LEMMA UnlistKeepsInv ==
    ASSUME SessionsInv, NEW p \in Request, Unlist(p)
    PROVE  SessionsInv'
<1>h. \A x : Handed(x)' => Handed(x)
  BY DEF Unlist, Loop, Fault, Shape, Handed
<1>t. \A q \in Request, x \in family' : Tracks(q, x) => Tracks(q, x)' \/ x \in abandoned'
  BY DEF Unlist, Loop, Fault, Shape, Tracks, Current, InHand
<1>1. StoresTypeOK'
  BY DEF Unlist, Loop, Fault, Shape
<1>2. RequestsTypeOK'
  BY DEF Unlist, Loop, Fault, Shape, Steps
<1>3. Shape'
  BY DEF Unlist, Loop, Fault, Shape, Steps
<1>4. Known'
  BY DEF Unlist, Loop, Fault, Known, Shape, InHandIsIssued
<1>5. PairsAreIssued'
  BY DEF Unlist, Loop, Fault, PairsAreIssued, Shape, InHandIsIssued
<1>6. InHandIsIssued'
  BY DEF Unlist, Loop, Fault, InHandIsIssued, Shape, PairsAreIssued
<1>7. NewIsPrivate'
  BY DEF Unlist, Loop, Fault, NewIsPrivate, Shape, Known, PairsAreIssued, InHandIsIssued
<1>8. PresentedIsHeld'
  BY DEF Unlist, Loop, Fault, PresentedIsHeld, Shape
<1>9. ReservationIsExclusive'
  BY DEF Unlist, Loop, Fault, ReservationIsExclusive, Shape
<1>10. TouchIsCurrent'
  BY DEF Unlist, Loop, Fault, TouchIsCurrent, Shape, NewIsPrivate, ReservationIsExclusive
<1>11. HandedIsCurrent'
  BY <1>h DEF Unlist, Loop, Fault, HandedIsCurrent, Shape, NewIsPrivate, Current
<1>12. RotatedIsForgotten'
  BY DEF Unlist, Loop, Fault, RotatedIsForgotten, Shape, PairsAreIssued, InHandIsIssued,
     TouchIsCurrent
<1>13. StaleIsGone'
  BY DEF Unlist, Loop, Fault, StaleIsGone, Shape, NewIsPrivate
<1>14. LoadedIsCurrent'
  BY DEF Unlist, Loop, Fault, LoadedIsCurrent, Shape, NewIsPrivate
<1>15. HandedIsIndexed'
  BY <1>h DEF Unlist, Loop, Fault, HandedIsIndexed, Shape, NewIsPrivate, StaleIsGone,
     AllAreVisited, Current, Found, Visiting
<1>16. AllAreVisited'
  <2> SUFFICES ASSUME NEW q \in Request, NEW r \in Session, Visiting(q)',
                      stored'[r] # 0, Handed(Current(r))'
               PROVE  (r \in work[q] \/ Found(r) \/ loaded[q] = Current(r))'
    BY DEF AllAreVisited
  <2>1. Visiting(q) /\ stored[r] # 0 /\ Handed(Current(r)) /\ Current(r)' = Current(r)
    <3>1. stored[r] # 0 /\ Current(r)' = Current(r)
      BY DEF Unlist, Loop, Fault, Current, Shape
    <3>2. Visiting(q)
      BY DEF Unlist, Loop, Fault, Visiting, Shape
    <3> QED
      BY <1>h, <3>1, <3>2
  <2>2. r \in work[q] \/ Found(r) \/ loaded[q] = Current(r)
    BY <2>1 DEF AllAreVisited
  <2>3. work'[q] = work[q] /\ (Found(r) => Found(r)')
    BY <2>1 DEF Unlist, Loop, Fault, Found
  <2>4. CASE q = p
    <3>1. loaded[p] \in bannedRefresh
      BY DEF Unlist, Loop, Fault, LoadedIsCurrent
    <3> QED
      BY <2>1, <2>2, <2>3, <2>4, <3>1 DEF Found
  <2>5. CASE q # p
    <3>1. loaded'[q] = loaded[q]
      BY <2>5 DEF Unlist, Loop, Fault
    <3> QED
      BY <2>1, <2>2, <2>3, <3>1
  <2> QED
    BY <2>4, <2>5
<1>17. HandedIsRefused'
  BY <1>h DEF Unlist, Loop, Fault, HandedIsRefused, Shape, PairsAreIssued, NewIsPrivate,
     LoadedIsCurrent, RotatedIsForgotten, TouchIsCurrent, Current
<1>18. FamilyIsOwned'
  BY <1>t DEF Unlist, Loop, Fault, FamilyIsOwned, Shape, NewIsPrivate, RotatedIsForgotten,
     RevokedAreCaptured, LoadedIsCurrent, TouchIsCurrent, Owned, Current, Captured
<1>19. RevokedAreCaptured'
  BY DEF Unlist, Loop, Fault, RevokedAreCaptured, Shape, NewIsPrivate, Captured, Current,
     Indexed
<1>20. ReuseIsProven'
  BY DEF Unlist, Loop, Fault, ReuseIsProven, Shape, HandedIsCurrent, PresentedIsHeld, Current,
     Handed
<1> QED
  BY <1>1, <1>2, <1>3, <1>4, <1>5, <1>6, <1>7, <1>8, <1>9, <1>10, <1>11, <1>12, <1>13, <1>14,
     <1>15, <1>16, <1>17, <1>18, <1>19, <1>20 DEF SessionsInv, TypeOK

\* Finish preserves the invariant.
LEMMA FinishKeepsInv ==
    ASSUME SessionsInv, NEW p \in Request, Finish(p)
    PROVE  SessionsInv'
<1>h. \A x : Handed(x)' => Handed(x)
  BY DEF Finish, GoTo, Fault, Shape, Handed
<1>t. \A q \in Request, x \in family' : Tracks(q, x) => Tracks(q, x)' \/ x \in abandoned'
  BY DEF Finish, GoTo, Fault, Shape, Tracks, Current, InHand
<1>1. StoresTypeOK'
  BY DEF Finish, GoTo, Fault, Shape
<1>2. RequestsTypeOK'
  BY DEF Finish, GoTo, Fault, Shape, Steps
<1>3. Shape'
  BY DEF Finish, GoTo, Fault, Shape, Steps
<1>4. Known'
  BY DEF Finish, GoTo, Fault, Known, Shape, InHandIsIssued
<1>5. PairsAreIssued'
  BY DEF Finish, GoTo, Fault, PairsAreIssued, Shape, InHandIsIssued
<1>6. InHandIsIssued'
  BY DEF Finish, GoTo, Fault, InHandIsIssued, Shape, PairsAreIssued
<1>7. NewIsPrivate'
  BY DEF Finish, GoTo, Fault, NewIsPrivate, Shape, Known, PairsAreIssued, InHandIsIssued
<1>8. PresentedIsHeld'
  BY DEF Finish, GoTo, Fault, PresentedIsHeld, Shape
<1>9. ReservationIsExclusive'
  BY DEF Finish, GoTo, Fault, ReservationIsExclusive, Shape
<1>10. TouchIsCurrent'
  BY DEF Finish, GoTo, Fault, TouchIsCurrent, Shape, NewIsPrivate, ReservationIsExclusive
<1>11. HandedIsCurrent'
  BY <1>h DEF Finish, GoTo, Fault, HandedIsCurrent, Shape, NewIsPrivate, Current
<1>12. RotatedIsForgotten'
  BY DEF Finish, GoTo, Fault, RotatedIsForgotten, Shape, PairsAreIssued, InHandIsIssued,
     TouchIsCurrent
<1>13. StaleIsGone'
  BY DEF Finish, GoTo, Fault, StaleIsGone, Shape, NewIsPrivate
<1>14. LoadedIsCurrent'
  BY DEF Finish, GoTo, Fault, LoadedIsCurrent, Shape, NewIsPrivate
<1>15. HandedIsIndexed'
  BY <1>h DEF Finish, GoTo, Fault, HandedIsIndexed, Shape, NewIsPrivate, StaleIsGone,
     AllAreVisited, Current, Found, Visiting
<1>16. AllAreVisited'
  BY <1>h DEF Finish, GoTo, Fault, AllAreVisited, Shape, NewIsPrivate, HandedIsIndexed,
     LoadedIsCurrent, Current, Found, Visiting
<1>17. HandedIsRefused'
  BY <1>h DEF Finish, GoTo, Fault, HandedIsRefused, Shape, PairsAreIssued, NewIsPrivate,
     LoadedIsCurrent, RotatedIsForgotten, TouchIsCurrent, Current
<1>18. FamilyIsOwned'
  BY <1>t DEF Finish, GoTo, Fault, FamilyIsOwned, Shape, NewIsPrivate, RotatedIsForgotten,
     RevokedAreCaptured, LoadedIsCurrent, TouchIsCurrent, Owned, Current, Captured
<1>19. RevokedAreCaptured'
  BY DEF Finish, GoTo, Fault, RevokedAreCaptured, Shape, NewIsPrivate, Captured, Current,
     Indexed
<1>20. ReuseIsProven'
  BY DEF Finish, GoTo, Fault, ReuseIsProven, Shape, HandedIsCurrent, PresentedIsHeld, Current,
     Handed
<1> QED
  BY <1>1, <1>2, <1>3, <1>4, <1>5, <1>6, <1>7, <1>8, <1>9, <1>10, <1>11, <1>12, <1>13, <1>14,
     <1>15, <1>16, <1>17, <1>18, <1>19, <1>20 DEF SessionsInv, TypeOK

\* Disown preserves the invariant.
LEMMA DisownKeepsInv ==
    ASSUME SessionsInv, NEW p \in Request, Disown(p)
    PROVE  SessionsInv'
<1>h. \A x : Handed(x)' => Handed(x)
  BY DEF Disown, End, Fault, Shape, Handed
<1>t. \A q \in Request, x \in family' : Tracks(q, x) => Tracks(q, x)' \/ x \in abandoned'
  BY DEF Disown, End, Fault, Shape, Tracks, Current, InHand
<1>1. StoresTypeOK'
  BY DEF Disown, End, Fault, Shape
<1>2. RequestsTypeOK'
  BY DEF Disown, End, Fault, Shape, Steps
<1>3. Shape'
  BY DEF Disown, End, Fault, Shape, Steps
<1>4. Known'
  BY DEF Disown, End, Fault, Known, Shape, InHandIsIssued
<1>5. PairsAreIssued'
  BY DEF Disown, End, Fault, PairsAreIssued, Shape, InHandIsIssued
<1>6. InHandIsIssued'
  BY DEF Disown, End, Fault, InHandIsIssued, Shape, PairsAreIssued
<1>7. NewIsPrivate'
  BY DEF Disown, End, Fault, NewIsPrivate, Shape, Known, PairsAreIssued, InHandIsIssued
<1>8. PresentedIsHeld'
  BY DEF Disown, End, Fault, PresentedIsHeld, Shape
<1>9. ReservationIsExclusive'
  BY DEF Disown, End, Fault, ReservationIsExclusive, Shape
<1>10. TouchIsCurrent'
  BY DEF Disown, End, Fault, TouchIsCurrent, Shape, NewIsPrivate, ReservationIsExclusive
<1>11. HandedIsCurrent'
  BY <1>h DEF Disown, End, Fault, HandedIsCurrent, Shape, NewIsPrivate, Current
<1>12. RotatedIsForgotten'
  BY DEF Disown, End, Fault, RotatedIsForgotten, Shape, PairsAreIssued, InHandIsIssued,
     TouchIsCurrent
<1>13. StaleIsGone'
  BY DEF Disown, End, Fault, StaleIsGone, Shape, NewIsPrivate
<1>14. LoadedIsCurrent'
  BY DEF Disown, End, Fault, LoadedIsCurrent, Shape, NewIsPrivate
<1>15. HandedIsIndexed'
  BY <1>h DEF Disown, End, Fault, HandedIsIndexed, Shape, NewIsPrivate, StaleIsGone,
     AllAreVisited, Current, Found, Visiting
<1>16. AllAreVisited'
  BY <1>h DEF Disown, End, Fault, AllAreVisited, Shape, NewIsPrivate, HandedIsIndexed,
     LoadedIsCurrent, Current, Found, Visiting
<1>17. HandedIsRefused'
  BY <1>h DEF Disown, End, Fault, HandedIsRefused, Shape, PairsAreIssued, NewIsPrivate,
     LoadedIsCurrent, RotatedIsForgotten, TouchIsCurrent, Current
<1>18. FamilyIsOwned'
  BY <1>t DEF Disown, End, Fault, FamilyIsOwned, Shape, NewIsPrivate, RotatedIsForgotten,
     RevokedAreCaptured, LoadedIsCurrent, TouchIsCurrent, Owned, Current, Captured
<1>19. RevokedAreCaptured'
  BY DEF Disown, End, Fault, RevokedAreCaptured, Shape, NewIsPrivate, Captured, Current,
     Indexed
<1>20. ReuseIsProven'
  BY DEF Disown, End, Fault, ReuseIsProven, Shape, HandedIsCurrent, PresentedIsHeld, Current,
     Handed
<1> QED
  BY <1>1, <1>2, <1>3, <1>4, <1>5, <1>6, <1>7, <1>8, <1>9, <1>10, <1>11, <1>12, <1>13, <1>14,
     <1>15, <1>16, <1>17, <1>18, <1>19, <1>20 DEF SessionsInv, TypeOK

\* Crash preserves the invariant.
LEMMA CrashKeepsInv ==
    ASSUME SessionsInv, NEW p \in Request, Crash(p)
    PROVE  SessionsInv'
<1>h. \A x : Handed(x)' => Handed(x)
  BY DEF Crash, End, Fault, InHand, Shape, Handed
<1>t. \A q \in Request, x \in family' : Tracks(q, x) => Tracks(q, x)' \/ x \in abandoned'
  BY DEF Crash, End, Fault, InHand, Shape, Tracks, Current, InHand
<1>1. StoresTypeOK'
  BY DEF Crash, End, Fault, InHand, Shape
<1>2. RequestsTypeOK'
  BY DEF Crash, End, Fault, InHand, Shape, Steps
<1>3. Shape'
  BY DEF Crash, End, Fault, InHand, Shape, Steps
<1>4. Known'
  BY DEF Crash, End, Fault, InHand, Known, Shape, InHandIsIssued
<1>5. PairsAreIssued'
  BY DEF Crash, End, Fault, InHand, PairsAreIssued, Shape, InHandIsIssued
<1>6. InHandIsIssued'
  BY DEF Crash, End, Fault, InHand, InHandIsIssued, Shape, PairsAreIssued
<1>7. NewIsPrivate'
  BY DEF Crash, End, Fault, InHand, NewIsPrivate, Shape, Known, PairsAreIssued, InHandIsIssued
<1>8. PresentedIsHeld'
  BY DEF Crash, End, Fault, InHand, PresentedIsHeld, Shape
<1>9. ReservationIsExclusive'
  BY DEF Crash, End, Fault, InHand, ReservationIsExclusive, Shape
<1>10. TouchIsCurrent'
  BY DEF Crash, End, Fault, InHand, TouchIsCurrent, Shape, NewIsPrivate,
     ReservationIsExclusive
<1>11. HandedIsCurrent'
  BY <1>h DEF Crash, End, Fault, InHand, HandedIsCurrent, Shape, NewIsPrivate, Current
<1>12. RotatedIsForgotten'
  BY DEF Crash, End, Fault, InHand, RotatedIsForgotten, Shape, PairsAreIssued, InHandIsIssued,
     TouchIsCurrent
<1>13. StaleIsGone'
  BY DEF Crash, End, Fault, InHand, StaleIsGone, Shape, NewIsPrivate
<1>14. LoadedIsCurrent'
  BY DEF Crash, End, Fault, InHand, LoadedIsCurrent, Shape, NewIsPrivate
<1>15. HandedIsIndexed'
  BY <1>h DEF Crash, End, Fault, InHand, HandedIsIndexed, Shape, NewIsPrivate, StaleIsGone,
     AllAreVisited, Current, Found, Visiting
<1>16. AllAreVisited'
  BY <1>h DEF Crash, End, Fault, InHand, AllAreVisited, Shape, NewIsPrivate, HandedIsIndexed,
     LoadedIsCurrent, Current, Found, Visiting
<1>17. HandedIsRefused'
  BY <1>h DEF Crash, End, Fault, InHand, HandedIsRefused, Shape, PairsAreIssued, NewIsPrivate,
     LoadedIsCurrent, RotatedIsForgotten, TouchIsCurrent, Current
<1>18. FamilyIsOwned'
  BY <1>t DEF Crash, End, Fault, InHand, FamilyIsOwned, Shape, NewIsPrivate,
     RotatedIsForgotten, RevokedAreCaptured, LoadedIsCurrent, TouchIsCurrent, Owned,
     Current, Captured
<1>19. RevokedAreCaptured'
  BY DEF Crash, End, Fault, InHand, RevokedAreCaptured, Shape, NewIsPrivate, Captured,
     Current, Indexed
<1>20. ReuseIsProven'
  BY DEF Crash, End, Fault, InHand, ReuseIsProven, Shape, HandedIsCurrent, PresentedIsHeld,
     Current, Handed
<1> QED
  BY <1>1, <1>2, <1>3, <1>4, <1>5, <1>6, <1>7, <1>8, <1>9, <1>10, <1>11, <1>12, <1>13, <1>14,
     <1>15, <1>16, <1>17, <1>18, <1>19, <1>20 DEF SessionsInv, TypeOK

\* No request, no session: nothing is out of order.
LEMMA InitSessionsInv == Init => SessionsInv
<1> SUFFICES ASSUME Init
             PROVE  SessionsInv
  OBVIOUS
<1>1. StoresTypeOK /\ RequestsTypeOK
  BY DEF Init, Steps
<1>2. Shape /\ Known /\ PairsAreIssued /\ InHandIsIssued /\ NewIsPrivate
  BY DEF Init, Shape, Known, PairsAreIssued, InHandIsIssued, NewIsPrivate
<1>3. \A x : ~Handed(x)
  BY DEF Init, Handed
<1>4. PresentedIsHeld /\ ReservationIsExclusive /\ TouchIsCurrent /\ RotatedIsForgotten
  BY DEF Init, PresentedIsHeld, ReservationIsExclusive, TouchIsCurrent, RotatedIsForgotten
<1>5. HandedIsCurrent /\ HandedIsIndexed /\ AllAreVisited /\ HandedIsRefused
  BY <1>3 DEF Init, HandedIsCurrent, HandedIsIndexed, AllAreVisited, HandedIsRefused, Visiting
<1>6. StaleIsGone /\ LoadedIsCurrent /\ FamilyIsOwned /\ RevokedAreCaptured /\ ReuseIsProven
  BY DEF Init, StaleIsGone, LoadedIsCurrent, FamilyIsOwned, RevokedAreCaptured, ReuseIsProven
<1> QED
  BY <1>1, <1>2, <1>4, <1>5, <1>6

\* Nor does a step that leaves everything alone.
LEMMA StutterKeepsInv == SessionsInv /\ UNCHANGED vars => SessionsInv'
<1> SUFFICES ASSUME SessionsInv, UNCHANGED vars
             PROVE  SessionsInv'
  OBVIOUS
<1>1. StoresTypeOK' /\ RequestsTypeOK'
  BY DEF vars
<1>2. Shape' /\ Known' /\ PairsAreIssued' /\ InHandIsIssued' /\ NewIsPrivate'
  BY DEF vars, Shape, Known, PairsAreIssued, InHandIsIssued, NewIsPrivate
<1>3. PresentedIsHeld' /\ ReservationIsExclusive' /\ TouchIsCurrent' /\ RotatedIsForgotten'
  BY DEF vars, PresentedIsHeld, ReservationIsExclusive, TouchIsCurrent, RotatedIsForgotten
<1>4. \A x : Handed(x)' = Handed(x)
  BY DEF vars, Handed
<1>5. HandedIsCurrent' /\ HandedIsIndexed' /\ AllAreVisited' /\ HandedIsRefused'
  BY <1>4 DEF vars, HandedIsCurrent, HandedIsIndexed, AllAreVisited, HandedIsRefused, Visiting,
     Current, Found
<1>6. StaleIsGone' /\ LoadedIsCurrent' /\ RevokedAreCaptured' /\ ReuseIsProven'
  BY DEF vars, StaleIsGone, LoadedIsCurrent, RevokedAreCaptured, ReuseIsProven, Captured, Current
<1>7. FamilyIsOwned'
  BY DEF vars, FamilyIsOwned, Owned, Tracks, Current
<1> QED
  BY <1>1, <1>2, <1>3, <1>5, <1>6, <1>7

\* Every step preserves the invariant.
LEMMA NextKeepsSessionsInv == SessionsInv /\ [Next]_vars => SessionsInv'
<1> SUFFICES ASSUME SessionsInv, Next
             PROVE  SessionsInv'
  BY StutterKeepsInv
<1>1. ASSUME NEW p \in Request, NEW s \in Session,
             Login(p, s) \/ LoadSession(p, s) \/ FailLoad(p, s)
      PROVE  SessionsInv'
  BY <1>1, LoginKeepsInv, LoadSessionKeepsInv, FailLoadKeepsInv
<1>2. ASSUME NEW p \in Request, NEW x \in Pair, Refresh(p, x) \/ Logout(p, x) \/ LogoutAll(p, x)
      PROVE  SessionsInv'
  BY <1>2, RefreshKeepsInv, LogoutKeepsInv, LogoutAllKeepsInv
<1>3. ASSUME NEW p \in Request, Creating(p) \/ Crash(p)
      PROVE  SessionsInv'
  BY <1>3, CreateSessionKeepsInv, IndexSessionKeepsInv, FinishLoginKeepsInv, FailLoginKeepsInv,
     CrashKeepsInv DEF Creating
<1>4. ASSUME NEW p \in Request, Refreshing(p)
      PROVE  SessionsInv'
  BY <1>4, CheckBlacklistKeepsInv, ReserveKeepsInv, ResolveKeepsInv, AskKeepsInv, IssueKeepsInv,
     VerifyKeepsInv, TouchKeepsInv, RetireKeepsInv, CompensateKeepsInv, ReleaseKeepsInv,
     JudgeKeepsInv DEF Refreshing
<1>5. ASSUME NEW p \in Request, Revoking(p)
      PROVE  SessionsInv'
  BY <1>1, <1>5, MatchKeepsInv, ListFamiliesKeepsInv, CollectKeepsInv, BanAccessKeepsInv,
     BanRefreshKeepsInv, DeleteSessionKeepsInv, UnlistKeepsInv, FinishKeepsInv, DisownKeepsInv
     DEF Revoking
<1>6. ASSUME NEW x \in Pair, Lapse(x)
      PROVE  SessionsInv'
  BY <1>6, LapseKeepsInv
<1> QED
  BY <1>1, <1>2, <1>3, <1>4, <1>5, <1>6 DEF Next

\* SessionsInv holds in every state.
THEOREM SessionsInvariant == Spec => []SessionsInv
<1>1. Init => SessionsInv
  BY InitSessionsInv
<1>2. SessionsInv /\ [Next]_vars => SessionsInv'
  BY NextKeepsSessionsInv
<1> QED
  BY <1>1, <1>2, PTL DEF Spec

\* The state is of its type.
THEOREM SessionsTypeCorrect == Spec => []TypeOK
<1>1. SessionsInv => TypeOK
  OBVIOUS
<1> QED
  BY <1>1, SessionsInvariant, PTL

\* A logout that comes before a refresh is never taken for the reuse of a token
\* (rejectRefreshReuse).
THEOREM ReuseIsAlwaysProven == Spec => []ReuseIsProven
<1>1. SessionsInv => ReuseIsProven
  OBVIOUS
<1> QED
  BY <1>1, SessionsInvariant, PTL

\* A session its client can use is found by RevokeAll, with the two exceptions of
\* LiveIsIndexed.
THEOREM LiveIsAlwaysIndexed == Spec => []LiveIsIndexed
<1>1. SessionsInv => LiveIsIndexed
  BY DEF LiveIsIndexed, HandedIsIndexed, Handed, Found
<1> QED
  BY <1>1, SessionsInvariant, PTL

\* The tokens of a session that has ended are refused unless a rotation was committed
\* while it was being revoked (revokeLoadedSession).
THEOREM EndedIsAlwaysRefused == Spec => []EndedIsRefused
<1>1. SessionsInv => EndedIsRefused
  BY DEF EndedIsRefused, HandedIsRefused, Handed, AcceptsBearer, Current
<1> QED
  BY <1>1, SessionsInvariant, PTL

\* A family at Casdoor is the session's, a request's, or known to be left over.
THEOREM FamilyIsAlwaysTracked == Spec => []FamilyIsTracked
<1>1. ASSUME SessionsInv, NEW p \in Request, NEW x, Tracks(p, x)
      PROVE  x \in InHand(p)
  BY <1>1 DEF Tracks, InHand, Shape
<1>2. SessionsInv => FamilyIsTracked
  BY <1>1 DEF FamilyIsTracked, FamilyIsOwned, Owned
<1> QED
  BY <1>2, SessionsInvariant, PTL

\* The steps that write a session.
LEMMA SessionIsWrittenBy ==
    ASSUME Next, stored' # stored
    PROVE  \E p \in Request : CreateSession(p) \/ Touch(p) \/ DeleteSession(p)
<1>1. ASSUME NEW p \in Request, Creating(p) \/ Crash(p)
      PROVE  CreateSession(p)
  BY <1>1 DEF Creating, Crash, IndexSession, FinishLogin, FailLogin
<1>2. ASSUME NEW p \in Request, Refreshing(p)
      PROVE  Touch(p)
  BY <1>2 DEF Refreshing, CheckBlacklist, Reserve, Resolve, Ask, Issue, Verify, Retire, Compensate,
     Release, Judge
<1>3. ASSUME NEW p \in Request, Revoking(p)
      PROVE  DeleteSession(p)
  BY <1>3 DEF Revoking, Match, ListFamilies, Collect, LoadSession, FailLoad, BanAccess, BanRefresh,
     Unlist, Finish, Disown
<1>4. \A p \in Request : /\ \A s \in Session : ~Login(p, s)
                        /\ \A x \in Pair : ~Refresh(p, x) /\ ~Logout(p, x) /\ ~LogoutAll(p, x)
  BY DEF Login, Refresh, Logout, LogoutAll
<1>5. \A x \in Pair : ~Lapse(x)
  BY DEF Lapse
<1> QED
  BY <1>1, <1>2, <1>3, <1>4, <1>5 DEF Next

\* Rotations of a session are serial, although Touch compares nothing.
THEOREM RotationIsAlwaysSerial == Spec => RotationIsSerial
<1> DEFINE Serial ==
      \A s \in Session :
         stored[s] # 0 /\ stored'[s] \notin {0, stored[s]}
           => \E p \in Request : at[p] = "touching" /\ tok[p] = Current(s)
<1>1. SessionsInv /\ [Next]_vars => [Serial]_vars
  <2> SUFFICES ASSUME SessionsInv, Next, NEW s \in Session,
                      stored[s] # 0, stored'[s] \notin {0, stored[s]}
               PROVE  \E p \in Request : at[p] = "touching" /\ tok[p] = Current(s)
    OBVIOUS
  <2>1. PICK p \in Request : CreateSession(p) \/ Touch(p) \/ DeleteSession(p)
    BY SessionIsWrittenBy
  <2>2. CASE CreateSession(p)
    BY <2>2 DEF CreateSession, NewIsPrivate
  <2>3. CASE Touch(p)
    <3>1. s = Ses(p)
      BY <2>3 DEF Touch, Rotate
    <3> QED
      BY <2>3, <3>1 DEF Touch, TouchIsCurrent, Shape, Current
  <2>4. CASE DeleteSession(p)
    BY <2>4 DEF DeleteSession, Shape
  <2> QED
    BY <2>1, <2>2, <2>3, <2>4
<1> QED
  BY <1>1, SessionsInvariant, PTL DEF Spec, RotationIsSerial

\* A session that has ended stays so.
THEOREM EndedAlwaysStaysEnded == Spec => EndedStaysEnded
<1> DEFINE Stays == \A s \in Session : Ended(s) => stored'[s] = 0
<1>1. SessionsInv /\ [Next]_vars => [Stays]_vars
  <2> SUFFICES ASSUME SessionsInv, Next, NEW s \in Session, Ended(s)
               PROVE  stored'[s] = 0
    OBVIOUS
  <2>1. CASE stored' = stored
    BY <2>1 DEF Ended
  <2>2. CASE stored' # stored
    <3>1. PICK p \in Request : CreateSession(p) \/ Touch(p) \/ DeleteSession(p)
      BY <2>2, SessionIsWrittenBy
    <3> QED
      BY <3>1 DEF Ended, CreateSession, Touch, Rotate, DeleteSession
  <2> QED
    BY <2>1, <2>2
<1> QED
  BY <1>1, SessionsInvariant, PTL DEF Spec, EndedStaysEnded

(***************************************************************************)
(* The sessions implement RefreshChain.                                    *)
(***************************************************************************)

\* Nobody comes by a new pair, or knows another one than before.
Rotating == {"verifying", "touching", "retiring"}
SameHands ==
    \A q \in Request :
       /\ at'[q] \in LoggingIn => at[q] \in LoggingIn /\ tok'[q] = tok[q]
       /\ at'[q] \in Rotating => at[q] \in Rotating /\ tok'[q] = tok[q] /\ fresh'[q] = fresh[q]

\* Nothing happens that the chain of a session would show.
Quiet ==
    /\ SameHands
    /\ \A q \in Request : at'[q] = "creating" <=> at[q] = "creating"
    /\ UNCHANGED <<stored, issued, held, rotated>>

\* A step that brings nothing new, hands out nothing and rotates nothing.
LEMMA BringsNothing ==
    ASSUME ChainInv, SameHands, held' = held, rotated' = rotated,
           \A s \in Session : stored'[s] \in {0, stored[s]}
    PROVE  NewIsUnique' /\ RotationsGoForward'
<1>1. \A q \in Request : \A x : Brings(q, x)' => Brings(q, x)
  BY DEF SameHands, Rotating, Brings
<1>2. NewIsUnique'
  BY <1>1 DEF ChainInv, NewIsUnique
<1>3. \A x \in rotated : x[1] \in Session
  BY DEF ChainInv
<1>4. RotationsGoForward'
  BY <1>3 DEF ChainInv, RotationsGoForward, SameHands, Rotating
<1> QED
  BY <1>2, <1>4

\* A quiet step is no step of the chain.
LEMMA QuietIsNoStep ==
    ASSUME ChainInv, Quiet
    PROVE  NewIsUnique' /\ RotationsGoForward' /\ UNCHANGED Chain!vars
<1>1. NewIsUnique' /\ RotationsGoForward'
  BY BringsNothing DEF Quiet
<1>2. \A s \in Session : Ended(s)' = Ended(s)
  BY DEF Quiet, SameHands, Ended
<1>3. Over' = Over
  BY <1>2 DEF Over
<1> QED
  BY <1>1, <1>3 DEF Quiet, Chain!vars

\* Most steps are quiet.
LEMMA RefreshIsQuiet ==
    ASSUME ChainInv, NEW p \in Request,
           \/ CheckBlacklist(p) \/ Reserve(p) \/ Resolve(p) \/ Ask(p) \/ Verify(p)
           \/ Compensate(p) \/ Release(p) \/ Judge(p)
    PROVE  Quiet
<1>1. CASE CheckBlacklist(p)
  BY <1>1 DEF ChainInv, Quiet, SameHands, Rotating, CheckBlacklist, GoTo, End
<1>2. CASE Reserve(p)
  BY <1>2 DEF ChainInv, Quiet, SameHands, Rotating, Reserve, GoTo, End
<1>3. CASE Resolve(p)
  BY <1>3 DEF ChainInv, Quiet, SameHands, Rotating, Resolve, GoTo
<1>4. CASE Ask(p)
  BY <1>4 DEF ChainInv, Quiet, SameHands, Rotating, Ask, GoTo
<1>5. CASE Verify(p)
  BY <1>5 DEF ChainInv, Quiet, SameHands, Rotating, Verify, GoTo
<1>6. CASE Compensate(p)
  BY <1>6 DEF ChainInv, Quiet, SameHands, Rotating, Compensate, GoTo
<1>7. CASE Release(p)
  BY <1>7 DEF ChainInv, Quiet, SameHands, Rotating, Release, End
<1>8. CASE Judge(p)
  BY <1>8 DEF ChainInv, Quiet, SameHands, Rotating, Judge, End
<1> QED
  BY <1>1, <1>2, <1>3, <1>4, <1>5, <1>6, <1>7, <1>8

LEMMA RevocationIsQuiet ==
    ASSUME ChainInv, NEW p \in Request, Revoking(p), ~DeleteSession(p)
    PROVE  Quiet
<1>1. CASE Match(p)
  BY <1>1 DEF ChainInv, Quiet, SameHands, Rotating, Match, End
<1>2. CASE ListFamilies(p)
  BY <1>2 DEF ChainInv, Quiet, SameHands, Rotating, ListFamilies
<1>3. CASE Collect(p)
  BY <1>3 DEF ChainInv, Quiet, SameHands, Rotating, Collect, GoTo
<1>4. ASSUME NEW s \in Session, LoadSession(p, s)
      PROVE  Quiet
  BY <1>4 DEF ChainInv, Quiet, SameHands, Rotating, LoadSession
<1>5. ASSUME NEW s \in Session, FailLoad(p, s)
      PROVE  Quiet
  BY <1>5 DEF ChainInv, Quiet, SameHands, Rotating, FailLoad, End
<1>6. CASE BanAccess(p)
  BY <1>6 DEF ChainInv, Quiet, SameHands, Rotating, BanAccess, Fail, GoTo, End
<1>7. CASE BanRefresh(p)
  BY <1>7 DEF ChainInv, Quiet, SameHands, Rotating, BanRefresh, Fail, GoTo, End
<1>8. CASE Unlist(p)
  BY <1>8 DEF ChainInv, Quiet, SameHands, Rotating, Unlist, Loop
<1>9. CASE Finish(p)
  BY <1>9 DEF ChainInv, Quiet, SameHands, Rotating, Finish, GoTo
<1>10. CASE Disown(p)
  BY <1>10 DEF ChainInv, Quiet, SameHands, Rotating, Disown, End
<1> QED
  BY <1>1, <1>2, <1>3, <1>4, <1>5, <1>6, <1>7, <1>8, <1>9, <1>10 DEF Revoking

LEMMA ArrivalIsQuiet ==
    ASSUME ChainInv, NEW p \in Request, NEW x \in Pair,
           Refresh(p, x) \/ Logout(p, x) \/ LogoutAll(p, x) \/ Lapse(x) \/ IndexSession(p)
    PROVE  Quiet
<1>1. CASE Refresh(p, x)
  BY <1>1 DEF ChainInv, Quiet, SameHands, Rotating, Refresh, Begin
<1>2. CASE Logout(p, x)
  BY <1>2 DEF ChainInv, Quiet, SameHands, Rotating, Logout, Begin
<1>3. CASE LogoutAll(p, x)
  BY <1>3 DEF ChainInv, Quiet, SameHands, Rotating, LogoutAll
<1>4. CASE Lapse(x)
  BY <1>4 DEF ChainInv, Quiet, SameHands, Rotating, Lapse
<1>5. CASE IndexSession(p)
  BY <1>5 DEF ChainInv, Quiet, SameHands, Rotating, IndexSession, GoTo
<1> QED
  BY <1>1, <1>2, <1>3, <1>4, <1>5

\* Nobody knows of a session that is being issued.
LEMMA LoginIsNoStep ==
    ASSUME ChainInv, NEW p \in Request, NEW s \in Session, Login(p, s)
    PROVE  NewIsUnique' /\ RotationsGoForward' /\ UNCHANGED Chain!vars
<1>1. /\ at' = [at EXCEPT ![p] = "creating"] /\ tok' = [tok EXCEPT ![p] = <<s, 1>>]
      /\ at[p] = "idle" /\ issued[s] = 0 /\ issued' = [issued EXCEPT ![s] = 1]
      /\ UNCHANGED <<fresh, stored, held, rotated>>
  BY DEF Login, Begin
<1>2. \A q \in Request, x \in Pair :
         Brings(q, x)' => Brings(q, x) \/ (q = p /\ x = <<s, 1>>)
  BY <1>1 DEF ChainInv, Brings
<1>3. \A x \in held : x[1] # s
  BY <1>1 DEF ChainInv, PairsAreIssued
<1>4. \A q \in Request, x \in Pair : Brings(q, x) => x[1] # s
  BY <1>1 DEF ChainInv, InHandIsIssued, Shape, Brings
<1>5. NewIsUnique'
  <2> SUFFICES ASSUME NEW q \in Request, NEW x \in Pair, Brings(q, x)'
               PROVE  x \notin held' /\ \A o \in Request : Brings(o, x)' => o = q
    BY DEF NewIsUnique
  <2>1. CASE x[1] = s
    BY <1>1, <1>2, <1>3, <1>4, <2>1
  <2>2. CASE x[1] # s
    BY <1>1, <1>2, <2>2 DEF ChainInv, NewIsUnique
  <2> QED
    BY <2>1, <2>2
<1>6. RotationsGoForward'
  BY <1>1 DEF ChainInv, RotationsGoForward
<1>7. \A t \in Session : Ended(t)' = Ended(t)
  <2> SUFFICES ASSUME NEW t \in Session
               PROVE  Ended(t)' = Ended(t)
    OBVIOUS
  <2>1. CASE t = s
    BY <1>1, <2>1 DEF ChainInv, Ended
  <2>2. CASE t # s
    BY <1>1, <2>2 DEF ChainInv, Ended
  <2> QED
    BY <2>1, <2>2
<1>8. Over' = Over
  BY <1>7 DEF Over
<1> QED
  BY <1>1, <1>5, <1>6, <1>8 DEF Chain!vars

\* The new pair of a refresh is later than everything that is known of its session.
LEMMA IssueIsNoStep ==
    ASSUME ChainInv, NEW p \in Request, Issue(p)
    PROVE  NewIsUnique' /\ RotationsGoForward' /\ UNCHANGED Chain!vars
<1> DEFINE n == issued[Ses(p)] + 1
           x == <<Ses(p), n>>
<1>1. /\ at[p] = "issuing" /\ tok[p] \in Pair /\ Ses(p) \in Session
      /\ n \in 1..MaxPairs /\ x \in Pair
      /\ tok[p][2] < n /\ issued[Ses(p)] > 0
  BY DEF ChainInv, Issue, Shape, InHandIsIssued
<1>2. /\ \/ at' = [at EXCEPT ![p] = "verifying"] /\ fresh' = [fresh EXCEPT ![p] = n]
         \/ at' = [at EXCEPT ![p] = "releasing"] /\ fresh' = fresh
      /\ issued' = [issued EXCEPT ![Ses(p)] = n]
      /\ UNCHANGED <<tok, stored, held, rotated>>
  BY DEF Issue, GoTo
<1>3. \A q \in Request, y \in Pair : Brings(q, y)' => Brings(q, y) \/ (q = p /\ y = x)
  BY <1>1, <1>2 DEF ChainInv, Brings
<1>4. x \notin held /\ \A q \in Request : ~Brings(q, x)
  BY <1>1 DEF ChainInv, PairsAreIssued, InHandIsIssued, Shape, Brings
<1>5. NewIsUnique'
  <2> HIDE DEF x
  <2> SUFFICES ASSUME NEW q \in Request, NEW y \in Pair, Brings(q, y)'
               PROVE  y \notin held' /\ \A o \in Request : Brings(o, y)' => o = q
    BY DEF NewIsUnique
  <2>1. CASE y = x
    BY <1>2, <1>3, <1>4, <2>1
  <2>2. CASE y # x
    BY <1>2, <1>3, <2>2 DEF ChainInv, NewIsUnique
  <2> QED
    BY <2>1, <2>2
<1>6. RotationsGoForward'
  BY <1>1, <1>2 DEF ChainInv, RotationsGoForward
<1>7. \A t \in Session : Ended(t)' = Ended(t)
  BY <1>1, <1>2 DEF ChainInv, Ended
<1>8. Over' = Over
  BY <1>7 DEF Over
<1> QED
  BY <1>2, <1>5, <1>6, <1>8 DEF Chain!vars

\* A login opens its session, and it alone.
LEMMA CreateSessionOpens ==
    ASSUME ChainInv, NEW p \in Request, CreateSession(p)
    PROVE  NewIsUnique' /\ RotationsGoForward' /\ Chain!Open(Ses(p))
<1>1. /\ at[p] = "creating" /\ at' = [at EXCEPT ![p] = "indexing"]
      /\ tok[p] \in Pair /\ Ses(p) \in Session /\ stored[Ses(p)] = 0
      /\ stored' = [stored EXCEPT ![Ses(p)] = 1]
      /\ UNCHANGED <<tok, fresh, issued, held, rotated>>
  BY DEF ChainInv, CreateSession, GoTo, Shape, NewIsPrivate
<1>2. \A q \in Request : \A x : Brings(q, x)' => Brings(q, x)
  BY <1>1 DEF ChainInv, Brings
<1>3. NewIsUnique'
  BY <1>1, <1>2 DEF ChainInv, NewIsUnique
<1>4. \A x \in rotated : x[1] # Ses(p) /\ x[1] \in Session
  BY <1>1 DEF ChainInv, RotationsGoForward, NewIsPrivate
<1>5. RotationsGoForward'
  BY <1>1, <1>4 DEF ChainInv, RotationsGoForward
<1>6. Ses(p) \notin Over
  BY <1>1 DEF Over, Ended
<1>7. \A t \in Session : Ended(t)' = Ended(t)
  <2> SUFFICES ASSUME NEW t \in Session
               PROVE  Ended(t)' = Ended(t)
    OBVIOUS
  <2>1. CASE t = Ses(p)
    BY <1>1, <2>1 DEF ChainInv, Ended
  <2>2. CASE t # Ses(p)
    BY <1>1, <2>2 DEF ChainInv, Ended
  <2> QED
    BY <2>1, <2>2
<1>8. Over' = Over
  BY <1>7 DEF Over
<1> QED
  BY <1>1, <1>3, <1>5, <1>6, <1>8 DEF Chain!Open

\* A request hands a pair out that it alone has brought: the last of its session, unless
\* that was closed meanwhile.
LEMMA HandingGives ==
    ASSUME ChainInv, NEW p \in Request, NEW x \in Pair,
           \/ at[p] = "welcoming" /\ x = tok[p]
           \/ at[p] = "retiring" /\ x = Fresh(p),
           End(p), held' = held \cup {x}, UNCHANGED <<stored, issued, rotated>>
    PROVE  NewIsUnique' /\ RotationsGoForward' /\ Chain!Give(x[1], x[2])
<1>1. /\ Brings(p, x) /\ Handed(x) /\ x \notin held
      /\ x[1] \in Session /\ x[2] \in 1..MaxPairs /\ x = <<x[1], x[2]>>
      /\ issued[x[1]] > 0
  BY HandedIsIssued, SMTT(30) DEF ChainInv, Brings, Handed, NewIsUnique
<1>2. at' = [at EXCEPT ![p] = "idle"] /\ tok' = [tok EXCEPT ![p] = NoPair]
      /\ fresh' = [fresh EXCEPT ![p] = 0]
  BY DEF End
<1>3. SameHands
  BY <1>2 DEF ChainInv, SameHands, Rotating
<1>4. NewIsUnique'
  <2>1. \A q \in Request, y \in Pair : Brings(q, y)' => Brings(q, y) /\ q # p
    BY <1>2, <1>3 DEF ChainInv, SameHands, Rotating, Brings
  <2> QED
    BY <1>1, <2>1 DEF ChainInv, NewIsUnique
<1>5. RotationsGoForward'
  BY <1>3 DEF ChainInv, RotationsGoForward, SameHands, Rotating
<1>6. x = Current(x[1]) \/ stored[x[1]] = 0
  BY <1>1 DEF ChainInv, HandedIsCurrent, RotationsGoForward
<1>7. stored[x[1]] = 0 => x[1] \in Over
  <2>1. \A q \in Request : at[q] = "creating" => q # p /\ Ses(q) # Ses(p)
    BY DEF ChainInv, NewIsPrivate, Shape
  <2>2. x[1] = Ses(p)
    OBVIOUS
  <2> QED
    BY <1>1, <2>1, <2>2 DEF Over, Ended
<1>8. \A t \in Session : Ended(t)' = Ended(t)
  BY <1>2 DEF ChainInv, Ended
<1>9. Over' = Over
  BY <1>8 DEF Over
<1>10. x[2] = stored[x[1]] \/ x[1] \in Over
  BY <1>1, <1>6, <1>7 DEF Current
<1> QED
  BY <1>1, <1>4, <1>5, <1>9, <1>10 DEF Chain!Give

\* Touch exchanges what its client was given, or does nothing.
LEMMA TouchExchanges ==
    ASSUME ChainInv, NEW p \in Request, Touch(p)
    PROVE  /\ NewIsUnique' /\ RotationsGoForward'
           /\ Chain!Exchange(Ses(p), fresh[p]) \/ UNCHANGED Chain!vars
<1>1. /\ at[p] = "touching" /\ tok[p] \in held /\ tok[p] \in Pair /\ Ses(p) \in Session
      /\ fresh[p] \in 1..MaxPairs /\ tok[p][2] < fresh[p] /\ stored[Ses(p)] \in {0, tok[p][2]}
      /\ issued[Ses(p)] > 0
  BY DEF ChainInv, Touch, Shape, PresentedIsHeld, TouchIsCurrent, RotationsGoForward,
     InHandIsIssued
<1>2. /\ at' \in {[at EXCEPT ![p] = "retiring"], [at EXCEPT ![p] = "compensating"]}
      /\ UNCHANGED <<tok, fresh, issued, held>>
  BY DEF Touch, GoTo
<1>3. SameHands
  BY <1>1, <1>2 DEF ChainInv, SameHands, Rotating
<1>4. CASE UNCHANGED <<stored, rotated>>
  <2>1. Quiet
    BY <1>1, <1>2, <1>3, <1>4 DEF ChainInv, Quiet
  <2> QED
    BY <2>1, QuietIsNoStep
<1>5. CASE Rotate(p)
  <2>1. /\ stored[Ses(p)] = tok[p][2] /\ tok[p] = <<Ses(p), stored[Ses(p)]>>
        /\ stored' = [stored EXCEPT ![Ses(p)] = fresh[p]]
        /\ rotated' = rotated \cup {tok[p]}
    BY <1>1, <1>5 DEF Rotate
  <2>2. \A q \in Request, x \in Pair : Brings(q, x)' => Brings(q, x)
    BY <1>3 DEF SameHands, Rotating, Brings
  <2>3. NewIsUnique'
    BY <1>2, <2>2 DEF ChainInv, NewIsUnique
  <2>4. tok[p] \notin rotated
    BY <1>1, <2>1 DEF ChainInv, RotationsGoForward
  <2>5. \A x \in rotated' : stored'[x[1]] = 0 \/ x[2] < stored'[x[1]]
    <3> SUFFICES ASSUME NEW x \in rotated'
                 PROVE  stored'[x[1]] = 0 \/ x[2] < stored'[x[1]]
      OBVIOUS
    <3>1. CASE x = tok[p]
      BY <1>1, <2>1, <3>1 DEF ChainInv
    <3>2. CASE x \in rotated /\ x[1] = Ses(p)
      <4>1. x[2] < tok[p][2] /\ x[2] \in 1..MaxPairs
        BY <1>1, <2>1, <3>2 DEF ChainInv, RotationsGoForward
      <4> QED
        BY <1>1, <2>1, <3>2, <4>1 DEF ChainInv
    <3>3. CASE x \in rotated /\ x[1] # Ses(p)
      BY <2>1, <3>3 DEF ChainInv, RotationsGoForward
    <3> QED
      BY <2>1, <3>1, <3>2, <3>3
  <2>6. RotationsGoForward'
    BY <1>1, <1>2, <1>3, <2>1, <2>5 DEF ChainInv, RotationsGoForward, SameHands, Rotating
  <2>7. \A t \in Session : Ended(t)' = Ended(t)
    <3>1. \A t \in Session : stored'[t] = 0 <=> stored[t] = 0
      BY <1>1, <2>1 DEF ChainInv
    <3> QED
      BY <1>1, <1>2, <3>1 DEF ChainInv, Ended
  <2>8. Over' = Over
    BY <2>7 DEF Over
  <2>9. Chain!Exchange(Ses(p), fresh[p])
    BY <1>1, <1>2, <2>1, <2>4, <2>8 DEF Chain!Exchange
  <2> QED
    BY <2>3, <2>6, <2>9
<1> QED
  BY <1>4, <1>5 DEF Touch

\* A revocation closes its session for good.
LEMMA DeleteSessionCloses ==
    ASSUME ChainInv, NEW p \in Request, DeleteSession(p)
    PROVE  /\ NewIsUnique' /\ RotationsGoForward'
           /\ Chain!Close(loaded[p][1]) \/ UNCHANGED Chain!vars
<1> DEFINE s == loaded[p][1]
<1>1. /\ at[p] = "deleting" /\ s \in Session /\ issued[s] > 0
      /\ \A q \in Request : at[q] = "creating" => Ses(q) # s
  BY DEF ChainInv, DeleteSession, Shape, InHandIsIssued, NewIsPrivate
<1>2. /\ at' \in {[at EXCEPT ![p] = "unlisting"], [at EXCEPT ![p] = "loading"]}
      /\ stored' \in {stored, [stored EXCEPT ![s] = 0]}
      /\ UNCHANGED <<tok, fresh, issued, held, rotated>>
  BY DEF DeleteSession, GoTo, Loop
<1>3. SameHands
  BY <1>1, <1>2 DEF ChainInv, SameHands, Rotating
<1>4. NewIsUnique' /\ RotationsGoForward'
  BY <1>2, <1>3, BringsNothing DEF ChainInv
<1>5. CASE stored' = stored
  <2>1. Quiet
    BY <1>1, <1>2, <1>3, <1>5 DEF ChainInv, Quiet
  <2> QED
    BY <1>4, <2>1, QuietIsNoStep
<1>6. CASE stored' # stored
  <2>1. stored[s] # 0 /\ stored' = [stored EXCEPT ![s] = 0]
    BY <1>1, <1>2, <1>6 DEF ChainInv
  <2>2. s \notin Over
    BY <2>1 DEF Over, Ended
  <2>3. \A t \in Session : Ended(t)' <=> Ended(t) \/ t = s
    <3> SUFFICES ASSUME NEW t \in Session
                 PROVE  Ended(t)' <=> Ended(t) \/ t = s
      OBVIOUS
    <3>1. \A q \in Request : at'[q] = "creating" <=> at[q] = "creating"
      BY <1>1, <1>2 DEF ChainInv
    <3>2. CASE t = s
      BY <1>1, <1>2, <2>1, <3>1, <3>2 DEF ChainInv, Ended
    <3>3. CASE t # s
      BY <1>2, <2>1, <3>1, <3>3 DEF ChainInv, Ended
    <3> QED
      BY <3>2, <3>3
  <2>4. Over' = Over \cup {s}
    BY <1>1, <2>3 DEF Over
  <2> QED
    BY <1>2, <1>4, <2>1, <2>2, <2>4 DEF Chain!Close
<1> QED
  BY <1>5, <1>6

\* A login that stops before it has opened its session closes it.
LEMMA StopCloses ==
    ASSUME ChainInv, NEW p \in Request, at[p] # "idle", End(p),
           UNCHANGED <<stored, issued, held, rotated>>
    PROVE  /\ NewIsUnique' /\ RotationsGoForward'
           /\ \/ Ses(p) \in Session /\ Chain!Close(Ses(p))
              \/ UNCHANGED Chain!vars
<1>1. at' = [at EXCEPT ![p] = "idle"] /\ tok' = [tok EXCEPT ![p] = NoPair]
  BY DEF End
<1>2. SameHands
  BY <1>1 DEF ChainInv, SameHands, Rotating, End
<1>3. NewIsUnique' /\ RotationsGoForward'
  BY <1>2, BringsNothing DEF ChainInv
<1>4. CASE at[p] # "creating"
  <2>1. Quiet
    BY <1>1, <1>2, <1>4 DEF ChainInv, Quiet
  <2> QED
    BY <2>1, QuietIsNoStep
<1>5. CASE at[p] = "creating"
  <2>1. /\ Ses(p) \in Session /\ stored[Ses(p)] = 0 /\ issued[Ses(p)] > 0
        /\ \A q \in Request : q # p /\ at[q] = "creating" => Ses(q) # Ses(p)
    BY <1>5 DEF ChainInv, Shape, NewIsPrivate, InHandIsIssued
  <2>2. Ses(p) \notin Over
    BY <1>5 DEF Over, Ended
  <2>3. \A t \in Session : Ended(t)' <=> Ended(t) \/ t = Ses(p)
    <3> SUFFICES ASSUME NEW t \in Session
                 PROVE  Ended(t)' <=> Ended(t) \/ t = Ses(p)
      OBVIOUS
    <3>1. CASE t = Ses(p)
      BY <1>1, <2>1, <3>1 DEF ChainInv, Ended
    <3>2. CASE t # Ses(p)
      BY <1>1, <1>5, <3>2 DEF ChainInv, Ended
    <3> QED
      BY <3>1, <3>2
  <2>4. Over' = Over \cup {Ses(p)}
    BY <2>1, <2>3 DEF Over
  <2>5. stored' = [stored EXCEPT ![Ses(p)] = 0]
    BY <2>1 DEF ChainInv
  <2> QED
    BY <1>3, <2>1, <2>2, <2>4, <2>5 DEF Chain!Close
<1> QED
  BY <1>4, <1>5

\* Every step is one of the chain or none, and keeps what the chain needs.
LEMMA NextRefinesChain ==
    ChainInv /\ [Next]_vars => ChainInv' /\ [Chain!Next]_(Chain!vars)
<1> DEFINE Kept == NewIsUnique' /\ RotationsGoForward'
<1> SUFFICES ASSUME ChainInv, [Next]_vars
             PROVE  Kept /\ [Chain!Next]_(Chain!vars)
  BY NextKeepsSessionsInv DEF ChainInv
<1>1. ASSUME NEW p \in Request, NEW s \in Session, Login(p, s)
      PROVE  Kept /\ UNCHANGED Chain!vars
  BY <1>1, LoginIsNoStep
<1>2. ASSUME NEW p \in Request, NEW x \in Pair,
             Refresh(p, x) \/ Logout(p, x) \/ LogoutAll(p, x) \/ Lapse(x)
      PROVE  Kept /\ UNCHANGED Chain!vars
  BY <1>2, ArrivalIsQuiet, QuietIsNoStep
<1>3. ASSUME NEW p \in Request, Creating(p)
      PROVE  Kept /\ [Chain!Next]_(Chain!vars)
  <2>1. CASE CreateSession(p)
    <3>1. Ses(p) \in Session
      BY <2>1 DEF ChainInv, CreateSession, Shape
    <3> QED
      BY <2>1, <3>1, CreateSessionOpens DEF Chain!Next
  <2>2. CASE IndexSession(p)
    <3>1. tok[p] \in Pair
      BY <2>2 DEF ChainInv, IndexSession, Shape
    <3> QED
      BY <2>2, <3>1, ArrivalIsQuiet, QuietIsNoStep
  <2>3. CASE FinishLogin(p)
    <3>1. tok[p] \in Pair /\ tok[p][1] \in Session /\ tok[p][2] \in 1..MaxPairs
      BY <2>3 DEF ChainInv, FinishLogin, Shape
    <3>2. Kept /\ Chain!Give(tok[p][1], tok[p][2])
      BY <2>3, <3>1, HandingGives DEF FinishLogin
    <3> QED
      BY <3>1, <3>2 DEF Chain!Next
  <2>4. CASE FailLogin(p)
    BY <2>4, StopCloses DEF FailLogin, Chain!Next
  <2> QED
    BY <1>3, <2>1, <2>2, <2>3, <2>4 DEF Creating
<1>4. ASSUME NEW p \in Request, Refreshing(p)
      PROVE  Kept /\ [Chain!Next]_(Chain!vars)
  <2>1. CASE Issue(p)
    BY <2>1, IssueIsNoStep
  <2>2. CASE Touch(p)
    <3>1. Ses(p) \in Session /\ fresh[p] \in 1..MaxPairs
      BY <2>2 DEF ChainInv, Touch, Shape
    <3> QED
      BY <2>2, <3>1, TouchExchanges DEF Chain!Next
  <2>3. CASE Retire(p)
    <3>1. /\ Fresh(p) \in Pair /\ Fresh(p)[1] \in Session /\ Fresh(p)[2] \in 1..MaxPairs
      BY <2>3 DEF ChainInv, Retire, Shape
    <3>2. Kept /\ Chain!Give(Fresh(p)[1], Fresh(p)[2])
      BY <2>3, <3>1, HandingGives DEF Retire
    <3> QED
      BY <3>1, <3>2 DEF Chain!Next
  <2> QED
    BY <1>4, <2>1, <2>2, <2>3, RefreshIsQuiet, QuietIsNoStep DEF Refreshing
<1>5. ASSUME NEW p \in Request, Revoking(p)
      PROVE  Kept /\ [Chain!Next]_(Chain!vars)
  <2>1. CASE DeleteSession(p)
    <3>1. loaded[p][1] \in Session
      BY <2>1 DEF ChainInv, DeleteSession, Shape
    <3> QED
      BY <2>1, <3>1, DeleteSessionCloses DEF Chain!Next
  <2>2. CASE ~DeleteSession(p)
    BY <1>5, <2>2, RevocationIsQuiet, QuietIsNoStep
  <2> QED
    BY <2>1, <2>2
<1>6. ASSUME NEW p \in Request, Crash(p)
      PROVE  Kept /\ [Chain!Next]_(Chain!vars)
  BY <1>6, StopCloses DEF Crash, Chain!Next
<1>7. ASSUME NEW x \in Pair, Lapse(x)
      PROVE  Kept /\ UNCHANGED Chain!vars
  <2>1. Quiet
    BY <1>7 DEF Quiet, SameHands, Rotating, Lapse
  <2> QED
    BY <2>1, QuietIsNoStep
<1>8. CASE UNCHANGED vars
  <2>1. Quiet
    BY <1>8 DEF vars, Quiet, SameHands, Rotating
  <2> QED
    BY <2>1, QuietIsNoStep
<1> QED
  BY <1>1, <1>2, <1>3, <1>4, <1>5, <1>6, <1>7, <1>8 DEF Next

\* Nothing is new or rotated at first.
LEMMA InitChainInv == Init => ChainInv /\ Chain!Init
<1> SUFFICES ASSUME Init
             PROVE  ChainInv /\ Chain!Init
  OBVIOUS
<1>1. NewIsUnique /\ RotationsGoForward
  BY DEF Init, NewIsUnique, RotationsGoForward, Brings
<1>2. Over = {}
  BY DEF Init, Over, Ended
<1> QED
  BY <1>1, <1>2, InitSessionsInv DEF Init, ChainInv, Chain!Init

\* New pairs are unique, and rotations go forward.
THEOREM ChainInvariant == Spec => []ChainInv
<1>1. ChainInv /\ [Next]_vars => ChainInv'
  BY NextRefinesChain
<1> QED
  BY <1>1, InitChainInv, PTL DEF Spec

\* Only the last pair of a session is exchanged, once, for a later one, by a client it was
\* given to, and a session that is over is never continued (RefreshToken, Touch and the
\* revocations, with every fault in between).
THEOREM SessionsRefinement == Spec => ImplementsRefreshChain
<1> QED
  BY InitChainInv, NextRefinesChain, PTL DEF Spec, ImplementsRefreshChain, Chain!Spec
=============================================================================
