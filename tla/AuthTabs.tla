------------------------------- MODULE AuthTabs -------------------------------
(***************************************************************************)
(* The session of one browser: an AuthService in every open tab, the       *)
(* refresh token in a cookie they share, a hint in localStorage that says  *)
(* a session exists, and the server that rotates the token.                *)
(*                                                                         *)
(* A refresh and the POST of a sign-out take the lock of withRefreshLock,  *)
(* a sign-in and a change of password do not.  A request waits for the     *)
(* lock, is sent with the cookie of that moment, is processed, and is      *)
(* answered or lost; between any two of these a tab may do something else. *)
(* One account; the access token is held or not, and any call may find it  *)
(* expired.                                                                *)
(***************************************************************************)
EXTENDS Naturals, Sequences, FiniteSets

CONSTANTS
  Tabs,
  MaxRequests,   \* bound: requests of the browser at a time
  MaxTokens,     \* bound: refresh tokens the server issues
  MaxSignIns     \* bound: of them, those of a sign-in or a change of password

ASSUME BoundsAssumption ==
  /\ MaxRequests \in Nat \ {0}
  /\ MaxTokens \in Nat \ {0}
  /\ MaxSignIns \in Nat

VARIABLES
  cookie,    \* the refresh token in the HttpOnly cookie, 0 when there is none
  hint,      \* SESSION_HINT_KEY is in localStorage
  legacy,    \* the token an older bundle left in storage, 0 when there is none
  events,    \* events[t]: storage events that tab t has not handled
  access,    \* access[t]: accessToken is set
  shared,    \* shared[t]: the request behind refresh$, 0 when it is null
  loading,   \* loading[t]: whether restore() waits for GET /me
  req,       \* the requests of the browser
  holder,    \* the request that holds the Web Lock, 0 when none does
  token,     \* what became of each token; "lost": its successor never arrived
  line,      \* line[k]: the sign-in that token k descends from
  doors      \* what happened that may part the hint from the cookie

storageVars == <<cookie, hint, legacy, events>>
memoryVars == <<access, shared, loading>>
serverVars == <<token, line>>
vars == <<storageVars, memoryVars, req, holder, serverVars, doors>>

Ids == 1..MaxRequests
Tokens == 1..MaxTokens
Fates == {"unissued", "live", "rotated", "lost", "ended"}
Locked == {"refresh", "blacklist"}
Signing == {"login", "password"}
Callers == {"restore", "call"}

Requests ==
  [kind : Locked \cup Signing, tab : Tabs, stage : {"queued", "sent", "served"},
   shown : 0..MaxTokens,     \* the token presented
   got : 0..MaxTokens,       \* the token in the answer, 0 for a rejection
   migrates : BOOLEAN,       \* the token presented is the legacy one
   callers : SUBSET Callers] \* who is subscribed to the refresh
NoRequest == [kind |-> "none"]

NewRequest(kind, t, stage, callers) ==
  [kind |-> kind, tab |-> t, stage |-> stage, shown |-> 0, got |-> 0,
   migrates |-> FALSE, callers |-> callers]

Idle(r) == req[r] = NoRequest
Is(r, kinds, stages) == ~Idle(r) /\ req[r].kind \in kinds /\ req[r].stage \in stages

\* Bound: a token is left for every request that may be given one.
TokenLeft ==
  Cardinality({r \in Ids : Is(r, {"refresh", "login", "password"}, {"queued", "sent"})})
    < Cardinality({k \in Tokens : token[k] = "unissued"})

SignInLeft ==
  Cardinality({r \in Ids : Is(r, Signing, {"sent"})})
    + Cardinality({k \in Tokens \ {1} : line[k] = k}) < MaxSignIns

Init ==
  /\ \/ cookie = 1 /\ hint = TRUE /\ legacy = 0
     \/ cookie = 0 /\ hint = FALSE /\ legacy = 1
  /\ events = [t \in Tabs |-> << >>]
  /\ access = [t \in Tabs |-> FALSE]
  /\ shared = [t \in Tabs |-> 0]
  /\ loading = [t \in Tabs |-> "no"]
  /\ req = [r \in Ids |-> NoRequest]
  /\ holder = 0
  /\ token = [k \in Tokens |-> IF k = 1 THEN "live" ELSE "unissued"]
  /\ line = [k \in Tokens |-> 1]
  /\ doors = {}
-------------------------------------------------------------------------------
(* What the methods of AuthService do to the storage and the memory of t. *)

Tell(t, what) ==
  events' = [u \in Tabs |-> IF u = t THEN events[u] ELSE Append(events[u], what)]

AnnounceSessionChange(t) == hint' = TRUE /\ Tell(t, "set")

RemoveHint(t) ==
  /\ hint' = FALSE
  /\ IF hint THEN Tell(t, "removed") ELSE UNCHANGED events

DropMemorySession(t) ==
  /\ access' = [access EXCEPT ![t] = FALSE]
  /\ shared' = [shared EXCEPT ![t] = 0]

Logout(t) == DropMemorySession(t) /\ RemoveHint(t) /\ legacy' = 0

\* The first request of a set of requests that is free.
FreeIn(requests, r) ==
  requests[r] = NoRequest /\ \A s \in 1..(r - 1) : requests[s] # NoRequest

\* refreshTokens(), the access token being held or not: join the request that
\* refresh$ shares, or make one if there is a session.
RefreshTokens(t, caller, held) ==
  \/ /\ shared[t] # 0
     /\ req' = [req EXCEPT ![shared[t]].callers = @ \cup {caller}]
     /\ UNCHANGED shared
  \/ /\ shared[t] = 0
     /\ held \/ hint \/ legacy # 0
     /\ TokenLeft
     /\ \E r \in Ids :
          /\ FreeIn(req, r)
          /\ req' = [req EXCEPT ![r] = NewRequest("refresh", t, "queued", {caller})]
          /\ shared' = [shared EXCEPT ![t] = r]

\* A restore that ends without GET /me leaves a migrated session unannounced.
RestoreDoors(t) ==
  IF loading[t] = "migrated" /\ ~hint THEN {"unannounced"} ELSE {}

\* The browser gives up requests, which the server has had or never gets.
Unheard(rs) ==
  {req[r].shown : r \in {s \in rs : Is(s, {"refresh"}, {"served"}) /\ req[s].got # 0}}
GiveUp(rs) ==
  /\ token' = [k \in Tokens |-> IF k \in Unheard(rs) THEN "lost" ELSE token[k]]
  /\ holder' = IF holder \in rs THEN 0 ELSE holder
UnsaidDoors(rs) ==
  IF \E r \in rs : Is(r, {"blacklist"}, {"queued", "sent"}) THEN {"unsaid"} ELSE {}
-------------------------------------------------------------------------------
(* What the user, the router and the other tabs make a tab do. *)

\* An API call without an access token, or one the server answers with 401.
Call(t) ==
  /\ RefreshTokens(t, "call", access[t])
  /\ UNCHANGED <<storageVars, access, loading, holder, serverVars, doors>>

\* The page is loaded again: memory and requests are gone, restore() begins.
Reload(t) ==
  LET mine == {r \in Ids : ~Idle(r) /\ req[r].tab = t}
      kept == [r \in Ids |-> IF r \in mine THEN NoRequest ELSE req[r]]
  IN /\ GiveUp(mine)
     /\ doors' = doors \cup UnsaidDoors(mine) \cup RestoreDoors(t)
     /\ events' = [events EXCEPT ![t] = << >>]
     /\ access' = [access EXCEPT ![t] = FALSE]
     /\ loading' = [loading EXCEPT ![t] = "no"]
     /\ \/ /\ ~hint /\ legacy = 0
           /\ req' = kept
           /\ shared' = [shared EXCEPT ![t] = 0]
        \/ /\ hint \/ legacy # 0
           /\ TokenLeft
           /\ \E r \in Ids :
                /\ FreeIn(kept, r)
                /\ req' = [kept EXCEPT ![r] = NewRequest("refresh", t, "queued", {"restore"})]
                /\ shared' = [shared EXCEPT ![t] = r]
     /\ UNCHANGED <<cookie, hint, legacy, line>>

\* onStorage: another tab removed the hint.
HeardRemoved(t) ==
  /\ events[t] # << >> /\ Head(events[t]) = "removed"
  /\ events' = [events EXCEPT ![t] = Tail(@)]
  /\ DropMemorySession(t)
  /\ UNCHANGED <<cookie, hint, legacy, loading, req, holder, serverVars, doors>>

\* onStorage: another tab signed in; pick the session up from the cookie.
HeardSet(t) ==
  /\ events[t] # << >> /\ Head(events[t]) = "set"
  /\ events' = [events EXCEPT ![t] = Tail(@)]
  /\ access' = [access EXCEPT ![t] = FALSE]
  /\ \/ RefreshTokens(t, "restore", FALSE)
     \/ shared[t] = 0 /\ ~hint /\ legacy = 0 /\ UNCHANGED <<req, shared>>
  /\ UNCHANGED <<cookie, hint, legacy, loading, holder, serverVars, doors>>

\* Mutant: the POST of a sign-out does not take the lock.
SignOutUnlocked(t) ==
  /\ access[t] \/ hint \/ legacy # 0
  /\ \E r \in Ids :
       /\ FreeIn(req, r)
       /\ req' = [req EXCEPT ![r] = [NewRequest("blacklist", t, "sent", {})
                                      EXCEPT !.shown = cookie]]
  /\ Logout(t)
  /\ UNCHANGED <<cookie, loading, holder, serverVars, doors>>

SignOut(t) ==
  /\ access[t] \/ hint \/ legacy # 0
  /\ \E r \in Ids :
       /\ FreeIn(req, r)
       /\ req' = [req EXCEPT ![r] = NewRequest("blacklist", t, "queued", {})]
  /\ Logout(t)
  /\ UNCHANGED <<cookie, loading, holder, serverVars, doors>>

\* Password or magic link, and the change of password: not under the lock.
SignIn(t) ==
  \E kind \in Signing, r \in Ids :
    /\ kind = "password" => access[t]
    /\ FreeIn(req, r) /\ TokenLeft /\ SignInLeft
    /\ req' = [req EXCEPT ![r] = NewRequest(kind, t, "sent", {})]
    /\ UNCHANGED <<storageVars, memoryVars, holder, serverVars, doors>>

\* restore() ends: GET /me answered, or failed or took more than 10 s.
RestoreDone(t) ==
  /\ loading[t] # "no"
  /\ loading' = [loading EXCEPT ![t] = "no"]
  /\ IF hint THEN UNCHANGED <<hint, events>> ELSE AnnounceSessionChange(t)
  /\ UNCHANGED <<cookie, legacy, access, shared, req, holder, serverVars, doors>>

RestoreFails(t) ==
  /\ loading[t] # "no"
  /\ loading' = [loading EXCEPT ![t] = "no"]
  /\ access' = [access EXCEPT ![t] = FALSE]
  /\ doors' = doors \cup RestoreDoors(t)
  /\ UNCHANGED <<storageVars, shared, req, holder, serverVars>>

\* restore() waits no more than 10 s for the refresh, which goes on.
RestoreTimesOut(r) ==
  /\ Is(r, {"refresh"}, {"queued", "sent", "served"}) /\ "restore" \in req[r].callers
  /\ req' = [req EXCEPT ![r].callers = @ \ {"restore"}]
  /\ access' = [access EXCEPT ![req[r].tab] = FALSE]
  /\ UNCHANGED <<storageVars, shared, loading, holder, serverVars, doors>>
-------------------------------------------------------------------------------
(* The way of a request: the lock, the cookie, the server, the answer. *)

\* Mutants: the session hint is taken for a token; the lock is not waited for.
GrantedWithHint(r) ==
  /\ holder = 0 /\ Is(r, Locked, {"queued"})
  /\ holder' = r
  /\ req' = [req EXCEPT ![r].stage = "sent", ![r].shown = IF hint THEN MaxTokens + 1 ELSE 0]
  /\ UNCHANGED <<storageVars, memoryVars, serverVars, doors>>
GrantedUnlocked(r) ==
  LET migrates == req[r].kind = "refresh" /\ legacy # 0 IN
  /\ Is(r, Locked, {"queued"})
  /\ holder' = r
  /\ req' = [req EXCEPT ![r].stage = "sent", ![r].migrates = migrates,
                        ![r].shown = IF migrates THEN legacy ELSE cookie]
  /\ UNCHANGED <<storageVars, memoryVars, serverVars, doors>>

\* The lock is free: the refresh or the sign-out leaves with the cookie of now.
Granted(r) ==
  LET migrates == req[r].kind = "refresh" /\ legacy # 0 IN
  /\ holder = 0 /\ Is(r, Locked, {"queued"})
  /\ holder' = r
  /\ req' = [req EXCEPT ![r].stage = "sent", ![r].migrates = migrates,
                        ![r].shown = IF migrates THEN legacy ELSE cookie]
  /\ UNCHANGED <<storageVars, memoryVars, serverVars, doors>>

Live(k) == k # 0 /\ token[k] = "live"

\* The server issues a token: one nobody has had.
Issue(k, fates, from) ==
  /\ token[k] = "unissued" /\ \A j \in 1..(k - 1) : token[j] # "unissued"
  /\ token' = [fates EXCEPT ![k] = "live"]
  /\ line' = [line EXCEPT ![k] = from]

ServeRefresh(r) ==
  /\ Is(r, {"refresh"}, {"sent"})
  /\ \/ /\ Live(req[r].shown)
        /\ \E k \in Tokens :
             /\ Issue(k, [token EXCEPT ![req[r].shown] = "rotated"], line[req[r].shown])
             /\ req' = [req EXCEPT ![r].stage = "served", ![r].got = k]
     \/ /\ ~Live(req[r].shown)
        /\ req' = [req EXCEPT ![r].stage = "served"]
        /\ UNCHANGED serverVars
  /\ UNCHANGED <<storageVars, memoryVars, holder, doors>>

Ended(k) == IF k = 0 THEN token ELSE [token EXCEPT ![k] = "ended"]
ServeBlacklist(r) ==
  /\ Is(r, {"blacklist"}, {"sent"})
  /\ token' = Ended(req[r].shown)
  /\ req' = [req EXCEPT ![r].stage = "served"]
  /\ UNCHANGED <<storageVars, memoryVars, holder, line, doors>>

\* A change of password revokes every token of the account.
Revoked == [k \in Tokens |-> IF token[k] = "live" THEN "ended" ELSE token[k]]
ServeSignIn(r) ==
  /\ Is(r, Signing, {"sent"})
  /\ \E k \in Tokens :
       /\ Issue(k, IF req[r].kind = "password" THEN Revoked ELSE token, k)
       /\ req' = [req EXCEPT ![r].stage = "served", ![r].got = k]
  /\ UNCHANGED <<storageVars, memoryVars, holder, doors>>

Finish(r) == req' = [req EXCEPT ![r] = NoRequest]
Unlock(r) == holder' = IF holder = r THEN 0 ELSE holder

\* postRefresh installs the token, whoever still wants it; restore() goes on.
RefreshAnswered(r) ==
  LET t == req[r].tab IN
  /\ Is(r, {"refresh"}, {"served"}) /\ req[r].got # 0
  /\ Finish(r) /\ Unlock(r)
  /\ cookie' = req[r].got
  /\ legacy' = IF req[r].migrates THEN 0 ELSE legacy
  /\ access' = [access EXCEPT ![t] = TRUE]
  /\ shared' = [shared EXCEPT ![t] = 0]
  /\ loading' = IF "restore" \in req[r].callers
                THEN [loading EXCEPT ![t] =
                        IF req[r].migrates \/ @ = "migrated" THEN "migrated" ELSE "me"]
                ELSE loading
  /\ doors' = doors \cup
       IF req[r].migrates /\ ~hint /\ "restore" \notin req[r].callers
       THEN {"unannounced"} ELSE {}
  /\ UNCHANGED <<hint, events, serverVars>>

\* A rejection ends the session of whoever waits for the refresh.
RefreshRejected(r) ==
  LET t == req[r].tab IN
  /\ Is(r, {"refresh"}, {"served"}) /\ req[r].got = 0
  /\ Finish(r) /\ Unlock(r)
  /\ IF req[r].callers # {}
     THEN Logout(t)
     ELSE /\ shared' = [shared EXCEPT ![t] = 0]
          /\ legacy' = IF req[r].migrates THEN 0 ELSE legacy
          /\ UNCHANGED <<access, hint, events>>
  /\ UNCHANGED <<cookie, loading, serverVars, doors>>

BlacklistAnswered(r) ==
  /\ Is(r, {"blacklist"}, {"served"})
  /\ Finish(r) /\ Unlock(r)
  /\ cookie' = 0
  /\ UNCHANGED <<hint, legacy, events, memoryVars, serverVars, doors>>

\* startSession; the answer may cross a refresh that left with the old cookie.
SignedIn(r) ==
  LET t == req[r].tab IN
  /\ Is(r, Signing, {"served"})
  /\ Finish(r)
  /\ cookie' = req[r].got
  /\ access' = [access EXCEPT ![t] = TRUE]
  /\ legacy' = 0
  /\ AnnounceSessionChange(t)
  /\ doors' = doors \cup
       IF \E s \in Ids : Is(s, {"refresh"}, {"sent", "served"}) THEN {"crossed"} ELSE {}
  /\ UNCHANGED <<shared, loading, holder, serverVars>>

\* Mutant: a network error ends the session like a rejection.
LostEndsSession(r) ==
  /\ Is(r, Locked \cup Signing, {"sent", "served"})
  /\ Finish(r)
  /\ GiveUp({r})
  /\ Logout(req[r].tab)
  /\ UNCHANGED <<cookie, loading, line, doors>>

\* A network error, a 5xx or no answer within 30 s.
Lost(r) ==
  /\ Is(r, Locked \cup Signing, {"sent", "served"})
  /\ Finish(r)
  /\ GiveUp({r})
  /\ doors' = doors \cup UnsaidDoors({r})
  /\ IF req[r].kind = "refresh"
     THEN /\ shared' = [shared EXCEPT ![req[r].tab] = 0]
          /\ access' = IF "restore" \in req[r].callers
                       THEN [access EXCEPT ![req[r].tab] = FALSE] ELSE access
     ELSE UNCHANGED <<shared, access>>
  /\ UNCHANGED <<storageVars, loading, line>>

TabStep ==
  \E t \in Tabs :
    \/ Call(t) \/ Reload(t) \/ HeardRemoved(t) \/ HeardSet(t)
    \/ SignOut(t) \/ SignIn(t) \/ RestoreDone(t) \/ RestoreFails(t)

RequestStep ==
  \E r \in Ids :
    \/ RestoreTimesOut(r) \/ Granted(r)
    \/ ServeRefresh(r) \/ ServeBlacklist(r) \/ ServeSignIn(r)
    \/ RefreshAnswered(r) \/ RefreshRejected(r) \/ BlacklistAnswered(r)
    \/ SignedIn(r) \/ Lost(r)

Next == TabStep \/ RequestStep

Spec == Init /\ [][Next]_vars
-------------------------------------------------------------------------------
TypeOK ==
  /\ cookie \in 0..MaxTokens /\ legacy \in 0..MaxTokens /\ hint \in BOOLEAN
  /\ events \in [Tabs -> Seq({"set", "removed"})]
  /\ access \in [Tabs -> BOOLEAN]
  /\ shared \in [Tabs -> 0..MaxRequests]
  /\ loading \in [Tabs -> {"no", "me", "migrated"}]
  /\ req \in [Ids -> Requests \cup {NoRequest}]
  /\ holder \in 0..MaxRequests
  /\ token \in [Tokens -> Fates]
  /\ line \in [Tokens -> Tokens]
  /\ doors \subseteq {"crossed", "unsaid", "unannounced"}

\* Two tabs never present the same cookie: a refresh is rejected because the
\* session was ended, or because the answer to an earlier refresh was lost;
\* not because another refresh, whose answer arrives, used the token up.
RefreshesNeverClash ==
  \A r \in Ids :
    Is(r, {"refresh"}, {"served"}) /\ req[r].got = 0 /\ req[r].shown # 0 =>
      token[req[r].shown] \in {"lost", "ended"}

\* Once a sign-out, or a change of password, has ended a session at the server,
\* no refresh under way brings that session back into the cookie.
Held == {cookie} \cup {req[r].got : r \in {s \in Ids : Is(s, Locked \cup Signing, {"served"})}}
SignOutSticks ==
  \A k, j \in Tokens :
    k \in Held /\ Live(k) /\ token[j] = "ended" => line[j] # line[k]

\* The browser forgets a session the cookie still carries only while a sign-out
\* is being sent, or if one was lost, or a sign-in crossed a refresh, or the
\* migration of an old token was cut off before it was announced.
KeepsLiveSession ==
  Live(cookie) /\ ~hint =>
    \/ doors # {}
    \/ \E r \in Ids : Is(r, {"blacklist"}, {"queued", "sent", "served"})
    \/ \E t \in Tabs : loading[t] = "migrated"
===============================================================================
