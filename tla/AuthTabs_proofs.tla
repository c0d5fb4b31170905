---------------------------- MODULE AuthTabs_proofs ----------------------------
(***************************************************************************)
(* Proofs about AuthTabs, for any set of tabs and any bounds on requests,  *)
(* tokens and sign-ins.                                                    *)
(***************************************************************************)
EXTENDS AuthTabs, TLAPS

-------------------------------------------------------------------------------
(* Types. *)

\* What refresh$ of a tab shares is a refresh of that tab.
SharedInv ==
  \A t \in Tabs : shared[t] # 0 =>
    /\ Is(shared[t], {"refresh"}, {"queued", "sent", "served"})
    /\ req[shared[t]].tab = t

TypeInv == TypeOK /\ SharedInv

LEMMA NoRequestApart == NoRequest \notin Requests /\ \A q \in Requests : q # NoRequest
  BY DEF NoRequest, Requests, Locked, Signing

LEMMA NewRequestType ==
  ASSUME NEW kind \in Locked \cup Signing, NEW t \in Tabs, NEW stage \in {"queued", "sent"},
         NEW callers \in SUBSET Callers
  PROVE  NewRequest(kind, t, stage, callers) \in Requests
BY BoundsAssumption DEF NewRequest, Requests

LEMMA RequestType ==
  ASSUME TypeOK, NEW r \in Ids, ~Idle(r)
  PROVE  req[r] \in Requests
BY DEF TypeOK, Idle

LEMMA NumberTypes ==
  /\ \A r \in Ids : r \in 0..MaxRequests /\ r # 0
  /\ \A k \in Tokens : k \in 0..MaxTokens /\ k # 0
  /\ \A k \in 0..MaxTokens : k # 0 => k \in Tokens
  /\ 1 \in Tokens /\ 0 \in 0..MaxTokens /\ 0 \in 0..MaxRequests
BY BoundsAssumption DEF Ids, Tokens

LEMMA TellType ==
  ASSUME TypeOK, NEW t \in Tabs, NEW what \in {"set", "removed"}, Tell(t, what)
  PROVE  events' \in [Tabs -> Seq({"set", "removed"})]
BY DEF TypeOK, Tell

LEMMA RemoveHintType ==
  ASSUME TypeOK, NEW t \in Tabs, RemoveHint(t)
  PROVE  hint' \in BOOLEAN /\ events' \in [Tabs -> Seq({"set", "removed"})]
<1>1. CASE hint
  BY <1>1, TellType DEF RemoveHint
<1>2. CASE ~hint
  BY <1>2 DEF RemoveHint, TypeOK
<1>3. QED
  BY <1>1, <1>2

LEMMA LogoutType ==
  ASSUME TypeInv, NEW t \in Tabs, Logout(t)
  PROVE  /\ hint' \in BOOLEAN /\ events' \in [Tabs -> Seq({"set", "removed"})]
         /\ legacy' = 0
         /\ access' \in [Tabs -> BOOLEAN]
         /\ shared' \in [Tabs -> 0..MaxRequests]
         /\ shared' = [shared EXCEPT ![t] = 0]
<1>1. RemoveHint(t) /\ DropMemorySession(t) /\ legacy' = 0
  BY DEF Logout
<1>2. QED
  BY <1>1, RemoveHintType, NumberTypes DEF DropMemorySession, TypeOK, TypeInv

\* What a tab shares stays as it is when it shares less, or the same requests.
LEMMA SharedKept ==
  ASSUME TypeInv, shared' \in [Tabs -> 0..MaxRequests],
         \A t \in Tabs : shared'[t] # 0 =>
           /\ shared'[t] = shared[t]
           /\ req'[shared[t]] # NoRequest
           /\ req'[shared[t]].kind = req[shared[t]].kind
           /\ req'[shared[t]].tab = req[shared[t]].tab
           /\ req'[shared[t]].stage \in {"queued", "sent", "served"}
  PROVE  SharedInv'
BY DEF TypeInv, SharedInv, Is, Idle

LEMMA RefreshTokensType ==
  ASSUME TypeInv, NEW t \in Tabs, NEW caller \in Callers, NEW held,
         RefreshTokens(t, caller, held)
  PROVE  /\ req' \in [Ids -> Requests \cup {NoRequest}]
         /\ shared' \in [Tabs -> 0..MaxRequests]
         /\ SharedInv'
<1>1. CASE /\ shared[t] # 0
           /\ req' = [req EXCEPT ![shared[t]].callers = @ \cup {caller}]
           /\ UNCHANGED shared
  <2>1. shared[t] \in Ids /\ req[shared[t]] \in Requests
    BY <1>1, RequestType, NumberTypes DEF TypeInv, TypeOK, SharedInv, Is, Ids
  <2>2. [req[shared[t]] EXCEPT !.callers = @ \cup {caller}] \in Requests
    BY <2>1 DEF Requests
  <2>3. /\ req' \in [Ids -> Requests \cup {NoRequest}]
        /\ shared' \in [Tabs -> 0..MaxRequests]
    BY <1>1, <2>1, <2>2 DEF TypeInv, TypeOK
  <2>4. \A u \in Tabs : shared[u] # 0 => shared[u] \in Ids /\ req[shared[u]] \in Requests
    BY RequestType, NumberTypes DEF TypeInv, TypeOK, SharedInv, Is, Ids
  <2>5. SharedInv'
    BY <1>1, <2>1, <2>2, <2>3, <2>4, SharedKept, NoRequestApart DEF Requests, TypeInv, TypeOK
  <2>6. QED
    BY <2>3, <2>5
<1>2. ASSUME shared[t] = 0,
             NEW r \in Ids, FreeIn(req, r),
             req' = [req EXCEPT ![r] = NewRequest("refresh", t, "queued", {caller})],
             shared' = [shared EXCEPT ![t] = r]
      PROVE  /\ req' \in [Ids -> Requests \cup {NoRequest}]
             /\ shared' \in [Tabs -> 0..MaxRequests]
             /\ SharedInv'
  <2>1. NewRequest("refresh", t, "queued", {caller}) \in Requests
    BY NewRequestType DEF Locked
  <2>2. /\ req' \in [Ids -> Requests \cup {NoRequest}]
        /\ shared' \in [Tabs -> 0..MaxRequests]
    BY <1>2, <2>1, NumberTypes DEF TypeInv, TypeOK
  <2>3. /\ req'[r] # NoRequest /\ req'[r].kind = "refresh"
        /\ req'[r].tab = t /\ req'[r].stage = "queued"
    BY <1>2, <2>1, NoRequestApart DEF NewRequest, TypeInv, TypeOK
  <2>4. \A u \in Tabs : shared[u] # r
    BY <1>2, NumberTypes DEF FreeIn, TypeInv, SharedInv, Is, Idle
  <2>5. SharedInv'
    BY <1>2, <2>3, <2>4 DEF TypeInv, TypeOK, SharedInv, Is, Idle
  <2>6. QED
    BY <2>2, <2>5
<1>3. QED
  BY <1>1, <1>2 DEF RefreshTokens

LEMMA GiveUpType ==
  ASSUME TypeOK, NEW rs, GiveUp(rs)
  PROVE  token' \in [Tokens -> Fates] /\ holder' \in 0..MaxRequests
BY NumberTypes DEF TypeOK, GiveUp, Fates

LEMMA DoorsType ==
  /\ \A t \in Tabs : RestoreDoors(t) \subseteq {"unannounced"}
  /\ \A rs : UnsaidDoors(rs) \subseteq {"unsaid"}
BY DEF RestoreDoors, UnsaidDoors

\* A request that is free is shared by nobody.
LEMMA FreeIsNotShared ==
  ASSUME TypeInv, NEW r \in Ids, FreeIn(req, r)
  PROVE  \A u \in Tabs : shared[u] # r
BY NumberTypes DEF FreeIn, TypeInv, SharedInv, Is, Idle

\* A new request that nobody shares yet.
LEMMA NewRequestKeeps ==
  ASSUME TypeInv, NEW r \in Ids, FreeIn(req, r), NEW q \in Requests,
         req' = [req EXCEPT ![r] = q],
         shared' \in [Tabs -> 0..MaxRequests],
         \A t \in Tabs : shared'[t] = shared[t] \/ shared'[t] = 0
  PROVE  req' \in [Ids -> Requests \cup {NoRequest}] /\ SharedInv'
<1>1. req' \in [Ids -> Requests \cup {NoRequest}]
  BY DEF TypeInv, TypeOK
<1>2. \A u \in Tabs : shared[u] # r
  BY FreeIsNotShared
<1>3. \A u \in Tabs : shared[u] # 0 => shared[u] \in Ids
  BY DEF TypeInv, TypeOK, Ids
<1>4. \A u \in Tabs : shared[u] # 0 => req'[shared[u]] = req[shared[u]]
  BY <1>2, <1>3 DEF TypeInv, TypeOK
<1>5. SharedInv'
  BY <1>4 DEF TypeInv, SharedInv, Is, Idle
<1>6. QED
  BY <1>1, <1>5

\* A request that goes on, and stays what it is.
LEMMA ChangedRequestKeeps ==
  ASSUME TypeInv, NEW r \in Ids, ~Idle(r), NEW q \in Requests,
         q.kind = req[r].kind, q.tab = req[r].tab,
         req' = [req EXCEPT ![r] = q], UNCHANGED shared
  PROVE  req' \in [Ids -> Requests \cup {NoRequest}] /\ SharedInv'
<1>1. req' \in [Ids -> Requests \cup {NoRequest}]
  BY DEF TypeInv, TypeOK
<1>2. q # NoRequest /\ q.stage \in {"queued", "sent", "served"}
  BY NoRequestApart DEF Requests
<1>3. \A u \in Tabs : shared[u] # 0 => shared[u] \in Ids
  BY DEF TypeInv, SharedInv, Is, Idle, Ids, TypeOK
<1>4. SharedInv'
  BY <1>1, <1>2, <1>3 DEF TypeInv, TypeOK, SharedInv, Is, Idle
<1>5. QED
  BY <1>1, <1>4

\* A request that ends is no longer shared.
LEMMA FinishKeeps ==
  ASSUME TypeInv, NEW r \in Ids, ~Idle(r), Finish(r),
         shared' \in [Tabs -> 0..MaxRequests],
         \A t \in Tabs : shared'[t] = shared[t] \/ shared'[t] = 0,
         req[r].kind = "refresh" => shared'[req[r].tab] = 0
  PROVE  req' \in [Ids -> Requests \cup {NoRequest}] /\ SharedInv'
<1>1. req' \in [Ids -> Requests \cup {NoRequest}]
  BY DEF TypeInv, TypeOK, Finish
<1>2. \A u \in Tabs : shared'[u] # 0 => shared[u] # r
  BY DEF TypeInv, SharedInv, Is
<1>3. \A u \in Tabs : shared[u] # 0 => shared[u] \in Ids
  BY DEF TypeInv, TypeOK, Ids
<1>4. \A u \in Tabs : shared'[u] # 0 => req'[shared[u]] = req[shared[u]]
  BY <1>2, <1>3 DEF Finish, TypeInv, TypeOK
<1>5. SharedInv'
  BY <1>4 DEF TypeInv, SharedInv, Is, Idle
<1>6. QED
  BY <1>1, <1>5

LEMMA TypeInit == Init => TypeInv
<1> SUFFICES ASSUME Init PROVE TypeInv
  OBVIOUS
<1>1. TypeOK
  <2>1. cookie \in 0..MaxTokens /\ legacy \in 0..MaxTokens /\ hint \in BOOLEAN
    BY NumberTypes DEF Init
  <2>2. /\ events \in [Tabs -> Seq({"set", "removed"})]
        /\ access \in [Tabs -> BOOLEAN]
        /\ shared \in [Tabs -> 0..MaxRequests]
        /\ loading \in [Tabs -> {"no", "me", "migrated"}]
    BY NumberTypes DEF Init
  <2>3. /\ req \in [Ids -> Requests \cup {NoRequest}]
        /\ holder \in 0..MaxRequests
        /\ token \in [Tokens -> Fates]
        /\ line \in [Tokens -> Tokens]
        /\ doors \subseteq {"crossed", "unsaid", "unannounced"}
    BY NumberTypes DEF Init, Fates
  <2>4. QED
    BY <2>1, <2>2, <2>3 DEF TypeOK
<1>2. SharedInv
  BY DEF Init, SharedInv
<1>3. QED
  BY <1>1, <1>2 DEF TypeInv

\* What a tab does keeps the types.
LEMMA CallType ==
  ASSUME TypeInv, NEW t \in Tabs, Call(t)
  PROVE  TypeInv'
<1>1. RefreshTokens(t, "call", access[t])
      /\ UNCHANGED <<storageVars, access, loading, holder, serverVars, doors>>
  BY DEF Call
<1>2. /\ req' \in [Ids -> Requests \cup {NoRequest}]
      /\ shared' \in [Tabs -> 0..MaxRequests]
      /\ SharedInv'
  BY <1>1, RefreshTokensType DEF Callers
<1>3. QED
  BY <1>1, <1>2 DEF TypeInv, TypeOK, storageVars, serverVars

LEMMA ReloadType ==
  ASSUME TypeInv, NEW t \in Tabs, Reload(t)
  PROVE  TypeInv'
<1> DEFINE mine == {r \in Ids : ~Idle(r) /\ req[r].tab = t}
           kept == [r \in Ids |-> IF r \in mine THEN NoRequest ELSE req[r]]
<1>1. /\ GiveUp(mine)
      /\ doors' = doors \cup UnsaidDoors(mine) \cup RestoreDoors(t)
      /\ events' = [events EXCEPT ![t] = << >>]
      /\ access' = [access EXCEPT ![t] = FALSE]
      /\ loading' = [loading EXCEPT ![t] = "no"]
      /\ UNCHANGED <<cookie, hint, legacy, line>>
  BY DEF Reload
<1>2. token' \in [Tokens -> Fates] /\ holder' \in 0..MaxRequests
  BY <1>1, GiveUpType DEF TypeInv
<1>3. doors' \subseteq {"crossed", "unsaid", "unannounced"}
  BY <1>1, DoorsType DEF TypeInv, TypeOK
<1>4. events' \in [Tabs -> Seq({"set", "removed"})]
  BY <1>1 DEF TypeInv, TypeOK
<1>5. kept \in [Ids -> Requests \cup {NoRequest}]
  BY DEF TypeInv, TypeOK
<1>6. \A u \in Tabs : shared[u] # 0 =>
        shared[u] \in Ids /\ (u # t => shared[u] \notin mine)
  BY DEF TypeInv, TypeOK, SharedInv, Ids
<1>7. /\ req' \in [Ids -> Requests \cup {NoRequest}]
      /\ shared' \in [Tabs -> 0..MaxRequests]
      /\ SharedInv'
  <2>1. CASE req' = kept /\ shared' = [shared EXCEPT ![t] = 0]
    <3>1. shared' \in [Tabs -> 0..MaxRequests]
      BY <2>1, NumberTypes DEF TypeInv, TypeOK
    <3>2. \A u \in Tabs : shared'[u] # 0 =>
            u # t /\ shared'[u] = shared[u] /\ req'[shared[u]] = req[shared[u]]
      BY <2>1, <1>6 DEF TypeInv, TypeOK
    <3>3. SharedInv'
      BY <3>2 DEF TypeInv, SharedInv, Is, Idle
    <3>4. QED
      BY <2>1, <1>5, <3>1, <3>3
  <2>2. ASSUME NEW r \in Ids, FreeIn(kept, r),
               req' = [kept EXCEPT ![r] = NewRequest("refresh", t, "queued", {"restore"})],
               shared' = [shared EXCEPT ![t] = r]
        PROVE  /\ req' \in [Ids -> Requests \cup {NoRequest}]
               /\ shared' \in [Tabs -> 0..MaxRequests]
               /\ SharedInv'
    <3>1. NewRequest("refresh", t, "queued", {"restore"}) \in Requests
      BY NewRequestType DEF Locked, Callers
    <3>2. req' \in [Ids -> Requests \cup {NoRequest}]
      BY <2>2, <3>1, <1>5
    <3>3. shared' \in [Tabs -> 0..MaxRequests]
      BY <2>2, NumberTypes DEF TypeInv, TypeOK
    <3>4. /\ req'[r] # NoRequest /\ req'[r].kind = "refresh"
          /\ req'[r].tab = t /\ req'[r].stage = "queued"
      BY <2>2, <3>1, NoRequestApart, <1>5 DEF NewRequest
    <3>5. kept[r] = NoRequest
      BY <2>2 DEF FreeIn
    <3>6. \A u \in Tabs : u # t /\ shared[u] # 0 => shared[u] # r
      BY <3>5, <1>6 DEF TypeInv, SharedInv, Is, Idle
    <3>7. \A u \in Tabs : u # t /\ shared'[u] # 0 =>
            shared'[u] = shared[u] /\ req'[shared[u]] = req[shared[u]]
      BY <2>2, <1>5, <1>6, <3>6 DEF TypeInv, TypeOK
    <3>8. shared'[t] = r
      BY <2>2 DEF TypeInv, TypeOK
    <3>9. SharedInv'
      BY <3>4, <3>7, <3>8 DEF TypeInv, SharedInv, Is, Idle
    <3>10. QED
      BY <3>2, <3>3, <3>9
  <2>3. QED
    BY <2>1, <2>2 DEF Reload
<1>8. QED
  BY <1>1, <1>2, <1>3, <1>4, <1>7 DEF TypeInv, TypeOK

LEMMA HeardRemovedType ==
  ASSUME TypeInv, NEW t \in Tabs, HeardRemoved(t)
  PROVE  TypeInv'
<1>1. events' \in [Tabs -> Seq({"set", "removed"})]
  BY DEF HeardRemoved, TypeInv, TypeOK
<1>2. /\ access' \in [Tabs -> BOOLEAN]
      /\ shared' \in [Tabs -> 0..MaxRequests]
      /\ shared' = [shared EXCEPT ![t] = 0]
  BY NumberTypes DEF HeardRemoved, DropMemorySession, TypeInv, TypeOK
<1>3. UNCHANGED <<cookie, hint, legacy, loading, req, holder, token, line, doors>>
  BY DEF HeardRemoved, serverVars
<1>4. SharedInv'
  BY <1>2, <1>3 DEF TypeInv, TypeOK, SharedInv, Is, Idle
<1>5. QED
  BY <1>1, <1>2, <1>3, <1>4 DEF TypeInv, TypeOK

LEMMA HeardSetType ==
  ASSUME TypeInv, NEW t \in Tabs, HeardSet(t)
  PROVE  TypeInv'
<1>1. events' \in [Tabs -> Seq({"set", "removed"})]
  BY DEF HeardSet, TypeInv, TypeOK
<1>2. access' \in [Tabs -> BOOLEAN]
  BY DEF HeardSet, TypeInv, TypeOK
<1>3. UNCHANGED <<cookie, hint, legacy, loading, holder, token, line, doors>>
  BY DEF HeardSet, serverVars
<1>4. /\ req' \in [Ids -> Requests \cup {NoRequest}]
      /\ shared' \in [Tabs -> 0..MaxRequests]
      /\ SharedInv'
  <2>1. CASE RefreshTokens(t, "restore", FALSE)
    BY <2>1, RefreshTokensType DEF Callers
  <2>2. CASE UNCHANGED <<req, shared>>
    BY <2>2 DEF TypeInv, TypeOK, SharedInv, Is, Idle
  <2>3. QED
    BY <2>1, <2>2 DEF HeardSet
<1>5. QED
  BY <1>1, <1>2, <1>3, <1>4 DEF TypeInv, TypeOK

LEMMA SignOutType ==
  ASSUME TypeInv, NEW t \in Tabs, SignOut(t)
  PROVE  TypeInv'
<1>1. PICK r \in Ids :
        /\ FreeIn(req, r)
        /\ req' = [req EXCEPT ![r] = NewRequest("blacklist", t, "queued", {})]
  BY DEF SignOut
<1>2. Logout(t) /\ UNCHANGED <<cookie, loading, holder, token, line, doors>>
  BY DEF SignOut, serverVars
<1>3. NewRequest("blacklist", t, "queued", {}) \in Requests
  BY NewRequestType DEF Locked, Callers
<1>4. /\ hint' \in BOOLEAN /\ events' \in [Tabs -> Seq({"set", "removed"})]
      /\ legacy' = 0 /\ access' \in [Tabs -> BOOLEAN]
      /\ shared' \in [Tabs -> 0..MaxRequests]
      /\ shared' = [shared EXCEPT ![t] = 0]
  BY <1>2, LogoutType
<1>5. \A u \in Tabs : shared'[u] = shared[u] \/ shared'[u] = 0
  BY <1>4 DEF TypeInv, TypeOK
<1>6. req' \in [Ids -> Requests \cup {NoRequest}] /\ SharedInv'
  BY <1>1, <1>3, <1>4, <1>5, NewRequestKeeps
<1>7. QED
  BY <1>2, <1>4, <1>6, NumberTypes DEF TypeInv, TypeOK

LEMMA SignInType ==
  ASSUME TypeInv, NEW t \in Tabs, SignIn(t)
  PROVE  TypeInv'
<1>1. PICK kind \in Signing, r \in Ids :
        /\ FreeIn(req, r)
        /\ req' = [req EXCEPT ![r] = NewRequest(kind, t, "sent", {})]
        /\ UNCHANGED <<storageVars, memoryVars, holder, serverVars, doors>>
  BY DEF SignIn
<1>2. NewRequest(kind, t, "sent", {}) \in Requests
  BY NewRequestType DEF Callers
<1>3. shared' = shared /\ shared \in [Tabs -> 0..MaxRequests]
  BY <1>1 DEF memoryVars, TypeInv, TypeOK
<1>4. req' \in [Ids -> Requests \cup {NoRequest}] /\ SharedInv'
  BY <1>1, <1>2, <1>3, NewRequestKeeps
<1>5. QED
  BY <1>1, <1>4 DEF TypeInv, TypeOK, storageVars, memoryVars, serverVars

LEMMA RestoreEndsType ==
  ASSUME TypeInv, NEW t \in Tabs, RestoreDone(t) \/ RestoreFails(t)
  PROVE  TypeInv'
<1>1. loading' \in [Tabs -> {"no", "me", "migrated"}]
  BY DEF RestoreDone, RestoreFails, TypeInv, TypeOK
<1>2. access' \in [Tabs -> BOOLEAN]
  BY DEF RestoreDone, RestoreFails, TypeInv, TypeOK
<1>3. hint' \in BOOLEAN /\ events' \in [Tabs -> Seq({"set", "removed"})]
  BY TellType DEF RestoreDone, RestoreFails, AnnounceSessionChange, storageVars, TypeInv, TypeOK
<1>4. doors' \subseteq {"crossed", "unsaid", "unannounced"}
  BY DoorsType DEF RestoreDone, RestoreFails, TypeInv, TypeOK
<1>5. UNCHANGED <<cookie, legacy, shared, req, holder, token, line>>
  BY DEF RestoreDone, RestoreFails, storageVars, serverVars
<1>6. SharedInv'
  BY <1>5 DEF TypeInv, SharedInv, Is, Idle
<1>7. QED
  BY <1>1, <1>2, <1>3, <1>4, <1>5, <1>6 DEF TypeInv, TypeOK

LEMMA RestoreTimesOutType ==
  ASSUME TypeInv, NEW r \in Ids, RestoreTimesOut(r)
  PROVE  TypeInv'
<1> DEFINE q == [req[r] EXCEPT !.callers = @ \ {"restore"}]
<1>1. ~Idle(r) /\ req[r] \in Requests
  BY RequestType DEF RestoreTimesOut, Is, TypeInv
<1>2. q \in Requests /\ q.kind = req[r].kind /\ q.tab = req[r].tab
  BY <1>1 DEF Requests
<1>3. req' = [req EXCEPT ![r] = q]
      /\ UNCHANGED <<storageVars, shared, loading, holder, serverVars, doors>>
  BY <1>1 DEF RestoreTimesOut, TypeInv, TypeOK
<1>4. access' \in [Tabs -> BOOLEAN]
  BY DEF RestoreTimesOut, TypeInv, TypeOK
<1>5. req' \in [Ids -> Requests \cup {NoRequest}] /\ SharedInv'
  <2> HIDE DEF q
  <2> QED
    BY <1>1, <1>2, <1>3, ChangedRequestKeeps
<1>6. QED
  BY <1>3, <1>4, <1>5 DEF TypeInv, TypeOK, storageVars, serverVars

\* The way of a request keeps the types.
LEMMA GrantedType ==
  ASSUME TypeInv, NEW r \in Ids, Granted(r)
  PROVE  TypeInv'
<1> DEFINE migrates == req[r].kind = "refresh" /\ legacy # 0
           presented == IF migrates THEN legacy ELSE cookie
           q == [req[r] EXCEPT !.stage = "sent", !.migrates = migrates, !.shown = presented]
<1>1. ~Idle(r) /\ req[r] \in Requests
  BY RequestType DEF Granted, Is, TypeInv
<1>2. migrates \in BOOLEAN /\ presented \in 0..MaxTokens
  BY DEF TypeInv, TypeOK
<1>3. q \in Requests /\ q.kind = req[r].kind /\ q.tab = req[r].tab
  BY <1>1, <1>2 DEF Requests
<1>4. req' = [req EXCEPT ![r] = q] /\ holder' = r
      /\ UNCHANGED <<storageVars, memoryVars, serverVars, doors>>
  BY <1>1 DEF Granted, TypeInv, TypeOK
<1>5. req' \in [Ids -> Requests \cup {NoRequest}] /\ SharedInv'
  <2> HIDE DEF q
  <2> QED
    BY <1>1, <1>3, <1>4, ChangedRequestKeeps DEF memoryVars
<1>6. QED
  BY <1>4, <1>5, NumberTypes DEF TypeInv, TypeOK, storageVars, memoryVars, serverVars

LEMMA IssueType ==
  ASSUME NEW k \in Tokens, NEW fates \in [Tokens -> Fates], NEW from \in Tokens,
         TypeOK, Issue(k, fates, from)
  PROVE  token' \in [Tokens -> Fates] /\ line' \in [Tokens -> Tokens]
BY DEF Issue, TypeOK, Fates

LEMMA ServeRefreshType ==
  ASSUME TypeInv, NEW r \in Ids, ServeRefresh(r)
  PROVE  TypeInv'
<1>1. ~Idle(r) /\ req[r] \in Requests
  BY RequestType DEF ServeRefresh, Is, TypeInv
<1>2. UNCHANGED <<storageVars, memoryVars, holder, doors>>
  BY DEF ServeRefresh
<1>3. CASE /\ Live(req[r].shown)
           /\ \E k \in Tokens :
                /\ Issue(k, [token EXCEPT ![req[r].shown] = "rotated"], line[req[r].shown])
                /\ req' = [req EXCEPT ![r].stage = "served", ![r].got = k]
  <2>1. PICK k \in Tokens :
          /\ Issue(k, [token EXCEPT ![req[r].shown] = "rotated"], line[req[r].shown])
          /\ req' = [req EXCEPT ![r].stage = "served", ![r].got = k]
    BY <1>3
  <2> DEFINE q == [req[r] EXCEPT !.stage = "served", !.got = k]
  <2>2. q \in Requests /\ q.kind = req[r].kind /\ q.tab = req[r].tab
    BY <1>1, NumberTypes DEF Requests
  <2>3. req' = [req EXCEPT ![r] = q]
    BY <1>1, <2>1 DEF TypeInv, TypeOK
  <2>4. req' \in [Ids -> Requests \cup {NoRequest}] /\ SharedInv'
    <3> HIDE DEF q
    <3> QED
      BY <1>1, <1>2, <2>2, <2>3, ChangedRequestKeeps DEF memoryVars
  <2>5. req[r].shown \in Tokens
    BY <1>1, <1>3, NumberTypes DEF Live, Requests
  <2>6. /\ [token EXCEPT ![req[r].shown] = "rotated"] \in [Tokens -> Fates]
        /\ line[req[r].shown] \in Tokens
    BY <2>5 DEF TypeInv, TypeOK, Fates
  <2>7. token' \in [Tokens -> Fates] /\ line' \in [Tokens -> Tokens]
    BY <2>1, <2>6, IssueType DEF TypeInv
  <2>8. QED
    BY <1>2, <2>4, <2>7 DEF TypeInv, TypeOK, storageVars, memoryVars
<1>4. CASE req' = [req EXCEPT ![r].stage = "served"] /\ UNCHANGED serverVars
  <2> DEFINE q == [req[r] EXCEPT !.stage = "served"]
  <2>1. q \in Requests /\ q.kind = req[r].kind /\ q.tab = req[r].tab
    BY <1>1 DEF Requests
  <2>2. req' = [req EXCEPT ![r] = q]
    BY <1>1, <1>4 DEF TypeInv, TypeOK
  <2>3. req' \in [Ids -> Requests \cup {NoRequest}] /\ SharedInv'
    <3> HIDE DEF q
    <3> QED
      BY <1>1, <1>2, <2>1, <2>2, ChangedRequestKeeps DEF memoryVars
  <2>4. QED
    BY <1>2, <1>4, <2>3 DEF TypeInv, TypeOK, storageVars, memoryVars, serverVars
<1>5. QED
  BY <1>3, <1>4 DEF ServeRefresh

LEMMA ServeBlacklistType ==
  ASSUME TypeInv, NEW r \in Ids, ServeBlacklist(r)
  PROVE  TypeInv'
<1> DEFINE q == [req[r] EXCEPT !.stage = "served"]
<1>1. ~Idle(r) /\ req[r] \in Requests
  BY RequestType DEF ServeBlacklist, Is, TypeInv
<1>2. q \in Requests /\ q.kind = req[r].kind /\ q.tab = req[r].tab
  BY <1>1 DEF Requests
<1>3. req' = [req EXCEPT ![r] = q]
      /\ UNCHANGED <<storageVars, memoryVars, holder, line, doors>>
  BY <1>1 DEF ServeBlacklist, TypeInv, TypeOK
<1>4. token' \in [Tokens -> Fates]
  BY DEF ServeBlacklist, Ended, TypeInv, TypeOK, Fates
<1>5. req' \in [Ids -> Requests \cup {NoRequest}] /\ SharedInv'
  <2> HIDE DEF q
  <2> QED
    BY <1>1, <1>2, <1>3, ChangedRequestKeeps DEF memoryVars
<1>6. QED
  BY <1>3, <1>4, <1>5 DEF TypeInv, TypeOK, storageVars, memoryVars

LEMMA ServeSignInType ==
  ASSUME TypeInv, NEW r \in Ids, ServeSignIn(r)
  PROVE  TypeInv'
<1>1. PICK k \in Tokens :
        /\ Issue(k, IF req[r].kind = "password" THEN Revoked ELSE token, k)
        /\ req' = [req EXCEPT ![r].stage = "served", ![r].got = k]
  BY DEF ServeSignIn
<1> DEFINE q == [req[r] EXCEPT !.stage = "served", !.got = k]
<1>2. ~Idle(r) /\ req[r] \in Requests
  BY RequestType DEF ServeSignIn, Is, TypeInv
<1>3. q \in Requests /\ q.kind = req[r].kind /\ q.tab = req[r].tab
  BY <1>2, NumberTypes DEF Requests
<1>4. req' = [req EXCEPT ![r] = q] /\ UNCHANGED <<storageVars, memoryVars, holder, doors>>
  BY <1>1, <1>2 DEF ServeSignIn, TypeInv, TypeOK
<1>5. Revoked \in [Tokens -> Fates] /\ token \in [Tokens -> Fates]
  BY DEF Revoked, TypeInv, TypeOK, Fates
<1>6. token' \in [Tokens -> Fates] /\ line' \in [Tokens -> Tokens]
  BY <1>1, <1>5, IssueType DEF TypeInv
<1>7. req' \in [Ids -> Requests \cup {NoRequest}] /\ SharedInv'
  <2> HIDE DEF q
  <2> QED
    BY <1>2, <1>3, <1>4, ChangedRequestKeeps DEF memoryVars
<1>8. QED
  BY <1>4, <1>6, <1>7 DEF TypeInv, TypeOK, storageVars, memoryVars

LEMMA UnlockType ==
  ASSUME TypeOK, NEW r \in Ids, Unlock(r)
  PROVE  holder' \in 0..MaxRequests
BY NumberTypes DEF TypeOK, Unlock

LEMMA RefreshAnsweredType ==
  ASSUME TypeInv, NEW r \in Ids, RefreshAnswered(r)
  PROVE  TypeInv'
<1> DEFINE t == req[r].tab
<1>1. ~Idle(r) /\ req[r] \in Requests /\ t \in Tabs /\ req[r].got \in 0..MaxTokens
  BY RequestType DEF RefreshAnswered, Is, TypeInv, Requests
<1>2. /\ Finish(r) /\ Unlock(r) /\ cookie' = req[r].got
      /\ legacy' = IF req[r].migrates THEN 0 ELSE legacy
      /\ access' = [access EXCEPT ![t] = TRUE]
      /\ shared' = [shared EXCEPT ![t] = 0]
      /\ UNCHANGED <<hint, events, serverVars>>
  BY DEF RefreshAnswered
<1>3. loading' \in [Tabs -> {"no", "me", "migrated"}]
  BY DEF RefreshAnswered, TypeInv, TypeOK
<1>4. doors' \subseteq {"crossed", "unsaid", "unannounced"}
  BY DEF RefreshAnswered, TypeInv, TypeOK
<1>5. /\ holder' \in 0..MaxRequests /\ cookie' \in 0..MaxTokens
      /\ legacy' \in 0..MaxTokens
  BY <1>1, <1>2, UnlockType, NumberTypes DEF TypeInv, TypeOK
<1>6. shared' \in [Tabs -> 0..MaxRequests] /\ access' \in [Tabs -> BOOLEAN]
  BY <1>2, NumberTypes DEF TypeInv, TypeOK
<1>7. shared'[t] = 0 /\ \A u \in Tabs : shared'[u] = shared[u] \/ shared'[u] = 0
  BY <1>1, <1>2 DEF TypeInv, TypeOK
<1>8. req' \in [Ids -> Requests \cup {NoRequest}] /\ SharedInv'
  BY <1>1, <1>2, <1>6, <1>7, FinishKeeps
<1>9. QED
  BY <1>2, <1>3, <1>4, <1>5, <1>6, <1>8 DEF TypeInv, TypeOK, serverVars

LEMMA RefreshRejectedType ==
  ASSUME TypeInv, NEW r \in Ids, RefreshRejected(r)
  PROVE  TypeInv'
<1> DEFINE t == req[r].tab
<1>1. ~Idle(r) /\ req[r] \in Requests /\ t \in Tabs
  BY RequestType DEF RefreshRejected, Is, TypeInv, Requests
<1>2. /\ Finish(r) /\ Unlock(r)
      /\ UNCHANGED <<cookie, loading, serverVars, doors>>
  BY DEF RefreshRejected
<1>3. /\ hint' \in BOOLEAN /\ events' \in [Tabs -> Seq({"set", "removed"})]
      /\ legacy' \in 0..MaxTokens
      /\ access' \in [Tabs -> BOOLEAN]
      /\ shared' \in [Tabs -> 0..MaxRequests]
      /\ shared' = [shared EXCEPT ![t] = 0]
  <2>1. CASE Logout(t)
    BY <2>1, <1>1, LogoutType, NumberTypes
  <2>2. CASE /\ shared' = [shared EXCEPT ![t] = 0]
             /\ legacy' = IF req[r].migrates THEN 0 ELSE legacy
             /\ UNCHANGED <<access, hint, events>>
    BY <2>2, NumberTypes DEF TypeInv, TypeOK
  <2>3. QED
    BY <2>1, <2>2 DEF RefreshRejected
<1>4. holder' \in 0..MaxRequests
  BY <1>2, UnlockType DEF TypeInv
<1>5. shared'[t] = 0 /\ \A u \in Tabs : shared'[u] = shared[u] \/ shared'[u] = 0
  BY <1>1, <1>3 DEF TypeInv, TypeOK
<1>6. req' \in [Ids -> Requests \cup {NoRequest}] /\ SharedInv'
  BY <1>1, <1>2, <1>3, <1>5, FinishKeeps
<1>7. QED
  BY <1>2, <1>3, <1>4, <1>6 DEF TypeInv, TypeOK, serverVars

LEMMA BlacklistAnsweredType ==
  ASSUME TypeInv, NEW r \in Ids, BlacklistAnswered(r)
  PROVE  TypeInv'
<1>1. ~Idle(r) /\ req[r].kind = "blacklist"
  BY DEF BlacklistAnswered, Is
<1>2. /\ Finish(r) /\ Unlock(r) /\ cookie' = 0
      /\ UNCHANGED <<hint, legacy, events, memoryVars, serverVars, doors>>
  BY DEF BlacklistAnswered
<1>3. shared' = shared /\ shared \in [Tabs -> 0..MaxRequests]
  BY <1>2 DEF memoryVars, TypeInv, TypeOK
<1>4. req' \in [Ids -> Requests \cup {NoRequest}] /\ SharedInv'
  BY <1>1, <1>2, <1>3, FinishKeeps
<1>5. holder' \in 0..MaxRequests
  BY <1>2, UnlockType DEF TypeInv
<1>6. QED
  BY <1>2, <1>4, <1>5, NumberTypes DEF TypeInv, TypeOK, memoryVars, serverVars

LEMMA SignedInType ==
  ASSUME TypeInv, NEW r \in Ids, SignedIn(r)
  PROVE  TypeInv'
<1> DEFINE t == req[r].tab
<1>1. ~Idle(r) /\ req[r] \in Requests /\ t \in Tabs /\ req[r].got \in 0..MaxTokens
      /\ req[r].kind # "refresh"
  BY RequestType DEF SignedIn, Is, TypeInv, Requests, Signing
<1>2. /\ Finish(r) /\ cookie' = req[r].got /\ legacy' = 0
      /\ access' = [access EXCEPT ![t] = TRUE]
      /\ AnnounceSessionChange(t)
      /\ UNCHANGED <<shared, loading, holder, serverVars>>
  BY DEF SignedIn
<1>3. doors' \subseteq {"crossed", "unsaid", "unannounced"}
  BY DEF SignedIn, TypeInv, TypeOK
<1>4. hint' \in BOOLEAN /\ events' \in [Tabs -> Seq({"set", "removed"})]
  BY <1>1, <1>2, TellType DEF AnnounceSessionChange, TypeInv
<1>5. shared' = shared /\ shared \in [Tabs -> 0..MaxRequests]
      /\ access' \in [Tabs -> BOOLEAN]
  BY <1>2 DEF TypeInv, TypeOK
<1>6. req' \in [Ids -> Requests \cup {NoRequest}] /\ SharedInv'
  BY <1>1, <1>2, <1>5, FinishKeeps
<1>7. QED
  BY <1>1, <1>2, <1>3, <1>4, <1>5, <1>6, NumberTypes DEF TypeInv, TypeOK, serverVars

LEMMA LostType ==
  ASSUME TypeInv, NEW r \in Ids, Lost(r)
  PROVE  TypeInv'
<1> DEFINE t == req[r].tab
<1>1. ~Idle(r) /\ req[r] \in Requests /\ t \in Tabs
  BY RequestType DEF Lost, Is, TypeInv, Requests
<1>2. Finish(r) /\ GiveUp({r}) /\ UNCHANGED <<storageVars, loading, line>>
  BY DEF Lost
<1>3. token' \in [Tokens -> Fates] /\ holder' \in 0..MaxRequests
  BY <1>2, GiveUpType DEF TypeInv
<1>4. doors' \subseteq {"crossed", "unsaid", "unannounced"}
  BY DoorsType DEF Lost, TypeInv, TypeOK
<1>5. /\ access' \in [Tabs -> BOOLEAN]
      /\ shared' \in [Tabs -> 0..MaxRequests]
      /\ \A u \in Tabs : shared'[u] = shared[u] \/ shared'[u] = 0
      /\ req[r].kind = "refresh" => shared'[t] = 0
  <2>1. CASE req[r].kind = "refresh"
    <3>1. shared' = [shared EXCEPT ![t] = 0]
      BY <2>1 DEF Lost
    <3>2. access' = [access EXCEPT ![t] = FALSE] \/ access' = access
      BY <2>1 DEF Lost
    <3>3. access' \in [Tabs -> BOOLEAN]
      BY <3>2 DEF TypeInv, TypeOK
    <3>4. QED
      BY <1>1, <3>1, <3>3, NumberTypes DEF TypeInv, TypeOK
  <2>2. CASE req[r].kind # "refresh"
    BY <2>2 DEF Lost, TypeInv, TypeOK
  <2>3. QED
    BY <2>1, <2>2
<1>6. req' \in [Ids -> Requests \cup {NoRequest}] /\ SharedInv'
  BY <1>1, <1>2, <1>5, FinishKeeps
<1>7. QED
  BY <1>2, <1>3, <1>4, <1>5, <1>6 DEF TypeInv, TypeOK, storageVars

LEMMA TypeStep ==
  TypeInv /\ [Next]_vars => TypeInv'
<1> SUFFICES ASSUME TypeInv, [Next]_vars
             PROVE  TypeInv'
  OBVIOUS
<1>1. ASSUME NEW t \in Tabs,
             \/ Call(t) \/ Reload(t) \/ HeardRemoved(t) \/ HeardSet(t)
             \/ SignOut(t) \/ SignIn(t) \/ RestoreDone(t) \/ RestoreFails(t)
      PROVE  TypeInv'
  BY <1>1, CallType, ReloadType, HeardRemovedType, HeardSetType, SignOutType,
     SignInType, RestoreEndsType
<1>2. ASSUME NEW r \in Ids,
             \/ RestoreTimesOut(r) \/ Granted(r)
             \/ ServeRefresh(r) \/ ServeBlacklist(r) \/ ServeSignIn(r)
             \/ RefreshAnswered(r) \/ RefreshRejected(r) \/ BlacklistAnswered(r)
             \/ SignedIn(r) \/ Lost(r)
      PROVE  TypeInv'
  BY <1>2, RestoreTimesOutType, GrantedType, ServeRefreshType, ServeBlacklistType,
     ServeSignInType, RefreshAnsweredType, RefreshRejectedType, BlacklistAnsweredType,
     SignedInType, LostType
<1>3. CASE UNCHANGED vars
  BY <1>3 DEF vars, storageVars, memoryVars, serverVars, TypeInv, TypeOK, SharedInv, Is, Idle
<1>4. QED
  BY <1>1, <1>2, <1>3 DEF Next, TabStep, RequestStep

\* Every variable of the browser and of the server has its type (TypeOK), and
\* what refresh$ of a tab shares is a request of that tab.
THEOREM TypeCorrect == Spec => []TypeOK
<1>1. Spec => []TypeInv
  BY TypeInit, TypeStep, PTL DEF Spec
<1>2. TypeInv => TypeOK
  BY DEF TypeInv
<1>3. QED
  BY <1>1, <1>2, PTL

-------------------------------------------------------------------------------
(* What holds of the tokens, and who may still present or install which. *)

\* A refresh or a sign-out on its way holds the lock.
LockInv ==
  \A r \in Ids : Is(r, Locked, {"sent", "served"}) => holder = r

\* A token somebody has, and the one a sign-in began with, were issued.
Known(k) == k # 0 => token[k] # "unissued"
KnownInv ==
  /\ Known(cookie) /\ Known(legacy)
  /\ \A r \in Ids : ~Idle(r) => Known(req[r].shown) /\ Known(req[r].got)
  /\ \A j \in Tokens : token[line[j]] # "unissued"

\* A token in an answer that is still under way is nowhere else.
AnswerInv ==
  \A r \in Ids : ~Idle(r) /\ req[r].got # 0 =>
    /\ req[r].stage = "served" /\ req[r].kind # "blacklist"
    /\ token[req[r].got] \in {"live", "ended"}
    /\ req[r].got # cookie /\ req[r].got # legacy
    /\ \A s \in Ids : ~Idle(s) => req[s].shown # req[r].got
    /\ \A s \in Ids : ~Idle(s) /\ s # r => req[s].got # req[r].got

\* While the older bundle's token is there, a refresh presents that.
LegacyInv ==
  legacy # 0 =>
    /\ cookie = 0
    /\ \A r \in Ids : Is(r, {"refresh"}, {"sent", "served"}) =>
         req[r].migrates /\ req[r].shown = legacy

\* A stored token is used up only while its successor is on the way.
Succeeded(k) ==
  \E r \in Ids : Is(r, {"refresh"}, {"served"}) /\ req[r].got # 0 /\ req[r].shown = k
StoredInv ==
  /\ cookie # 0 /\ token[cookie] = "rotated" => Succeeded(cookie)
  /\ legacy # 0 /\ token[legacy] = "rotated" => Succeeded(legacy)

\* Nobody presents a token that was used up and whose successor arrives.
ShownInv ==
  \A r \in Ids : Is(r, Locked, {"sent"}) /\ req[r].shown # 0 =>
    token[req[r].shown] \in {"live", "lost", "ended"}

TokensInv ==
  LockInv /\ KnownInv /\ AnswerInv /\ LegacyInv /\ StoredInv /\ ShownInv /\ RefreshesNeverClash

\* A sign-in has one live token, and the successor is of the same sign-in.
UniqueLive ==
  \A i, j \in Tokens : token[i] = "live" /\ token[j] = "live" /\ line[i] = line[j] => i = j
LineInv ==
  \A r \in Ids : Is(r, {"refresh"}, {"served"}) /\ req[r].got # 0 =>
    req[r].shown # 0 /\ line[req[r].got] = line[req[r].shown]

\* A token that may still be installed, or be exchanged for one that may.
Reach(k) ==
  \/ k = cookie \/ k = legacy
  \/ \E r \in Ids : ~Idle(r) /\ k = req[r].got
  \/ \E r \in Ids : Is(r, {"refresh"}, {"sent"}) /\ k = req[r].shown
DeadInv ==
  \A k, j \in Tokens :
    Reach(k) /\ token[k] = "live" /\ token[j] \in {"lost", "ended"} => line[j] # line[k]

LinesInv == UniqueLive /\ LineInv /\ DeadInv

AuthInv == TypeInv /\ TokensInv /\ LinesInv

-------------------------------------------------------------------------------
(* A step that sends nothing and installs nothing: requests begin, or are     *)
(* given up, and the others go on as they are.                                *)

Kept(r) ==
  /\ (req'[r] = NoRequest) <=> (req[r] = NoRequest)
  /\ req[r] # NoRequest =>
       /\ req'[r].kind = req[r].kind /\ req'[r].stage = req[r].stage
       /\ req'[r].shown = req[r].shown /\ req'[r].got = req[r].got
       /\ req'[r].migrates = req[r].migrates
Begun(r) ==
  req'[r] # NoRequest =>
    /\ req'[r].shown = 0 /\ req'[r].got = 0 /\ req'[r].stage # "served"
    /\ req'[r].kind \in Locked => req'[r].stage = "queued"
Carry(rs) ==
  /\ cookie' = cookie \/ cookie' = 0
  /\ legacy' = legacy \/ legacy' = 0
  /\ GiveUp(rs) /\ line' = line
  /\ \A r \in Ids : ((r \in rs \/ Idle(r)) /\ Begun(r)) \/ (r \notin rs /\ Kept(r))

LEMMA InTokens ==
  ASSUME TypeOK
  PROVE  /\ cookie # 0 => cookie \in Tokens
         /\ legacy # 0 => legacy \in Tokens
         /\ \A r \in Ids : ~Idle(r) =>
              /\ req[r].shown # 0 => req[r].shown \in Tokens
              /\ req[r].got # 0 => req[r].got \in Tokens
         /\ \A j \in Tokens : line[j] \in Tokens
<1>1. \A r \in Ids : ~Idle(r) => req[r] \in Requests
  BY RequestType
<1>2. \A r \in Ids : ~Idle(r) => req[r].shown \in 0..MaxTokens /\ req[r].got \in 0..MaxTokens
  BY <1>1 DEF Requests
<1>3. QED
  BY <1>2, NumberTypes DEF TypeOK

\* A token is lost only if a refresh that is given up had its successor.
LEMMA GivenUp ==
  ASSUME TypeOK, NEW rs \in SUBSET Ids, GiveUp(rs), NEW k \in Tokens
  PROVE  \/ token'[k] = token[k]
         \/ /\ token'[k] = "lost"
            /\ \E r \in rs : Is(r, {"refresh"}, {"served"}) /\ req[r].got # 0 /\ req[r].shown = k
BY DEF GiveUp, Unheard, TypeOK

LEMMA CarryTokens ==
  ASSUME TypeInv, TokensInv, NEW rs \in SUBSET Ids, Carry(rs)
  PROVE  TokensInv'
<1> USE DEF TypeInv, TokensInv
<1>1. \A k \in Tokens :
        \/ token'[k] = token[k]
        \/ /\ token'[k] = "lost"
           /\ \E r \in rs : Is(r, {"refresh"}, {"served"}) /\ req[r].got # 0 /\ req[r].shown = k
  BY GivenUp DEF Carry
<1>2. \A k \in Tokens : token[k] # "unissued" => token'[k] # "unissued"
  BY <1>1
<1>3. \A r \in Ids : ~Idle(r)' => Begun(r) \/ (r \notin rs /\ ~Idle(r) /\ Kept(r))
  BY DEF Carry, Kept, Idle
<1>4. \A r \in Ids : ~Idle(r)' =>
        \/ req'[r].shown = 0 /\ req'[r].got = 0
        \/ r \notin rs /\ ~Idle(r) /\ req'[r].shown = req[r].shown /\ req'[r].got = req[r].got
  BY <1>3 DEF Begun, Kept, Idle
<1>5. LockInv'
  <2> SUFFICES ASSUME NEW r \in Ids, Is(r, Locked, {"sent", "served"})'
               PROVE  holder' = r
    BY DEF LockInv
  <2>1. r \notin rs /\ Is(r, Locked, {"sent", "served"})
    BY <1>3 DEF Is, Idle, Begun, Kept
  <2>2. QED
    BY <2>1 DEF LockInv, Carry, GiveUp
<1>6. KnownInv'
  <2>1. Known(cookie)' /\ Known(legacy)'
    BY <1>2, InTokens DEF Carry, KnownInv, Known
  <2>2. \A r \in Ids : ~Idle(r)' => Known(req[r].shown)' /\ Known(req[r].got)'
    BY <1>2, <1>4, InTokens DEF KnownInv, Known
  <2>3. \A j \in Tokens : token'[line'[j]] # "unissued"
    BY <1>2, InTokens DEF KnownInv, Carry
  <2>4. QED
    BY <2>1, <2>2, <2>3 DEF KnownInv
<1>7. AnswerInv'
  <2> SUFFICES ASSUME NEW r \in Ids, ~Idle(r)', req'[r].got # 0
               PROVE  /\ req'[r].stage = "served" /\ req'[r].kind # "blacklist"
                      /\ token'[req'[r].got] \in {"live", "ended"}
                      /\ req'[r].got # cookie' /\ req'[r].got # legacy'
                      /\ \A s \in Ids : ~Idle(s)' => req'[s].shown # req'[r].got
                      /\ \A s \in Ids : ~Idle(s)' /\ s # r => req'[s].got # req'[r].got
    BY DEF AnswerInv, Idle
  <2>1. ~Idle(r) /\ Kept(r)
    BY <1>3 DEF Begun, Idle
  <2>2. req[r].got \in Tokens /\ req'[r].got = req[r].got
    BY <2>1, InTokens DEF Kept, Idle
  <2>3. \A s \in Ids : ~Idle(s) => req[s].shown # req[r].got
    BY <2>1, <2>2 DEF AnswerInv
  <2>4. token'[req[r].got] = token[req[r].got]
    BY <1>1, <2>2, <2>3 DEF Is
  <2>5. \A s \in Ids : ~Idle(s)' => req'[s].shown # req'[r].got
    BY <1>4, <2>2, <2>3
  <2>6. \A s \in Ids : ~Idle(s)' /\ s # r => req'[s].got # req'[r].got
    BY <1>4, <2>1, <2>2 DEF AnswerInv
  <2>7. QED
    BY <2>1, <2>2, <2>4, <2>5, <2>6 DEF AnswerInv, Kept, Idle, Carry
<1>8. LegacyInv'
  <2>1. \A r \in Ids : Is(r, {"refresh"}, {"sent", "served"})' =>
          /\ Is(r, {"refresh"}, {"sent", "served"})
          /\ req'[r].migrates = req[r].migrates /\ req'[r].shown = req[r].shown
    BY <1>3 DEF Is, Idle, Begun, Kept, Locked
  <2>2. QED
    BY <2>1 DEF LegacyInv, Carry
<1>9. \A k \in Tokens : token'[k] = "rotated" => token[k] = "rotated" /\ (Succeeded(k) => Succeeded(k)')
  <2> SUFFICES ASSUME NEW k \in Tokens, token'[k] = "rotated", Succeeded(k)
               PROVE  Succeeded(k)'
    BY <1>1
  <2>1. PICK r \in Ids : Is(r, {"refresh"}, {"served"}) /\ req[r].got # 0 /\ req[r].shown = k
    BY DEF Succeeded
  <2>2. r \notin rs
    BY <2>1 DEF Carry, GiveUp, Unheard
  <2>3. Kept(r)
    BY <2>1, <2>2 DEF Carry, Is
  <2>4. QED
    BY <2>1, <2>3 DEF Succeeded, Is, Idle, Kept
<1>10. StoredInv'
  BY <1>9, InTokens DEF StoredInv, Carry
<1>11. ShownInv'
  BY <1>1, <1>3, InTokens DEF ShownInv, Is, Idle, Begun, Kept
<1>12. RefreshesNeverClash'
  BY <1>1, <1>3, InTokens DEF RefreshesNeverClash, Is, Idle, Begun, Kept
<1>13. QED
  BY <1>5, <1>6, <1>7, <1>8, <1>10, <1>11, <1>12

LEMMA CarryLines ==
  ASSUME AuthInv, NEW rs \in SUBSET Ids, Carry(rs)
  PROVE  LinesInv'
<1> USE DEF AuthInv, TypeInv, TokensInv, LinesInv
<1>1. \A k \in Tokens :
        \/ token'[k] = token[k]
        \/ /\ token'[k] = "lost"
           /\ \E r \in rs : Is(r, {"refresh"}, {"served"}) /\ req[r].got # 0 /\ req[r].shown = k
  BY GivenUp DEF Carry
<1>2. \A r \in Ids : ~Idle(r)' => Begun(r) \/ (r \notin rs /\ ~Idle(r) /\ Kept(r))
  BY DEF Carry, Kept, Idle
<1>3. line' = line
  BY DEF Carry
<1>4. UniqueLive'
  BY <1>1, <1>3 DEF UniqueLive
<1>5. LineInv'
  BY <1>2, <1>3 DEF LineInv, Is, Idle, Begun, Kept
<1>6. \A k \in Tokens : Reach(k)' =>
        /\ Reach(k)
        /\ \A r \in rs : ~Idle(r) /\ req[r].got = k => FALSE
  <2> SUFFICES ASSUME NEW k \in Tokens, Reach(k)'
               PROVE  Reach(k) /\ \A r \in rs : ~Idle(r) => req[r].got # k
    OBVIOUS
  <2>0. k # 0
    BY NumberTypes
  <2>1. CASE k = cookie' \/ k = legacy'
    BY <2>0, <2>1 DEF Carry, Reach, AnswerInv
  <2>2. ASSUME NEW s \in Ids, ~Idle(s)', k = req'[s].got
        PROVE  Reach(k) /\ \A r \in rs : ~Idle(r) => req[r].got # k
    <3>1. s \notin rs /\ ~Idle(s) /\ k = req[s].got
      BY <1>2, <2>0, <2>2 DEF Begun, Kept, Idle
    <3>2. QED
      BY <2>0, <3>1 DEF Reach, AnswerInv
  <2>3. ASSUME NEW s \in Ids, Is(s, {"refresh"}, {"sent"})', k = req'[s].shown
        PROVE  Reach(k) /\ \A r \in rs : ~Idle(r) => req[r].got # k
    <3>1. Is(s, {"refresh"}, {"sent"}) /\ k = req[s].shown
      BY <1>2, <2>0, <2>3 DEF Begun, Kept, Is, Idle
    <3>2. QED
      BY <2>0, <3>1 DEF Reach, AnswerInv, Is
  <2>4. QED
    BY <2>1, <2>2, <2>3 DEF Reach
<1>7. DeadInv'
  <2> SUFFICES ASSUME NEW k \in Tokens, NEW j \in Tokens, Reach(k)', token'[k] = "live",
                      token'[j] \in {"lost", "ended"}
               PROVE  line[j] # line[k]
    BY <1>3 DEF DeadInv
  <2>1. Reach(k) /\ token[k] = "live"
    BY <1>1, <1>6
  <2>2. CASE token'[j] = token[j]
    BY <2>1, <2>2 DEF DeadInv
  <2>3. ASSUME NEW r \in rs, Is(r, {"refresh"}, {"served"}), req[r].got # 0, req[r].shown = j
        PROVE  line[j] # line[k]
    <3>1. /\ req[r].got \in Tokens /\ line[req[r].got] = line[j]
          /\ token[req[r].got] \in {"live", "ended"}
      BY <2>3, InTokens DEF LineInv, AnswerInv, Is
    <3>2. req[r].got # k
      BY <1>6, <2>3 DEF Is
    <3>3. QED
      BY <2>1, <3>1, <3>2 DEF UniqueLive, DeadInv
  <2>4. QED
    BY <1>1, <2>2, <2>3
<1>8. QED
  BY <1>4, <1>5, <1>7

\* A step that changes one request, and no other.
Others(r) == \A s \in Ids \ {r} : req'[s] = req[s]

\* The lock is granted: nobody else is on the way, so no stored token is used up.
LEMMA GrantedAuth ==
  ASSUME AuthInv, NEW r \in Ids, Granted(r)
  PROVE  TokensInv' /\ LinesInv'
<1> USE DEF AuthInv, TypeInv, TokensInv, LinesInv
<1>1. /\ holder = 0 /\ Is(r, Locked, {"queued"}) /\ holder' = r
      /\ UNCHANGED <<cookie, legacy, token, line>>
  BY DEF Granted, storageVars, serverVars
<1>2. ~Idle(r) /\ req[r] \in Requests
  BY <1>1, RequestType DEF Is
<1>3. Others(r)
  BY DEF Granted, TypeOK, Others
<1>4. /\ req'[r] # NoRequest /\ req'[r].stage = "sent" /\ req'[r].kind = req[r].kind
      /\ req'[r].got = req[r].got
      /\ IF req[r].kind = "refresh" /\ legacy # 0
         THEN req'[r].migrates /\ req'[r].shown = legacy
         ELSE ~req'[r].migrates /\ req'[r].shown = cookie
  BY <1>2, NoRequestApart DEF Granted, TypeOK, Requests
<1>5. req[r].got = 0
  BY <1>1 DEF AnswerInv, Is
<1>6. \A s \in Ids : ~Is(s, Locked, {"sent", "served"})
  BY <1>1, NumberTypes DEF LockInv
<1>7. /\ cookie # 0 => token[cookie] \in {"live", "lost", "ended"}
      /\ legacy # 0 => token[legacy] \in {"live", "lost", "ended"}
  BY <1>6, InTokens DEF StoredInv, Succeeded, Is, Locked, KnownInv, Known, TypeOK, Fates
<1>8. LockInv'
  BY <1>1, <1>3, <1>6 DEF LockInv, Others, Is, Idle
<1>9. KnownInv'
  BY <1>1, <1>3, <1>4, <1>5 DEF KnownInv, Known, Others, Idle
<1>10. AnswerInv'
  BY <1>1, <1>2, <1>3, <1>4, <1>5 DEF AnswerInv, Others, Idle
<1>11. LegacyInv'
  BY <1>1, <1>3, <1>4, <1>6 DEF LegacyInv, Others, Is, Idle, Locked
<1>12. StoredInv'
  BY <1>1, <1>7 DEF StoredInv
<1>13. ShownInv'
  BY <1>1, <1>3, <1>4, <1>6, <1>7 DEF ShownInv, Others, Is, Idle
<1>14. RefreshesNeverClash'
  BY <1>1, <1>3, <1>4 DEF RefreshesNeverClash, Others, Is, Idle
<1>15. UniqueLive'
  BY <1>1 DEF UniqueLive
<1>16. LineInv'
  BY <1>1, <1>3, <1>4 DEF LineInv, Others, Is, Idle
<1>17. \A k \in Tokens : Reach(k)' => Reach(k)
  BY <1>1, <1>2, <1>3, <1>4 DEF Reach, Others, Is, Idle
<1>18. DeadInv'
  BY <1>1, <1>17 DEF DeadInv
<1>19. QED
  BY <1>8, <1>9, <1>10, <1>11, <1>12, <1>13, <1>14, <1>15, <1>16, <1>18

\* The refresh that holds the lock is answered with the successor of its token.
LEMMA RotatedAuth ==
  ASSUME AuthInv, NEW r \in Ids, Is(r, {"refresh"}, {"sent"}), Live(req[r].shown),
         NEW k \in Tokens,
         Issue(k, [token EXCEPT ![req[r].shown] = "rotated"], line[req[r].shown]),
         req' = [req EXCEPT ![r].stage = "served", ![r].got = k],
         UNCHANGED <<storageVars, memoryVars, holder, doors>>
  PROVE  TokensInv' /\ LinesInv'
<1> USE DEF AuthInv, TypeInv, TokensInv, LinesInv
<1> DEFINE old == req[r].shown
<1>1. ~Idle(r) /\ req[r] \in Requests
  BY RequestType DEF Is
<1>2. old \in Tokens /\ token[old] = "live" /\ token[k] = "unissued" /\ k # old
  BY <1>1, InTokens DEF Live, Issue
<1>3. /\ token' \in [Tokens -> Fates] /\ line' \in [Tokens -> Tokens]
      /\ token'[k] = "live" /\ token'[old] = "rotated"
      /\ line'[k] = line[old]
      /\ \A j \in Tokens : j # k => line'[j] = line[j] /\ (j # old => token'[j] = token[j])
  BY <1>2 DEF Issue, TypeOK, Fates
<1>4. UNCHANGED <<cookie, legacy, holder>>
  BY DEF storageVars
<1>5. Others(r)
  BY DEF TypeOK, Others
<1>6. /\ req'[r] # NoRequest /\ req'[r].stage = "served" /\ req'[r].kind = "refresh"
      /\ req'[r].got = k /\ req'[r].shown = old /\ req'[r].migrates = req[r].migrates
  <2> DEFINE q == [req[r] EXCEPT !.stage = "served", !.got = k]
  <2>1. req'[r] = q
    BY <1>1 DEF TypeOK
  <2>2. /\ q \in Requests /\ q.stage = "served" /\ q.kind = "refresh"
        /\ q.got = k /\ q.shown = old /\ q.migrates = req[r].migrates
    BY <1>1, NumberTypes DEF Requests, Is
  <2>3. q # NoRequest
    BY <2>2, NoRequestApart
  <2>4. QED
    BY <2>1, <2>2, <2>3
<1>7. \A s \in Ids : Is(s, Locked, {"sent", "served"}) => s = r
  BY DEF LockInv, Is, Locked
<1>8. \A s \in Ids : Is(s, Locked, {"sent", "served"})' => s = r
  BY <1>5, <1>7 DEF Others, Is, Idle
<1>9. \A j \in Tokens : token[line[j]] # "unissued" /\ line[j] \in Tokens /\ line[j] # k
  BY <1>2, InTokens DEF KnownInv
<1>10. LockInv'
  BY <1>4, <1>8 DEF LockInv, Is, Locked
<1>11. \A j \in Tokens : token[j] # "unissued" => token'[j] # "unissued" /\ j # k
  BY <1>2, <1>3
<1>12. KnownInv'
  <2>1. Known(cookie)' /\ Known(legacy)'
    BY <1>4, <1>11, InTokens DEF KnownInv, Known
  <2>2. \A s \in Ids : ~Idle(s)' => Known(req[s].shown)' /\ Known(req[s].got)'
    <3>1. Known(req[r].shown)' /\ Known(req[r].got)'
      BY <1>3, <1>6 DEF Known
    <3>2. ASSUME NEW s \in Ids \ {r}, ~Idle(s)'
          PROVE  Known(req[s].shown)' /\ Known(req[s].got)'
      BY <1>5, <1>11, <3>2, InTokens DEF KnownInv, Known, Others, Idle
    <3>3. QED
      BY <3>1, <3>2
  <2>3. \A j \in Tokens : token'[line'[j]] # "unissued"
    BY <1>2, <1>3, <1>9, <1>11
  <2>4. QED
    BY <2>1, <2>2, <2>3 DEF KnownInv
<1>13. /\ k # cookie /\ k # legacy
       /\ \A s \in Ids : ~Idle(s) => req[s].shown # k /\ req[s].got # k
  BY <1>2, NumberTypes DEF KnownInv, Known
<1>14. AnswerInv'
  <2>1. ASSUME NEW s \in Ids \ {r}, ~Idle(s), req[s].got # 0
        PROVE  req[s].got \in Tokens /\ req[s].got # old /\ token'[req[s].got] = token[req[s].got]
    BY <2>1, <1>1, <1>3, <1>13, InTokens DEF AnswerInv
  <2>2. req[r].got = 0
    BY <1>1 DEF AnswerInv, Is
  <2>3. \A s \in Ids \ {r} : ~Idle(s)' => ~Idle(s) /\ req'[s] = req[s]
    BY <1>5 DEF Others, Idle
  <2>4. ASSUME NEW s \in Ids \ {r}, ~Idle(s)', req'[s].got # 0
        PROVE  /\ req'[s].stage = "served" /\ req'[s].kind # "blacklist"
               /\ token'[req'[s].got] \in {"live", "ended"}
               /\ req'[s].got # cookie' /\ req'[s].got # legacy'
               /\ \A u \in Ids : ~Idle(u)' => req'[u].shown # req'[s].got
               /\ \A u \in Ids : ~Idle(u)' /\ u # s => req'[u].got # req'[s].got
    <3>1. ~Idle(s) /\ req'[s] = req[s] /\ req[s].got # 0
      BY <2>3, <2>4
    <3>a. /\ \A u \in Ids : ~Idle(u) => req[u].shown # req[s].got
          /\ \A u \in Ids : ~Idle(u) /\ u # s => req[u].got # req[s].got
      BY <3>1 DEF AnswerInv
    <3>2. ASSUME NEW u \in Ids, ~Idle(u)'
          PROVE  req'[u].shown # req'[s].got
      <4>1. CASE u = r
        BY <4>1, <3>1, <3>a, <1>1, <1>6
      <4>2. CASE u # r
        BY <4>2, <3>1, <3>2, <3>a, <2>3
      <4>3. QED
        BY <4>1, <4>2
    <3>3. ASSUME NEW u \in Ids, ~Idle(u)', u # s
          PROVE  req'[u].got # req'[s].got
      <4>1. CASE u = r
        BY <4>1, <3>1, <1>6, <1>13
      <4>2. CASE u # r
        BY <4>2, <3>1, <3>3, <3>a, <2>3
      <4>3. QED
        BY <4>1, <4>2
    <3>4. QED
      BY <2>1, <3>1, <3>2, <3>3, <1>4 DEF AnswerInv
  <2>5. /\ req'[r].stage = "served" /\ req'[r].kind # "blacklist"
        /\ token'[req'[r].got] \in {"live", "ended"}
        /\ req'[r].got # cookie' /\ req'[r].got # legacy'
        /\ \A u \in Ids : ~Idle(u)' => req'[u].shown # req'[r].got
        /\ \A u \in Ids : ~Idle(u)' /\ u # r => req'[u].got # req'[r].got
    <3>1. \A u \in Ids : ~Idle(u)' => req'[u].shown # k
      BY <2>3, <1>2, <1>6, <1>13
    <3>2. \A u \in Ids : ~Idle(u)' /\ u # r => req'[u].got # k
      BY <2>3, <1>13
    <3>3. QED
      BY <3>1, <3>2, <1>3, <1>4, <1>6, <1>13
  <2>6. QED
    BY <2>4, <2>5 DEF AnswerInv, Idle
<1>15. LegacyInv'
  BY <1>4, <1>5, <1>6, <1>8 DEF LegacyInv, Is, Idle, Locked
<1>16. \A j \in Tokens : token[j] = "rotated" => ~Succeeded(j)
  BY <1>7 DEF Succeeded, Is, Locked
<1>17. Succeeded(old)'
  BY <1>2, <1>6, NumberTypes DEF Succeeded, Is, Idle
<1>18. StoredInv'
  <2>1. \A j \in Tokens : token'[j] = "rotated" /\ (token[j] = "rotated" => Succeeded(j)) =>
          j = old
    BY <1>2, <1>3, <1>16
  <2>2. /\ cookie # 0 /\ token'[cookie] = "rotated" => cookie = old
        /\ legacy # 0 /\ token'[legacy] = "rotated" => legacy = old
    BY <2>1, InTokens DEF StoredInv
  <2>3. /\ cookie' = old => Succeeded(cookie)'
        /\ legacy' = old => Succeeded(legacy)'
    BY <1>6, <1>17 DEF Succeeded
  <2>4. QED
    BY <2>2, <2>3, <1>4 DEF StoredInv
<1>19. ShownInv'
  BY <1>6, <1>8 DEF ShownInv, Is
<1>20. RefreshesNeverClash'
  <2>1. \A s \in Ids : Is(s, {"refresh"}, {"served"})' => s = r
    BY <1>8 DEF Is, Locked
  <2>2. req'[r].got # 0
    BY <1>6, NumberTypes
  <2>3. QED
    BY <2>1, <2>2 DEF RefreshesNeverClash
<1>21. \A j \in Tokens : token'[j] = "live" => j = k \/ (token[j] = "live" /\ j # old)
  BY <1>2, <1>3
<1>22. UniqueLive'
  BY <1>2, <1>3, <1>21 DEF UniqueLive
<1>23. LineInv'
  <2>1. \A s \in Ids : Is(s, {"refresh"}, {"served"})' => s = r
    BY <1>8 DEF Is, Locked
  <2>2. req'[r].shown # 0 /\ line'[req'[r].got] = line'[req'[r].shown]
    BY <1>2, <1>3, <1>6, NumberTypes
  <2>3. QED
    BY <2>1, <2>2 DEF LineInv
<1>24. Reach(old) /\ \A j \in Tokens : Reach(j)' => j = k \/ Reach(j)
  BY <1>4, <1>5, <1>6, <1>1 DEF Reach, Others, Is, Idle
<1>25. \A j \in Tokens : token'[j] \in {"lost", "ended"} => token[j] \in {"lost", "ended"} /\ j # k
  BY <1>3
<1>26. DeadInv'
  <2> SUFFICES ASSUME NEW i \in Tokens, NEW j \in Tokens, Reach(i)', token'[i] = "live",
                      token'[j] \in {"lost", "ended"}
               PROVE  line'[j] # line'[i]
    BY DEF DeadInv
  <2>1. token[j] \in {"lost", "ended"} /\ line'[j] = line[j]
    BY <1>3, <1>25
  <2>2. CASE i = k
    BY <2>1, <2>2, <1>2, <1>3, <1>24 DEF DeadInv
  <2>3. CASE i # k
    BY <2>1, <2>3, <1>3, <1>21, <1>24 DEF DeadInv
  <2>4. QED
    BY <2>2, <2>3
<1>27. QED
  BY <1>10, <1>12, <1>14, <1>15, <1>18, <1>19, <1>20, <1>22, <1>23, <1>26

\* A request that holds the lock is served, and no token is issued: a refresh
\* of a token that is not live is rejected, a sign-out ends its token.
LEMMA ServedAuth ==
  ASSUME AuthInv, NEW r \in Ids, Is(r, Locked, {"sent"}),
         \/ req[r].kind = "refresh" /\ ~Live(req[r].shown) /\ token' = token
         \/ req[r].kind = "blacklist" /\ token' = Ended(req[r].shown),
         req' = [req EXCEPT ![r].stage = "served"],
         UNCHANGED <<storageVars, memoryVars, holder, line, doors>>
  PROVE  TokensInv' /\ LinesInv'
<1> USE DEF AuthInv, TypeInv, TokensInv, LinesInv
<1>1. ~Idle(r) /\ req[r] \in Requests
  BY RequestType DEF Is
<1>2. UNCHANGED <<cookie, legacy, holder, line>>
  BY DEF storageVars
<1>3. Others(r)
  BY DEF TypeOK, Others
<1>4. /\ req'[r] # NoRequest /\ req'[r].stage = "served" /\ req'[r].kind = req[r].kind
      /\ req'[r].got = req[r].got /\ req'[r].shown = req[r].shown
      /\ req'[r].migrates = req[r].migrates
  <2> DEFINE q == [req[r] EXCEPT !.stage = "served"]
  <2>1. req'[r] = q
    BY <1>1 DEF TypeOK
  <2>2. /\ q \in Requests /\ q.stage = "served" /\ q.kind = req[r].kind
        /\ q.got = req[r].got /\ q.shown = req[r].shown /\ q.migrates = req[r].migrates
    BY <1>1 DEF Requests
  <2>3. QED
    BY <2>1, <2>2, NoRequestApart
<1>5. req[r].got = 0
  BY <1>1 DEF AnswerInv, Is
<1>6. \A s \in Ids : Is(s, Locked, {"sent", "served"}) => s = r
  BY DEF LockInv, Is, Locked
<1>7. \A s \in Ids : Is(s, Locked, {"sent", "served"})' => s = r
  BY <1>3, <1>6 DEF Others, Is, Idle
<1>8. req[r].shown # 0 =>
        req[r].shown \in Tokens /\ token[req[r].shown] \in {"live", "lost", "ended"}
  BY <1>1, InTokens DEF ShownInv
<1>9. \A j \in Tokens :
        \/ token'[j] = token[j]
        \/ j = req[r].shown /\ req[r].kind = "blacklist" /\ token'[j] = "ended"
  BY DEF Ended, TypeOK
<1>10. \A j \in Tokens : token[j] # "unissued" <=> token'[j] # "unissued"
  BY <1>8, <1>9, NumberTypes
<1>11. \A s \in Ids : ~Idle(s)' =>
         ~Idle(s) /\ req'[s].got = req[s].got /\ req'[s].shown = req[s].shown
  BY <1>1, <1>3, <1>4 DEF Others, Idle
<1>12. LockInv'
  BY <1>2, <1>7 DEF LockInv, Is, Locked
<1>13. KnownInv'
  <2>1. Known(cookie)' /\ Known(legacy)'
    BY <1>2, <1>10, InTokens DEF KnownInv, Known
  <2>2. \A s \in Ids : ~Idle(s)' => Known(req[s].shown)' /\ Known(req[s].got)'
    BY <1>10, <1>11, InTokens DEF KnownInv, Known
  <2>3. \A j \in Tokens : token'[line'[j]] # "unissued"
    BY <1>2, <1>10, InTokens DEF KnownInv
  <2>4. QED
    BY <2>1, <2>2, <2>3 DEF KnownInv
<1>14. AnswerInv'
  <2> SUFFICES ASSUME NEW s \in Ids, ~Idle(s)', req'[s].got # 0
               PROVE  /\ req'[s].stage = "served" /\ req'[s].kind # "blacklist"
                      /\ token'[req'[s].got] \in {"live", "ended"}
                      /\ req'[s].got # cookie' /\ req'[s].got # legacy'
                      /\ \A u \in Ids : ~Idle(u)' => req'[u].shown # req'[s].got
                      /\ \A u \in Ids : ~Idle(u)' /\ u # s => req'[u].got # req'[s].got
    BY DEF AnswerInv, Idle
  <2>1. s # r /\ ~Idle(s) /\ req'[s] = req[s]
    BY <1>3, <1>4, <1>5, <1>11 DEF Others
  <2>2. req[s].got \in Tokens /\ token'[req[s].got] \in {"live", "ended"}
    BY <2>1, <1>9, InTokens DEF AnswerInv
  <2>3. \A u \in Ids : ~Idle(u)' => req'[u].shown # req'[s].got
    BY <2>1, <1>11 DEF AnswerInv
  <2>4. \A u \in Ids : ~Idle(u)' /\ u # s => req'[u].got # req'[s].got
    BY <2>1, <1>11 DEF AnswerInv
  <2>5. QED
    BY <2>1, <2>2, <2>3, <2>4, <1>2 DEF AnswerInv
<1>15. LegacyInv'
  BY <1>2, <1>4, <1>7 DEF LegacyInv, Is, Idle, Locked
<1>16. \A j \in Tokens : token[j] = "rotated" => ~Succeeded(j)
  BY <1>6 DEF Succeeded, Is, Locked
<1>17. StoredInv'
  BY <1>2, <1>9, <1>16, InTokens DEF StoredInv
<1>18. ShownInv'
  BY <1>4, <1>7 DEF ShownInv, Is
<1>19. RefreshesNeverClash'
  <2>1. \A s \in Ids : Is(s, {"refresh"}, {"served"})' => s = r
    BY <1>7 DEF Is, Locked
  <2>2. req[r].kind = "refresh" /\ req[r].shown # 0 => token'[req'[r].shown] \in {"lost", "ended"}
    BY <1>4, <1>8 DEF Live
  <2>3. QED
    BY <2>1, <2>2, <1>4 DEF RefreshesNeverClash, Is
<1>20. UniqueLive'
  BY <1>2, <1>9 DEF UniqueLive
<1>21. LineInv'
  <2>1. \A s \in Ids : Is(s, {"refresh"}, {"served"})' => s = r
    BY <1>7 DEF Is, Locked
  <2>2. QED
    BY <2>1, <1>4, <1>5 DEF LineInv, Is
<1>22. \A k \in Tokens : Reach(k)' => Reach(k)
  BY <1>2, <1>4, <1>7, <1>11 DEF Reach, Is, Locked
<1>23. DeadInv'
  <2> SUFFICES ASSUME NEW k \in Tokens, NEW j \in Tokens, Reach(k)', token'[k] = "live",
                      token'[j] \in {"lost", "ended"}
               PROVE  line[j] # line[k]
    BY <1>2 DEF DeadInv
  <2>1. Reach(k) /\ token[k] = "live"
    BY <1>9, <1>22
  <2>2. CASE token[j] \in {"lost", "ended"}
    BY <2>1, <2>2 DEF DeadInv
  <2>3. CASE token[j] = "live"
    BY <2>1, <2>3 DEF UniqueLive
  <2>4. QED
    BY <2>2, <2>3, <1>8, <1>9, NumberTypes
<1>24. QED
  BY <1>12, <1>13, <1>14, <1>15, <1>17, <1>18, <1>19, <1>20, <1>21, <1>23

\* A sign-in is given a token of a new line.
LEMMA ServeSignInAuth ==
  ASSUME AuthInv, NEW r \in Ids, ServeSignIn(r)
  PROVE  TokensInv' /\ LinesInv'
<1> USE DEF AuthInv, TypeInv, TokensInv, LinesInv
<1>1. PICK k \in Tokens :
        /\ Issue(k, IF req[r].kind = "password" THEN Revoked ELSE token, k)
        /\ req' = [req EXCEPT ![r].stage = "served", ![r].got = k]
  BY DEF ServeSignIn
<1>2. /\ Is(r, Signing, {"sent"}) /\ ~Idle(r) /\ req[r] \in Requests
      /\ UNCHANGED <<cookie, legacy, holder>>
  BY RequestType DEF ServeSignIn, Is, storageVars
<1>3. /\ token[k] = "unissued" /\ token'[k] = "live" /\ line'[k] = k
      /\ \A j \in Tokens : j # k =>
           /\ line'[j] = line[j]
           /\ token'[j] = token[j] \/ (token[j] = "live" /\ token'[j] = "ended")
  BY <1>1 DEF Issue, Revoked, TypeOK, Fates
<1>4. Others(r)
  BY <1>1 DEF TypeOK, Others
<1>5. /\ req'[r] # NoRequest /\ req'[r].stage = "served" /\ req'[r].kind = req[r].kind
      /\ req'[r].got = k /\ req'[r].shown = req[r].shown
  <2> DEFINE q == [req[r] EXCEPT !.stage = "served", !.got = k]
  <2>1. req'[r] = q
    BY <1>1, <1>2 DEF TypeOK
  <2>2. /\ q \in Requests /\ q.stage = "served" /\ q.kind = req[r].kind
        /\ q.got = k /\ q.shown = req[r].shown
    BY <1>2, NumberTypes DEF Requests
  <2>3. QED
    BY <2>1, <2>2, NoRequestApart
<1>6. \A s \in Ids \ {r} : ~Idle(s)' => ~Idle(s) /\ req'[s] = req[s]
  BY <1>4 DEF Others, Idle
<1>7. \A s \in Ids : Is(s, Locked, {"sent", "served"})' =>
        s # r /\ Is(s, Locked, {"sent", "served"}) /\ req'[s] = req[s]
  BY <1>2, <1>4, <1>5 DEF Others, Is, Idle, Locked, Signing
<1>8. \A j \in Tokens : token[j] # "unissued" => j # k /\ token'[j] # "unissued"
  BY <1>3
<1>9. \A j \in Tokens : line[j] \in Tokens /\ line[j] # k
  BY <1>3, InTokens DEF KnownInv
<1>10. /\ k # cookie /\ k # legacy
       /\ \A s \in Ids : ~Idle(s) => req[s].shown # k /\ req[s].got # k
  BY <1>3, NumberTypes DEF KnownInv, Known
<1>11. LockInv'
  BY <1>2, <1>7 DEF LockInv
<1>12. KnownInv'
  <2>1. Known(cookie)' /\ Known(legacy)'
    BY <1>2, <1>8, InTokens DEF KnownInv, Known
  <2>2. Known(req[r].shown)' /\ Known(req[r].got)'
    BY <1>2, <1>3, <1>5, <1>8, InTokens DEF KnownInv, Known
  <2>3. ASSUME NEW s \in Ids \ {r}, ~Idle(s)'
        PROVE  Known(req[s].shown)' /\ Known(req[s].got)'
    BY <1>6, <1>8, <2>3, InTokens DEF KnownInv, Known
  <2>4. \A j \in Tokens : token'[line'[j]] # "unissued"
    BY <1>3, <1>8, <1>9 DEF KnownInv
  <2>5. QED
    BY <2>1, <2>2, <2>3, <2>4 DEF KnownInv
<1>13. AnswerInv'
  <2>1. ASSUME NEW s \in Ids \ {r}, ~Idle(s)', req'[s].got # 0
        PROVE  /\ req'[s].stage = "served" /\ req'[s].kind # "blacklist"
               /\ token'[req'[s].got] \in {"live", "ended"}
               /\ req'[s].got # cookie' /\ req'[s].got # legacy'
               /\ \A u \in Ids : ~Idle(u)' => req'[u].shown # req'[s].got
               /\ \A u \in Ids : ~Idle(u)' /\ u # s => req'[u].got # req'[s].got
    <3>1. ~Idle(s) /\ req'[s] = req[s] /\ req[s].got # 0
      BY <1>6, <2>1
    <3>2. /\ \A u \in Ids : ~Idle(u) => req[u].shown # req[s].got
          /\ \A u \in Ids : ~Idle(u) /\ u # s => req[u].got # req[s].got
      BY <3>1 DEF AnswerInv
    <3>3. ASSUME NEW u \in Ids, ~Idle(u)'
          PROVE  req'[u].shown # req'[s].got
      <4>1. CASE u = r
        BY <4>1, <3>1, <3>2, <1>2, <1>5
      <4>2. CASE u # r
        BY <4>2, <3>1, <3>2, <3>3, <1>6
      <4>3. QED
        BY <4>1, <4>2
    <3>4. ASSUME NEW u \in Ids, ~Idle(u)', u # s
          PROVE  req'[u].got # req'[s].got
      <4>1. CASE u = r
        BY <4>1, <3>1, <1>5, <1>10
      <4>2. CASE u # r
        BY <4>2, <3>1, <3>2, <3>4, <1>6
      <4>3. QED
        BY <4>1, <4>2
    <3>5. req[s].got \in Tokens /\ req[s].got # k
      BY <3>1, <1>10, InTokens
    <3>6. QED
      BY <3>1, <3>3, <3>4, <3>5, <1>2, <1>3 DEF AnswerInv
  <2>2. /\ req'[r].stage = "served" /\ req'[r].kind # "blacklist"
        /\ token'[req'[r].got] \in {"live", "ended"}
        /\ req'[r].got # cookie' /\ req'[r].got # legacy'
        /\ \A u \in Ids : ~Idle(u)' => req'[u].shown # req'[r].got
        /\ \A u \in Ids : ~Idle(u)' /\ u # r => req'[u].got # req'[r].got
    <3>1. \A u \in Ids : ~Idle(u)' => req'[u].shown # k
      BY <1>2, <1>5, <1>6, <1>10
    <3>2. \A u \in Ids : ~Idle(u)' /\ u # r => req'[u].got # k
      BY <1>6, <1>10
    <3>3. QED
      BY <3>1, <3>2, <1>2, <1>3, <1>5, <1>10 DEF Is, Signing
  <2>3. QED
    BY <2>1, <2>2 DEF AnswerInv, Idle
<1>14. LegacyInv'
  BY <1>2, <1>7 DEF LegacyInv, Is, Idle, Locked
<1>15. \A j \in Tokens : token'[j] = "rotated" => token[j] = "rotated"
  BY <1>3
<1>16. \A j \in Tokens : Succeeded(j) => Succeeded(j)'
  <2> SUFFICES ASSUME NEW j \in Tokens, Succeeded(j)
               PROVE  Succeeded(j)'
    OBVIOUS
  <2>1. PICK s \in Ids : Is(s, {"refresh"}, {"served"}) /\ req[s].got # 0 /\ req[s].shown = j
    BY DEF Succeeded
  <2>2. s # r /\ req'[s] = req[s]
    BY <2>1, <1>2, <1>4 DEF Is, Signing, Others
  <2>3. QED
    BY <2>1, <2>2 DEF Succeeded, Is, Idle
<1>17. StoredInv'
  BY <1>2, <1>15, <1>16, InTokens DEF StoredInv, Succeeded
<1>18. ShownInv'
  BY <1>3, <1>7, <1>10, InTokens DEF ShownInv, Is, Idle
<1>19. RefreshesNeverClash'
  <2> SUFFICES ASSUME NEW s \in Ids, Is(s, {"refresh"}, {"served"})',
                      req'[s].got = 0, req'[s].shown # 0
               PROVE  token'[req'[s].shown] \in {"lost", "ended"}
    BY DEF RefreshesNeverClash, Is
  <2>1. Is(s, {"refresh"}, {"served"}) /\ req'[s] = req[s]
    BY <1>7 DEF Is, Locked, Idle
  <2>2. req[s].shown \in Tokens /\ req[s].shown # k
    BY <2>1, <1>10, InTokens DEF Is
  <2>3. QED
    BY <2>1, <2>2, <1>3 DEF RefreshesNeverClash
<1>20. UniqueLive'
  BY <1>3, <1>9 DEF UniqueLive
<1>21. LineInv'
  <2> SUFFICES ASSUME NEW s \in Ids, Is(s, {"refresh"}, {"served"})', req'[s].got # 0
               PROVE  req'[s].shown # 0 /\ line'[req'[s].got] = line'[req'[s].shown]
    BY DEF LineInv, Is
  <2>1. Is(s, {"refresh"}, {"served"}) /\ req'[s] = req[s]
    BY <1>7 DEF Is, Locked, Idle
  <2>2. req[s].shown # 0 /\ line[req[s].got] = line[req[s].shown]
    BY <2>1 DEF LineInv
  <2>3. req[s].shown \in Tokens \ {k} /\ req[s].got \in Tokens \ {k}
    BY <2>1, <2>2, <1>10, InTokens DEF Is
  <2>4. QED
    BY <2>1, <2>2, <2>3, <1>3
<1>22. \A j \in Tokens : Reach(j)' => j = k \/ Reach(j)
  BY <1>2, <1>5, <1>6, <1>7 DEF Reach, Is, Locked
<1>23. DeadInv'
  <2> SUFFICES ASSUME NEW i \in Tokens, NEW j \in Tokens, Reach(i)', token'[i] = "live",
                      token'[j] \in {"lost", "ended"}
               PROVE  line'[j] # line'[i]
    BY DEF DeadInv
  <2>1. j # k /\ line'[j] = line[j]
    BY <1>3
  <2>2. CASE i = k
    BY <2>1, <2>2, <1>3, <1>9
  <2>3. CASE i # k
    <3>1. Reach(i) /\ token[i] = "live" /\ line'[i] = line[i]
      BY <2>3, <1>3, <1>22
    <3>2. CASE token[j] \in {"lost", "ended"}
      BY <3>1, <3>2, <2>1 DEF DeadInv
    <3>3. CASE token[j] = "live"
      BY <3>1, <3>3, <2>1 DEF UniqueLive
    <3>4. QED
      BY <3>2, <3>3, <2>1, <1>3
  <2>4. QED
    BY <2>2, <2>3
<1>24. QED
  BY <1>11, <1>12, <1>13, <1>14, <1>17, <1>18, <1>19, <1>20, <1>21, <1>23

\* The cookie is set to the token of an answer, and the older bundle's is gone.
LEMMA InstallAuth ==
  ASSUME AuthInv, NEW r \in Ids, ~Idle(r), Finish(r),
         cookie' = req[r].got, legacy' = 0,
         holder' = holder \/ holder = r, UNCHANGED serverVars
  PROVE  TokensInv' /\ LinesInv'
<1> USE DEF AuthInv, TypeInv, TokensInv, LinesInv
<1>1. UNCHANGED <<token, line>>
  BY DEF serverVars
<1>2. \A s \in Ids : ~Idle(s)' => s # r /\ ~Idle(s) /\ req'[s] = req[s]
  BY DEF Finish, Idle, TypeOK
<1>3. LockInv'
  BY <1>2 DEF LockInv, Is
<1>4. KnownInv'
  BY <1>1, <1>2 DEF KnownInv, Known
<1>5. AnswerInv'
  BY <1>1, <1>2 DEF AnswerInv
<1>6. LegacyInv'
  BY DEF LegacyInv
<1>7. StoredInv'
  BY <1>1 DEF StoredInv, AnswerInv
<1>8. ShownInv'
  BY <1>1, <1>2 DEF ShownInv, Is
<1>9. RefreshesNeverClash'
  BY <1>1, <1>2 DEF RefreshesNeverClash, Is
<1>10. UniqueLive' /\ LineInv'
  BY <1>1, <1>2 DEF UniqueLive, LineInv, Is
<1>11. \A k \in Tokens : Reach(k)' => Reach(k)
  BY <1>2, NumberTypes DEF Reach, Is
<1>12. DeadInv'
  BY <1>1, <1>11 DEF DeadInv
<1>13. QED
  BY <1>3, <1>4, <1>5, <1>6, <1>7, <1>8, <1>9, <1>10, <1>12

-------------------------------------------------------------------------------
(* Which steps carry the requests on. *)

LEMMA NothingGivenUp ==
  ASSUME TypeOK, NEW rs, token' = token,
         holder' = IF holder \in rs THEN 0 ELSE holder,
         \A r \in rs : Is(r, {"refresh"}, {"served"}) => req[r].got = 0
  PROVE  GiveUp(rs)
BY DEF GiveUp, Unheard, TypeOK, Is

LEMMA NothingGivenUpAtAll ==
  ASSUME TypeOK, token' = token, holder' = holder
  PROVE  GiveUp({})
BY NothingGivenUp

LEMMA BegunRequest ==
  ASSUME NEW kind \in Locked \cup Signing, NEW t \in Tabs, NEW stage \in {"queued", "sent"},
         kind \in Locked => stage = "queued",
         NEW callers \in SUBSET Callers, NEW r \in Ids,
         req'[r] = NewRequest(kind, t, stage, callers)
  PROVE  Begun(r)
BY DEF Begun, NewRequest

LEMMA RefreshTokensCarry ==
  ASSUME TypeInv, NEW t \in Tabs, NEW caller \in Callers, NEW held,
         RefreshTokens(t, caller, held)
  PROVE  \A r \in Ids : (Idle(r) /\ Begun(r)) \/ Kept(r)
<1>1. CASE shared[t] # 0 /\ req' = [req EXCEPT ![shared[t]].callers = @ \cup {caller}]
  <2>1. shared[t] \in Ids /\ req[shared[t]] \in Requests
    BY <1>1, RequestType DEF TypeInv, TypeOK, SharedInv, Is, Ids
  <2> DEFINE q == [req[shared[t]] EXCEPT !.callers = @ \cup {caller}]
  <2>2. /\ q \in Requests /\ q.kind = req[shared[t]].kind /\ q.stage = req[shared[t]].stage
        /\ q.shown = req[shared[t]].shown /\ q.got = req[shared[t]].got
        /\ q.migrates = req[shared[t]].migrates
    BY <2>1 DEF Requests
  <2>3. req'[shared[t]] = q /\ \A r \in Ids : r # shared[t] => req'[r] = req[r]
    BY <1>1, <2>1 DEF TypeInv, TypeOK
  <2>4. Kept(shared[t])
    <3> HIDE DEF q
    <3> QED
      BY <2>1, <2>2, <2>3, NoRequestApart DEF Kept
  <2>5. QED
    BY <2>3, <2>4 DEF Kept
<1>2. ASSUME NEW r \in Ids, FreeIn(req, r),
             req' = [req EXCEPT ![r] = NewRequest("refresh", t, "queued", {caller})]
      PROVE  \A s \in Ids : (Idle(s) /\ Begun(s)) \/ Kept(s)
  <2>1. req'[r] = NewRequest("refresh", t, "queued", {caller})
        /\ \A s \in Ids : s # r => req'[s] = req[s]
    BY <1>2 DEF TypeInv, TypeOK
  <2>2. Idle(r) /\ Begun(r)
    BY <1>2, <2>1, BegunRequest DEF FreeIn, Idle, Locked, Callers
  <2>3. QED
    BY <2>1, <2>2 DEF Kept
<1>3. QED
  BY <1>1, <1>2 DEF RefreshTokens

\* A tab that begins a request, or none, and gives nothing up.
LEMMA TabCarry ==
  ASSUME TypeInv, NEW t \in Tabs,
         \/ Call(t) \/ HeardRemoved(t) \/ HeardSet(t)
         \/ SignOut(t) \/ SignIn(t) \/ RestoreDone(t) \/ RestoreFails(t)
  PROVE  Carry({})
<1> USE DEF TypeInv
<1>1. UNCHANGED <<cookie, holder, token, line>>
  BY DEF Call, HeardRemoved, HeardSet, SignOut, SignIn, RestoreDone, RestoreFails,
         storageVars, serverVars
<1>2. legacy' = legacy \/ legacy' = 0
  BY DEF Call, HeardRemoved, HeardSet, SignOut, SignIn, RestoreDone, RestoreFails,
         storageVars, Logout
<1>3. GiveUp({})
  BY <1>1, NothingGivenUpAtAll
<1>4. \A r \in Ids : (Idle(r) /\ Begun(r)) \/ Kept(r)
  <2>1. CASE Call(t) \/ HeardSet(t)
    <3>1. \/ \E caller \in Callers, held \in {access[t], FALSE} : RefreshTokens(t, caller, held)
          \/ req' = req
      BY <2>1 DEF Call, HeardSet, Callers
    <3>2. QED
      BY <3>1, RefreshTokensCarry DEF Kept
  <2>2. CASE SignOut(t)
    <3>1. PICK r \in Ids :
            /\ FreeIn(req, r)
            /\ req' = [req EXCEPT ![r] = NewRequest("blacklist", t, "queued", {})]
      BY <2>2 DEF SignOut
    <3>2. req'[r] = NewRequest("blacklist", t, "queued", {})
          /\ \A s \in Ids : s # r => req'[s] = req[s]
      BY <3>1 DEF TypeOK
    <3>3. Idle(r) /\ Begun(r)
      BY <3>1, <3>2, BegunRequest DEF FreeIn, Idle, Locked, Callers
    <3>4. QED
      BY <3>2, <3>3 DEF Kept
  <2>3. CASE SignIn(t)
    <3>1. PICK kind \in Signing, r \in Ids :
            FreeIn(req, r) /\ req' = [req EXCEPT ![r] = NewRequest(kind, t, "sent", {})]
      BY <2>3 DEF SignIn
    <3>2. req'[r] = NewRequest(kind, t, "sent", {})
          /\ \A s \in Ids : s # r => req'[s] = req[s]
      BY <3>1 DEF TypeOK
    <3>3. kind \notin Locked
      BY DEF Signing, Locked
    <3>4. Idle(r) /\ Begun(r)
      BY <3>1, <3>2, <3>3, BegunRequest DEF FreeIn, Idle, Callers
    <3>5. QED
      BY <3>2, <3>4 DEF Kept
  <2>4. CASE HeardRemoved(t) \/ RestoreDone(t) \/ RestoreFails(t)
    BY <2>4 DEF HeardRemoved, RestoreDone, RestoreFails, Kept
  <2>5. QED
    BY <2>1, <2>2, <2>3, <2>4
<1>5. QED
  BY <1>1, <1>2, <1>3, <1>4 DEF Carry

LEMMA RestoreTimesOutCarry ==
  ASSUME TypeInv, NEW r \in Ids, RestoreTimesOut(r)
  PROVE  Carry({})
<1> USE DEF TypeInv
<1>1. UNCHANGED <<cookie, legacy, holder, token, line>>
  BY DEF RestoreTimesOut, storageVars, serverVars
<1>2. GiveUp({})
  BY <1>1, NothingGivenUpAtAll
<1>3. ~Idle(r) /\ req[r] \in Requests
  BY RequestType DEF RestoreTimesOut, Is
<1> DEFINE q == [req[r] EXCEPT !.callers = @ \ {"restore"}]
<1>4. /\ q \in Requests /\ q.kind = req[r].kind /\ q.stage = req[r].stage
      /\ q.shown = req[r].shown /\ q.got = req[r].got /\ q.migrates = req[r].migrates
  BY <1>3 DEF Requests
<1>5. req'[r] = q /\ \A s \in Ids : s # r => req'[s] = req[s]
  BY <1>3 DEF RestoreTimesOut, TypeOK
<1>6. \A s \in Ids : Kept(s)
  <2> HIDE DEF q
  <2> QED
    BY <1>3, <1>4, <1>5, NoRequestApart DEF Kept
<1>7. QED
  BY <1>1, <1>2, <1>6 DEF Carry

\* A tab that is loaded again gives its requests up, and may begin a refresh.
LEMMA ReloadCarry ==
  ASSUME TypeInv, NEW t \in Tabs, Reload(t)
  PROVE  Carry({r \in Ids : ~Idle(r) /\ req[r].tab = t})
<1> USE DEF TypeInv
<1> DEFINE mine == {r \in Ids : ~Idle(r) /\ req[r].tab = t}
           kept == [r \in Ids |-> IF r \in mine THEN NoRequest ELSE req[r]]
<1>1. GiveUp(mine) /\ UNCHANGED <<cookie, legacy, line>>
  BY DEF Reload
<1>2. \A r \in Ids : ((r \in mine \/ Idle(r)) /\ Begun(r)) \/ (r \notin mine /\ Kept(r))
  <2>1. CASE req' = kept
    BY <2>1 DEF Begun, Kept, Idle
  <2>2. ASSUME NEW r \in Ids, FreeIn(kept, r),
               req' = [kept EXCEPT ![r] = NewRequest("refresh", t, "queued", {"restore"})]
        PROVE  \A s \in Ids : ((s \in mine \/ Idle(s)) /\ Begun(s)) \/ (s \notin mine /\ Kept(s))
    <3>1. req'[r] = NewRequest("refresh", t, "queued", {"restore"})
          /\ \A s \in Ids : s # r => req'[s] = kept[s]
      BY <2>2
    <3>2. Begun(r) /\ (r \in mine \/ Idle(r))
      BY <2>2, <3>1, BegunRequest DEF FreeIn, Idle, Locked, Callers
    <3>3. \A s \in Ids : s # r =>
            ((s \in mine \/ Idle(s)) /\ Begun(s)) \/ (s \notin mine /\ Kept(s))
      BY <3>1 DEF Begun, Kept, Idle
    <3>4. QED
      BY <3>2, <3>3
  <2>3. QED
    BY <2>1, <2>2 DEF Reload
<1>3. QED
  BY <1>1, <1>2 DEF Carry

\* A request that ends without a token.
LEMMA EndCarry ==
  ASSUME TypeInv, NEW r \in Ids, Lost(r) \/ RefreshRejected(r) \/ BlacklistAnswered(r)
  PROVE  Carry({r})
<1> USE DEF TypeInv
<1>1. /\ Finish(r) /\ line' = line
      /\ cookie' = cookie \/ cookie' = 0
      /\ legacy' = legacy \/ legacy' = 0
  BY DEF Lost, RefreshRejected, BlacklistAnswered, storageVars, serverVars, Logout
<1>2. GiveUp({r})
  <2>1. CASE Lost(r)
    BY <2>1 DEF Lost
  <2>2. CASE RefreshRejected(r)
    BY <2>2, NothingGivenUp DEF RefreshRejected, serverVars, Unlock
  <2>3. CASE BlacklistAnswered(r)
    BY <2>3, NothingGivenUp DEF BlacklistAnswered, serverVars, Unlock, Is
  <2>4. QED
    BY <2>1, <2>2, <2>3
<1>3. \A s \in Ids : ((s \in {r} \/ Idle(s)) /\ Begun(s)) \/ (s \notin {r} /\ Kept(s))
  BY <1>1 DEF Finish, Begun, Kept, TypeOK
<1>4. QED
  BY <1>1, <1>2, <1>3 DEF Carry

LEMMA CarryAuth ==
  ASSUME AuthInv, NEW rs \in SUBSET Ids, Carry(rs)
  PROVE  TokensInv' /\ LinesInv'
BY CarryTokens, CarryLines DEF AuthInv

LEMMA AuthInit == Init => AuthInv
<1> SUFFICES ASSUME Init PROVE AuthInv
  OBVIOUS
<1>1. TypeInv
  BY TypeInit
<1>2. \A r \in Ids : Idle(r)
  BY DEF Init, Idle
<1>3. /\ cookie \in {0, 1} /\ legacy \in {0, 1} /\ (legacy # 0 => cookie = 0)
      /\ 1 \in Tokens /\ token[1] = "live"
      /\ \A k \in Tokens : line[k] = 1 /\ (k # 1 => token[k] = "unissued")
  BY NumberTypes DEF Init
<1>4. TokensInv
  BY <1>2, <1>3 DEF TokensInv, LockInv, KnownInv, Known, AnswerInv, LegacyInv, StoredInv,
     ShownInv, RefreshesNeverClash, Is
<1>5. LinesInv
  BY <1>2, <1>3 DEF LinesInv, UniqueLive, LineInv, DeadInv, Is
<1>6. QED
  BY <1>1, <1>4, <1>5 DEF AuthInv

LEMMA AuthStep ==
  AuthInv /\ [Next]_vars => AuthInv'
<1> SUFFICES ASSUME AuthInv, [Next]_vars
             PROVE  TokensInv' /\ LinesInv'
  BY TypeStep DEF AuthInv
<1>t. TypeInv
  BY DEF AuthInv
<1>1. ASSUME NEW t \in Tabs,
             \/ Call(t) \/ HeardRemoved(t) \/ HeardSet(t)
             \/ SignOut(t) \/ SignIn(t) \/ RestoreDone(t) \/ RestoreFails(t)
      PROVE  TokensInv' /\ LinesInv'
  BY <1>1, <1>t, TabCarry, CarryAuth
<1>2. ASSUME NEW t \in Tabs, Reload(t)
      PROVE  TokensInv' /\ LinesInv'
  BY <1>2, <1>t, ReloadCarry, CarryAuth
<1>3. ASSUME NEW r \in Ids, Lost(r) \/ RefreshRejected(r) \/ BlacklistAnswered(r)
      PROVE  TokensInv' /\ LinesInv'
  BY <1>3, <1>t, EndCarry, CarryAuth
<1>4. ASSUME NEW r \in Ids, RestoreTimesOut(r)
      PROVE  TokensInv' /\ LinesInv'
  BY <1>4, <1>t, RestoreTimesOutCarry, CarryAuth
<1>5. ASSUME NEW r \in Ids, Granted(r)
      PROVE  TokensInv' /\ LinesInv'
  BY <1>5, GrantedAuth
<1>6. ASSUME NEW r \in Ids, ServeRefresh(r)
      PROVE  TokensInv' /\ LinesInv'
  <2>1. /\ Is(r, {"refresh"}, {"sent"}) /\ Is(r, Locked, {"sent"}) /\ req[r].kind = "refresh"
        /\ UNCHANGED <<storageVars, memoryVars, holder, doors>>
    BY <1>6 DEF ServeRefresh, Is, Locked
  <2>2. CASE Live(req[r].shown)
    BY <1>6, <2>1, <2>2, RotatedAuth DEF ServeRefresh
  <2>3. CASE ~Live(req[r].shown)
    <3>1. req' = [req EXCEPT ![r].stage = "served"] /\ token' = token /\ line' = line
      BY <1>6, <2>3 DEF ServeRefresh, serverVars
    <3>2. QED
      BY <2>1, <2>3, <3>1, ServedAuth
  <2>4. QED
    BY <2>2, <2>3
<1>7. ASSUME NEW r \in Ids, ServeBlacklist(r)
      PROVE  TokensInv' /\ LinesInv'
  <2>1. Is(r, Locked, {"sent"}) /\ req[r].kind = "blacklist"
    BY <1>7 DEF ServeBlacklist, Is, Locked
  <2>2. QED
    BY <1>7, <2>1, ServedAuth DEF ServeBlacklist
<1>8. ASSUME NEW r \in Ids, ServeSignIn(r)
      PROVE  TokensInv' /\ LinesInv'
  BY <1>8, ServeSignInAuth
<1>9. ASSUME NEW r \in Ids, RefreshAnswered(r)
      PROVE  TokensInv' /\ LinesInv'
  <2>1. ~Idle(r) /\ Is(r, Locked, {"sent", "served"}) /\ Is(r, {"refresh"}, {"sent", "served"})
    BY <1>9 DEF RefreshAnswered, Is, Locked
  <2>2. holder = r /\ (legacy # 0 => req[r].migrates)
    BY <2>1 DEF AuthInv, TokensInv, LockInv, LegacyInv
  <2>3. Finish(r) /\ cookie' = req[r].got /\ legacy' = 0 /\ UNCHANGED serverVars
    BY <1>9, <2>2 DEF RefreshAnswered
  <2>4. QED
    BY <2>1, <2>2, <2>3, InstallAuth
<1>10. ASSUME NEW r \in Ids, SignedIn(r)
       PROVE  TokensInv' /\ LinesInv'
  BY <1>10, InstallAuth DEF SignedIn, Is
<1>11. CASE UNCHANGED vars
  <2>1. GiveUp({})
    BY <1>11, <1>t, NothingGivenUpAtAll DEF vars, serverVars, TypeInv
  <2>2. Carry({})
    BY <1>11, <2>1 DEF Carry, Kept, vars, storageVars, serverVars
  <2>3. QED
    BY <2>2, CarryAuth
<1>12. QED
  BY <1>1, <1>2, <1>3, <1>4, <1>5, <1>6, <1>7, <1>8, <1>9, <1>10, <1>11
  DEF Next, TabStep, RequestStep

LEMMA AuthAlways == Spec => []AuthInv
BY AuthInit, AuthStep, PTL DEF Spec

\* The Web Lock and the order cookie first, lock later keep the tabs apart: a
\* rejected refresh presented a token that was ended, or whose successor was
\* lost, never one that another refresh of the browser had just used up.
THEOREM NoClash == Spec => []RefreshesNeverClash
<1>1. AuthInv => RefreshesNeverClash
  BY DEF AuthInv, TokensInv
<1>2. QED
  BY <1>1, AuthAlways, PTL

\* What a sign-out or a change of password ended at the server stays ended: no
\* answer still under way puts a live token of that sign-in into the cookie.
THEOREM EndedStaysEnded == Spec => []SignOutSticks
<1>1. AuthInv => SignOutSticks
  <2> SUFFICES ASSUME AuthInv, NEW k \in Tokens, NEW j \in Tokens,
                      k \in Held, Live(k), token[j] = "ended"
               PROVE  line[j] # line[k]
    BY DEF SignOutSticks
  <2>1. Reach(k)
    BY DEF Held, Reach, Is
  <2>2. QED
    BY <2>1 DEF AuthInv, LinesInv, DeadInv, Live
<1>2. QED
  BY <1>1, AuthAlways, PTL

-------------------------------------------------------------------------------
(* The hint and the cookie. *)

Excuse ==
  \/ doors # {}
  \/ \E r \in Ids : Is(r, {"blacklist"}, {"queued", "sent"})
  \/ \E t \in Tabs : loading[t] = "migrated"

\* A refresh under way presented the cookie, unless a sign-in crossed it.
CookieShown ==
  \A r \in Ids : Is(r, {"refresh"}, {"sent", "served"}) =>
    "crossed" \in doors \/ cookie = IF req[r].migrates THEN 0 ELSE req[r].shown

\* A sign-out under way ends the cookie's token, or the hint is back, or
\* another sign-out waits behind it.
CookieBlack ==
  \A r \in Ids : Is(r, {"blacklist"}, {"sent"}) =>
    \/ cookie = req[r].shown \/ hint \/ doors # {}
    \/ \E s \in Ids \ {r} : Is(s, {"blacklist"}, {"queued"})

\* The cookie carries a live session, or will with the answer under way.
Carried ==
  \/ Live(cookie)
  \/ \E r \in Ids : Is(r, {"refresh"}, {"served"}) /\ req[r].got # 0 /\ ~req[r].migrates

HintInv == CookieShown /\ CookieBlack /\ (Carried /\ ~hint => Excuse)

\* Giving requests up, or a restore that ends, is put down among the doors.
Excusing(rs) ==
  /\ hint => hint'
  /\ doors \cup UnsaidDoors(rs) \subseteq doors'
  /\ ~hint' /\ (\E t \in Tabs : loading[t] = "migrated") =>
       doors' # {} \/ \E t \in Tabs : loading'[t] = "migrated"

LEMMA CarryHint ==
  ASSUME AuthInv, HintInv, NEW rs \in SUBSET Ids, Carry(rs), Excusing(rs), cookie' = cookie
  PROVE  HintInv'
<1> USE DEF AuthInv, TypeInv, HintInv
<1>1. \A r \in Ids : ~Idle(r)' => Begun(r) \/ (r \notin rs /\ ~Idle(r) /\ Kept(r))
  BY DEF Carry, Kept, Idle
<1>2. doors \subseteq doors'
  BY DEF Excusing
<1>3. \A s \in Ids : Is(s, {"blacklist"}, {"queued", "sent"}) => doors' # {} \/ Kept(s)
  BY DEF Excusing, UnsaidDoors, Carry, Is
<1>4. CookieShown'
  <2>1. \A r \in Ids : Is(r, {"refresh"}, {"sent", "served"})' =>
          /\ Is(r, {"refresh"}, {"sent", "served"})
          /\ req'[r].migrates = req[r].migrates /\ req'[r].shown = req[r].shown
    BY <1>1 DEF Is, Idle, Begun, Kept, Locked
  <2>2. QED
    BY <2>1, <1>2 DEF CookieShown
<1>5. CookieBlack'
  <2> SUFFICES ASSUME NEW r \in Ids, Is(r, {"blacklist"}, {"sent"})', doors' = {}
               PROVE  \/ cookie' = req'[r].shown \/ hint'
                      \/ \E s \in Ids \ {r} : Is(s, {"blacklist"}, {"queued"})'
    BY DEF CookieBlack
  <2>1. Is(r, {"blacklist"}, {"sent"}) /\ req'[r].shown = req[r].shown
    BY <1>1 DEF Is, Idle, Begun, Kept, Locked
  <2>2. doors = {}
    BY <1>2
  <2>3. \A s \in Ids : Is(s, {"blacklist"}, {"queued"}) => Is(s, {"blacklist"}, {"queued"})'
    BY <1>3 DEF Is, Idle, Kept
  <2>4. QED
    BY <2>1, <2>2, <2>3 DEF CookieBlack, Excusing
<1>6. Carried' => Carried
  <2>1. Live(cookie)' => Live(cookie)
    BY GivenUp, InTokens DEF Carry, Live
  <2>2. \A r \in Ids : Is(r, {"refresh"}, {"served"})' =>
          /\ Is(r, {"refresh"}, {"served"})
          /\ req'[r].migrates = req[r].migrates /\ req'[r].got = req[r].got
    BY <1>1 DEF Is, Idle, Begun, Kept
  <2>3. QED
    BY <2>1, <2>2 DEF Carried
<1>7. ASSUME Excuse, ~hint'
      PROVE  Excuse'
  <2>1. CASE doors # {}
    BY <2>1, <1>2 DEF Excuse
  <2>2. ASSUME NEW r \in Ids, Is(r, {"blacklist"}, {"queued", "sent"})
        PROVE  Excuse'
    BY <2>2, <1>3 DEF Excuse, Is, Idle, Kept
  <2>3. CASE \E t \in Tabs : loading[t] = "migrated"
    BY <2>3, <1>7 DEF Excuse, Excusing
  <2>4. QED
    BY <1>7, <2>1, <2>2, <2>3 DEF Excuse
<1>8. QED
  BY <1>4, <1>5, <1>6, <1>7 DEF Excusing

\* Once the request that holds the lock ends, no refresh or sign-out is under way.
LEMMA NobodyElse ==
  ASSUME AuthInv, NEW r \in Ids, Is(r, Locked, {"sent", "served"}), Finish(r)
  PROVE  \A s \in Ids : ~Is(s, Locked, {"sent", "served"})'
<1>1. \A s \in Ids : Is(s, Locked, {"sent", "served"}) => s = r
  BY DEF AuthInv, TokensInv, LockInv
<1>2. \A s \in Ids : s # r => req'[s] = req[s]
  BY DEF Finish, AuthInv, TypeInv, TypeOK
<1>3. req'[r] = NoRequest
  BY DEF Finish, AuthInv, TypeInv, TypeOK
<1>4. QED
  BY <1>1, <1>2, <1>3 DEF Is, Idle

LEMMA TabHint ==
  ASSUME AuthInv, HintInv, NEW t \in Tabs,
         \/ Call(t) \/ HeardRemoved(t) \/ HeardSet(t)
         \/ SignIn(t) \/ RestoreDone(t) \/ RestoreFails(t)
  PROVE  HintInv'
<1>1. Carry({})
  BY TabCarry DEF AuthInv
<1>2. UnsaidDoors({}) = {}
  BY DEF UnsaidDoors
<1>3. CASE Call(t) \/ HeardRemoved(t) \/ HeardSet(t) \/ SignIn(t)
  <2>1. UNCHANGED <<cookie, hint, loading, doors>>
    BY <1>3 DEF Call, HeardRemoved, HeardSet, SignIn, storageVars, memoryVars
  <2>2. QED
    BY <2>1, <1>1, <1>2, CarryHint DEF Excusing
<1>4. CASE RestoreDone(t)
  <2>1. cookie' = cookie /\ doors' = doors /\ hint' = TRUE
    BY <1>4 DEF RestoreDone, AnnounceSessionChange, AuthInv, TypeInv, TypeOK
  <2>2. QED
    BY <2>1, <1>1, <1>2, CarryHint DEF Excusing
<1>5. CASE RestoreFails(t)
  <2>1. /\ cookie' = cookie /\ hint' = hint /\ doors' = doors \cup RestoreDoors(t)
        /\ \A u \in Tabs : u # t => loading'[u] = loading[u]
    BY <1>5 DEF RestoreFails, storageVars, AuthInv, TypeInv, TypeOK
  <2>2. loading[t] = "migrated" /\ ~hint => doors' # {}
    BY <2>1 DEF RestoreDoors
  <2>3. Excusing({})
    BY <2>1, <2>2, <1>2 DEF Excusing
  <2>4. QED
    BY <2>1, <2>3, <1>1, CarryHint
<1>6. QED
  BY <1>3, <1>4, <1>5

LEMMA GivingUpHint ==
  ASSUME AuthInv, HintInv
  PROVE  /\ \A t \in Tabs : Reload(t) => HintInv'
         /\ \A r \in Ids : Lost(r) => HintInv'
         /\ \A r \in Ids : RestoreTimesOut(r) => HintInv'
<1>1. ASSUME NEW t \in Tabs, Reload(t)
      PROVE  HintInv'
  <2> DEFINE mine == {r \in Ids : ~Idle(r) /\ req[r].tab = t}
  <2>1. Carry(mine)
    BY <1>1, ReloadCarry DEF AuthInv
  <2>2. /\ cookie' = cookie /\ hint' = hint
        /\ doors' = doors \cup UnsaidDoors(mine) \cup RestoreDoors(t)
        /\ \A u \in Tabs : u # t => loading'[u] = loading[u]
    BY <1>1 DEF Reload, AuthInv, TypeInv, TypeOK
  <2>3. loading[t] = "migrated" /\ ~hint => doors' # {}
    BY <2>2 DEF RestoreDoors
  <2>4. Excusing(mine)
    BY <2>2, <2>3 DEF Excusing
  <2>5. QED
    BY <2>1, <2>2, <2>4, CarryHint
<1>2. ASSUME NEW r \in Ids, Lost(r)
      PROVE  HintInv'
  <2>1. Carry({r})
    BY <1>2, EndCarry DEF AuthInv
  <2>2. UNCHANGED <<cookie, hint, loading>> /\ doors' = doors \cup UnsaidDoors({r})
    BY <1>2 DEF Lost, storageVars
  <2>3. Excusing({r})
    BY <2>2 DEF Excusing
  <2>4. QED
    BY <2>1, <2>2, <2>3, CarryHint
<1>3. ASSUME NEW r \in Ids, RestoreTimesOut(r)
      PROVE  HintInv'
  <2>1. Carry({})
    BY <1>3, RestoreTimesOutCarry DEF AuthInv
  <2>2. UNCHANGED <<cookie, hint, loading, doors>>
    BY <1>3 DEF RestoreTimesOut, storageVars
  <2>3. Excusing({})
    BY <2>2 DEF Excusing, UnsaidDoors
  <2>4. QED
    BY <2>1, <2>2, <2>3, CarryHint
<1>4. QED
  BY <1>1, <1>2, <1>3

\* Who signs out waits for the lock with a sign-out of its own.
LEMMA SignOutHint ==
  ASSUME AuthInv, HintInv, NEW t \in Tabs, SignOut(t)
  PROVE  HintInv'
<1> USE DEF AuthInv, TypeInv, HintInv
<1>1. PICK r \in Ids :
        /\ FreeIn(req, r)
        /\ req' = [req EXCEPT ![r] = NewRequest("blacklist", t, "queued", {})]
  BY DEF SignOut
<1>2. UNCHANGED <<cookie, token, doors>>
  BY DEF SignOut, serverVars
<1>3. req'[r] = NewRequest("blacklist", t, "queued", {})
      /\ \A s \in Ids : s # r => req'[s] = req[s]
  BY <1>1 DEF TypeOK
<1>4. NewRequest("blacklist", t, "queued", {}) # NoRequest
  BY NewRequestType, NoRequestApart DEF Locked, Callers
<1>5. Is(r, {"blacklist"}, {"queued"})' /\ req'[r].kind = "blacklist" /\ req'[r].stage = "queued"
  BY <1>3, <1>4 DEF Is, Idle, NewRequest
<1>6. CookieShown'
  BY <1>2, <1>3, <1>5 DEF CookieShown, Is, Idle
<1>7. CookieBlack'
  <2>1. \A s \in Ids : Is(s, {"blacklist"}, {"sent"})' => r \in Ids \ {s}
    BY <1>5 DEF Is
  <2>2. QED
    BY <2>1, <1>5 DEF CookieBlack
<1>8. Excuse'
  BY <1>5 DEF Excuse, Is
<1>9. QED
  BY <1>6, <1>7, <1>8

LEMMA GrantedHint ==
  ASSUME AuthInv, HintInv, NEW r \in Ids, Granted(r)
  PROVE  HintInv'
<1> USE DEF AuthInv, TypeInv, HintInv
<1>1. /\ holder = 0 /\ Is(r, Locked, {"queued"})
      /\ UNCHANGED <<cookie, hint, legacy, loading, token, doors>>
  BY DEF Granted, storageVars, memoryVars, serverVars
<1>2. ~Idle(r) /\ req[r] \in Requests
  BY <1>1, RequestType DEF Is
<1>3. Others(r)
  BY DEF Granted, TypeOK, Others
<1>4. /\ req'[r] # NoRequest /\ req'[r].stage = "sent" /\ req'[r].kind = req[r].kind
      /\ IF req[r].kind = "refresh" /\ legacy # 0
         THEN req'[r].migrates /\ req'[r].shown = legacy
         ELSE ~req'[r].migrates /\ req'[r].shown = cookie
  BY <1>2, NoRequestApart DEF Granted, TypeOK, Requests
<1>5. \A s \in Ids : ~Is(s, Locked, {"sent", "served"})
  BY <1>1, NumberTypes DEF TokensInv, LockInv
<1>6. \A s \in Ids : Is(s, Locked, {"sent", "served"})' => s = r
  BY <1>3, <1>5 DEF Others, Is, Idle
<1>7. CookieShown'
  <2>1. \A s \in Ids : Is(s, {"refresh"}, {"sent", "served"})' => s = r /\ req[r].kind = "refresh"
    BY <1>4, <1>6 DEF Is, Locked
  <2>2. legacy # 0 => cookie = 0
    BY DEF TokensInv, LegacyInv
  <2>3. QED
    BY <2>1, <2>2, <1>1, <1>4 DEF CookieShown
<1>8. CookieBlack'
  <2>1. \A s \in Ids : Is(s, {"blacklist"}, {"sent"})' => s = r /\ req[r].kind = "blacklist"
    BY <1>4, <1>6 DEF Is, Locked
  <2>2. QED
    BY <2>1, <1>1, <1>4 DEF CookieBlack
<1>9. Carried' => Carried
  BY <1>1, <1>3, <1>4 DEF Carried, Live, Others, Is, Idle
<1>10. Excuse => Excuse'
  <2>1. \A s \in Ids : Is(s, {"blacklist"}, {"queued", "sent"}) =>
          Is(s, {"blacklist"}, {"queued", "sent"})'
    BY <1>3, <1>4 DEF Others, Is, Idle
  <2>2. QED
    BY <2>1, <1>1 DEF Excuse
<1>11. QED
  BY <1>1, <1>7, <1>8, <1>9, <1>10

LEMMA ServedHint ==
  ASSUME AuthInv, HintInv, NEW r \in Ids,
         ServeRefresh(r) \/ ServeBlacklist(r) \/ ServeSignIn(r)
  PROVE  HintInv'
<1> USE DEF AuthInv, TypeInv, HintInv
<1>1. UNCHANGED <<cookie, hint, loading, holder, doors>> /\ ~Idle(r) /\ req[r] \in Requests
  BY RequestType DEF ServeRefresh, ServeBlacklist, ServeSignIn, storageVars, memoryVars, Is
<1>2. Others(r)
  BY DEF ServeRefresh, ServeBlacklist, ServeSignIn, TypeOK, Others
<1>3. /\ req[r].stage = "sent"
      /\ req'[r] # NoRequest /\ req'[r].stage = "served" /\ req'[r].kind = req[r].kind
      /\ req'[r].shown = req[r].shown /\ req'[r].migrates = req[r].migrates
  <2>1. \/ req'[r] = [req[r] EXCEPT !.stage = "served"]
        \/ \E k \in Tokens : req'[r] = [req[r] EXCEPT !.stage = "served", !.got = k]
    BY <1>1 DEF ServeRefresh, ServeBlacklist, ServeSignIn, TypeOK
  <2>2. \A k \in Tokens : [req[r] EXCEPT !.stage = "served", !.got = k] \in Requests
    BY <1>1, NumberTypes DEF Requests
  <2>3. [req[r] EXCEPT !.stage = "served"] \in Requests
    BY <1>1 DEF Requests
  <2>4. req'[r] \in Requests
    BY <2>1, <2>2, <2>3
  <2>5. req[r].stage = "sent"
    BY <1>1 DEF ServeRefresh, ServeBlacklist, ServeSignIn, Is
  <2>6. /\ req'[r].stage = "served" /\ req'[r].kind = req[r].kind
        /\ req'[r].shown = req[r].shown /\ req'[r].migrates = req[r].migrates
    BY <2>1, <1>1 DEF Requests
  <2>7. req'[r] # NoRequest
    BY <2>4, NoRequestApart
  <2>8. QED
    BY <2>5, <2>6, <2>7
<1>4. CookieShown'
  BY <1>1, <1>2, <1>3 DEF CookieShown, Others, Is, Idle
<1>5. CookieBlack'
  BY <1>1, <1>2, <1>3 DEF CookieBlack, Others, Is, Idle
<1>6. \A s \in Ids : Is(s, Locked, {"sent", "served"}) /\ Is(r, Locked, {"sent", "served"}) => s = r
  BY DEF TokensInv, LockInv
<1>7. ASSUME Carried', ~hint'
      PROVE  Excuse'
  <2>1. ASSUME Excuse, req[r].kind # "blacklist"
        PROVE  Excuse'
    BY <2>1, <1>1, <1>2 DEF Excuse, Others, Is, Idle
  <2>2. CASE ServeRefresh(r)
    <3>1. Is(r, {"refresh"}, {"sent"}) /\ Is(r, Locked, {"sent", "served"})
      BY <2>2 DEF ServeRefresh, Is, Locked
    <3>2. cookie # 0 => cookie \in Tokens /\ token[cookie] # "unissued"
      BY InTokens DEF TokensInv, KnownInv, Known
    <3>3. Live(cookie)' => Live(cookie)
      BY <2>2, <3>2, <1>1 DEF ServeRefresh, Issue, Live, serverVars, TypeOK
    <3>4. \A s \in Ids : Is(s, {"refresh"}, {"served"})' => s = r
      BY <3>1, <1>2, <1>6 DEF Others, Is, Idle, Locked
    <3>5. req'[r].got # 0 => Live(req[r].shown)
      <4>1. req[r].got = 0
        BY <1>1, <1>3 DEF TokensInv, AnswerInv
      <4>2. CASE Live(req[r].shown)
        BY <4>2
      <4>3. CASE ~Live(req[r].shown)
        <5>1. req' = [req EXCEPT ![r].stage = "served"]
          BY <2>2, <4>3 DEF ServeRefresh
        <5>2. req'[r] = [req[r] EXCEPT !.stage = "served"]
          BY <5>1 DEF TypeOK
        <5>3. [req[r] EXCEPT !.stage = "served"].got = req[r].got
          BY <1>1 DEF Requests
        <5>4. QED
          BY <4>1, <5>2, <5>3
      <4>4. QED
        BY <4>2, <4>3
    <3>6. Live(cookie) \/ doors # {}
      <4>1. CASE Live(cookie)'
        BY <4>1, <3>3
      <4>2. CASE Is(r, {"refresh"}, {"served"})' /\ req'[r].got # 0 /\ ~req'[r].migrates
        <5>1. Live(req[r].shown) /\ ~req[r].migrates
          BY <4>2, <3>5, <1>3
        <5>2. "crossed" \in doors \/ cookie = req[r].shown
          BY <5>1, <3>1 DEF CookieShown, Is
        <5>3. QED
          BY <5>1, <5>2
      <4>3. QED
        BY <1>7, <4>1, <4>2, <3>4 DEF Carried
    <3>7. Excuse
      BY <3>6, <1>1, <1>7 DEF Carried, Excuse
    <3>8. QED
      BY <3>1, <3>7, <2>1 DEF Is
  <2>3. CASE ServeBlacklist(r)
    <3>1. /\ Is(r, {"blacklist"}, {"sent"}) /\ Is(r, Locked, {"sent", "served"})
          /\ token' = Ended(req[r].shown)
      BY <2>3 DEF ServeBlacklist, Is, Locked
    <3>2. \A s \in Ids : ~Is(s, {"refresh"}, {"served"})'
      BY <3>1, <1>2, <1>3, <1>6 DEF Others, Is, Idle, Locked
    <3>3. cookie # req[r].shown
      <4>1. Live(cookie)'
        BY <1>7, <3>2 DEF Carried
      <4>2. cookie # 0 /\ token'[cookie] = "live" /\ cookie \in Tokens
        BY <4>1, <1>1, InTokens DEF Live
      <4>3. QED
        BY <3>1, <4>2 DEF Ended, TypeOK
    <3>4. doors # {} \/ \E s \in Ids \ {r} : Is(s, {"blacklist"}, {"queued"})
      BY <3>1, <3>3, <1>1, <1>7 DEF CookieBlack
    <3>5. QED
      BY <3>4, <1>1, <1>2 DEF Excuse, Others, Is, Idle
  <2>4. CASE ServeSignIn(r)
    <3>1. Is(r, Signing, {"sent"}) /\ req[r].kind # "blacklist" /\ req[r].kind # "refresh"
      BY <2>4 DEF ServeSignIn, Is, Signing
    <3>2. cookie # 0 => cookie \in Tokens /\ token[cookie] # "unissued"
      BY InTokens DEF TokensInv, KnownInv, Known
    <3>3. Live(cookie)' => Live(cookie)
      BY <2>4, <3>2, <1>1 DEF ServeSignIn, Issue, Revoked, Live, TypeOK
    <3>4. Carried
      BY <3>1, <3>3, <1>2, <1>3, <1>7 DEF Carried, Others, Is, Idle
    <3>5. QED
      BY <3>1, <3>4, <2>1, <1>1, <1>7
  <2>5. QED
    BY <2>2, <2>3, <2>4
<1>8. QED
  BY <1>4, <1>5, <1>7

LEMMA AnsweredHint ==
  ASSUME AuthInv, HintInv, NEW r \in Ids,
         RefreshAnswered(r) \/ RefreshRejected(r) \/ BlacklistAnswered(r)
  PROVE  HintInv'
<1> USE DEF AuthInv, TypeInv, HintInv
<1>1. Is(r, Locked, {"sent", "served"}) /\ Finish(r) /\ token' = token
  BY DEF RefreshAnswered, RefreshRejected, BlacklistAnswered, Is, Locked, serverVars
<1>2. \A s \in Ids : ~Is(s, Locked, {"sent", "served"})'
  BY <1>1, NobodyElse
<1>3. CookieShown' /\ CookieBlack'
  BY <1>2 DEF CookieShown, CookieBlack, Is, Locked
<1>4. \A s \in Ids : ~Is(s, {"refresh"}, {"served"})'
  BY <1>2 DEF Is, Locked
<1>5. \A s \in Ids : s # r => req'[s] = req[s]
  BY <1>1 DEF Finish, TypeOK
<1>6. ASSUME Carried', ~hint'
      PROVE  Excuse'
  <2>1. cookie' # 0 /\ token[cookie'] = "live"
    BY <1>1, <1>4, <1>6 DEF Carried, Live
  <2>2. CASE RefreshAnswered(r)
    <3>1. /\ Is(r, {"refresh"}, {"served"}) /\ req[r].got # 0 /\ hint' = hint
          /\ doors \subseteq doors' /\ req[r] \in Requests /\ req[r].tab \in Tabs
      BY <2>2, RequestType DEF RefreshAnswered, Is, Requests
    <3>2. CASE req[r].migrates /\ "restore" \in req[r].callers
      <4>1. loading'[req[r].tab] = "migrated"
        BY <2>2, <3>1, <3>2 DEF RefreshAnswered, TypeOK
      <4>2. QED
        BY <3>1, <4>1 DEF Excuse
    <3>3. CASE req[r].migrates /\ "restore" \notin req[r].callers
      <4>1. "unannounced" \in doors'
        BY <2>2, <3>1, <3>3, <1>6 DEF RefreshAnswered
      <4>2. QED
        BY <4>1 DEF Excuse
    <3>4. CASE ~req[r].migrates
      <4>1. Excuse
        BY <3>1, <3>4, <1>6 DEF Carried
      <4>2. \A t \in Tabs : loading[t] = "migrated" => loading'[t] = "migrated"
        BY <2>2 DEF RefreshAnswered, TypeOK
      <4>3. \A s \in Ids : Is(s, {"blacklist"}, {"queued", "sent"}) =>
              Is(s, {"blacklist"}, {"queued", "sent"})'
        BY <3>1, <1>5 DEF Is, Idle
      <4>4. QED
        BY <3>1, <4>1, <4>2, <4>3 DEF Excuse
    <3>5. QED
      BY <3>2, <3>3, <3>4
  <2>3. CASE RefreshRejected(r)
    <3>1. /\ Is(r, {"refresh"}, {"served"}) /\ req[r].got = 0
          /\ cookie' = cookie /\ doors' = doors
      BY <2>3 DEF RefreshRejected
    <3>2. cookie # req[r].shown
      BY <2>1, <3>1 DEF TokensInv, RefreshesNeverClash
    <3>3. "crossed" \in doors
      BY <2>1, <3>1, <3>2 DEF CookieShown, Is
    <3>4. QED
      BY <3>1, <3>3 DEF Excuse
  <2>4. CASE BlacklistAnswered(r)
    BY <2>1, <2>4 DEF BlacklistAnswered
  <2>5. QED
    BY <2>2, <2>3, <2>4
<1>7. QED
  BY <1>3, <1>6

\* A sign-in sets the hint; a refresh it crosses is put down among the doors.
LEMMA SignedInHint ==
  ASSUME AuthInv, HintInv, NEW r \in Ids, SignedIn(r)
  PROVE  HintInv'
<1> USE DEF AuthInv, TypeInv, HintInv
<1>1. hint' = TRUE /\ Finish(r)
  BY DEF SignedIn, AnnounceSessionChange
<1>2. \A s \in Ids : Is(s, {"refresh"}, {"sent", "served"})' => Is(s, {"refresh"}, {"sent", "served"})
  BY <1>1 DEF Finish, Is, Idle, TypeOK
<1>3. CookieShown'
  BY <1>2 DEF SignedIn, CookieShown
<1>4. CookieBlack'
  BY <1>1 DEF CookieBlack
<1>5. QED
  BY <1>1, <1>3, <1>4

LEMMA HintStep ==
  AuthInv /\ HintInv /\ [Next]_vars => HintInv'
<1> SUFFICES ASSUME AuthInv, HintInv, [Next]_vars
             PROVE  HintInv'
  OBVIOUS
<1>1. ASSUME NEW t \in Tabs,
             \/ Call(t) \/ Reload(t) \/ HeardRemoved(t) \/ HeardSet(t)
             \/ SignOut(t) \/ SignIn(t) \/ RestoreDone(t) \/ RestoreFails(t)
      PROVE  HintInv'
  BY <1>1, TabHint, GivingUpHint, SignOutHint
<1>2. ASSUME NEW r \in Ids,
             \/ RestoreTimesOut(r) \/ Granted(r)
             \/ ServeRefresh(r) \/ ServeBlacklist(r) \/ ServeSignIn(r)
             \/ RefreshAnswered(r) \/ RefreshRejected(r) \/ BlacklistAnswered(r)
             \/ SignedIn(r) \/ Lost(r)
      PROVE  HintInv'
  BY <1>2, GivingUpHint, GrantedHint, ServedHint, AnsweredHint, SignedInHint
<1>3. CASE UNCHANGED vars
  <2>1. UNCHANGED <<cookie, hint, loading, req, token, doors>>
    BY <1>3 DEF vars, storageVars, memoryVars, serverVars
  <2>2. QED
    BY <2>1 DEF HintInv, CookieShown, CookieBlack, Carried, Excuse, Live, Is, Idle
<1>4. QED
  BY <1>1, <1>2, <1>3 DEF Next, TabStep, RequestStep

\* The browser never forgets a session that its cookie still carries, but for
\* the sign-out under way and the doors named in the property.
THEOREM NeverForgotten == Spec => []KeepsLiveSession
<1>1. Init => HintInv
  <2> SUFFICES ASSUME Init PROVE HintInv
    OBVIOUS
  <2>1. \A r \in Ids : Idle(r)
    BY DEF Init, Idle
  <2>2. Live(cookie) => hint
    BY DEF Init, Live
  <2>3. QED
    BY <2>1, <2>2 DEF HintInv, CookieShown, CookieBlack, Carried, Is
<1>2. HintInv => KeepsLiveSession
  BY DEF HintInv, Carried, Excuse, KeepsLiveSession, Is
<1>3. QED
  BY <1>1, <1>2, HintStep, AuthAlways, PTL DEF Spec
===============================================================================
