--------------------------- MODULE AdminSessions ---------------------------
(***************************************************************************)
(* The admin's side of the process: sessions with their expiry, logout and *)
(* hourly cleanup; the creation of an API token and the one page that      *)
(* shows it; and the change of the admin password.                         *)
(*                                                                         *)
(* A session is known by its cookie. Every lock of auth.go and ui.Handler  *)
(* spans one access to a map, so each such access is a step, and so is     *)
(* every SQL statement; the requests interleave between them.              *)
(***************************************************************************)
EXTENDS Naturals, Sequences

CONSTANTS
  Cookies,        \* session tokens that Login may issue, each at most once
  Tokens,         \* API tokens that may be created
  Changes,        \* requests POST /settings/password that may be under way
  Passwords,      \* passwords
  ConfigPassword, \* server.admin_password
  None            \* no row admin_password_hash; no entry in pendingTokens

ASSUME PasswordAssumption == ConfigPassword \in Passwords
ASSUME NoneAssumption == None \notin Passwords \union Tokens \union Cookies

VARIABLES
  session,        \* of each cookie: "new", then "checked" by Login, then an entry
                  \* of the map, "live" or "expired", and in the end "gone"
  evicting,       \* cookies that a ValidateSession found expired and will delete
  pendingTokens,  \* per cookie: the raw token to show after the redirect
  making,         \* of each token: where its creation is
  maker,          \* of each token: the cookie of its creation
  shownTo,        \* history, of each token: the cookies of the pages that showed it
  stored,         \* the row admin_password_hash
  change          \* of each change: {}, or the one form that checkPassword accepted

auth     == <<session, evicting>>
creation == <<making, maker>>
pages    == <<pendingTokens, shownTo>>
password == <<stored, change>>
vars     == <<auth, creation, pages, password>>

Init ==
  /\ session = [c \in Cookies |-> "new"]
  /\ evicting = {}
  /\ pendingTokens = [c \in Cookies |-> None]
  /\ making = [t \in Tokens |-> "no"]
  /\ maker = [t \in Tokens |-> None]
  /\ shownTo = [t \in Tokens |-> <<>>]
  /\ stored \in Passwords \union {None}
  /\ change = [k \in Changes |-> {}]

InForce == IF stored = None THEN ConfigPassword ELSE stored

\* What checkPassword may compare with: it takes a read that fails for a row
\* that is missing.
Accepted == {InForce, ConfigPassword}

-----------------------------------------------------------------------------
(* Sessions.                                                               *)

LoginCheck(c) ==
  /\ session[c] = "new"
  /\ session' = [session EXCEPT ![c] = "checked"]
  /\ UNCHANGED <<evicting, creation, pages, password>>

Login(c) ==
  /\ session[c] = "checked"
  /\ session' = [session EXCEPT ![c] = "live"]
  /\ UNCHANGED <<evicting, creation, pages, password>>

\* 24 hours pass.
Expire(c) ==
  /\ session[c] = "live"
  /\ session' = [session EXCEPT ![c] = "expired"]
  /\ UNCHANGED <<evicting, creation, pages, password>>

\* ValidateSession in a request that does not come through: the entry is read
\* under the read lock, and an expired one is deleted under the other lock.
Refuse(c) ==
  evicting' = IF session[c] = "expired" THEN evicting \union {c} ELSE evicting

Bounce(c) ==
  /\ session[c] = "expired"
  /\ Refuse(c)
  /\ UNCHANGED <<session, creation, pages, password>>

Evict(c) ==
  /\ c \in evicting
  /\ evicting' = evicting \ {c}
  /\ session' = [session EXCEPT ![c] = "gone"]
  /\ UNCHANGED <<creation, pages, password>>

\* GET /logout asks for no valid session.
ClearSessionCookie(c) ==
  /\ session[c] \in {"live", "expired"}
  /\ session' = [session EXCEPT ![c] = "gone"]
  /\ UNCHANGED <<evicting, creation, pages, password>>

\* mutant: Before for After
CleanedBackwards == {c \in Cookies : session[c] = "live"}

Cleaned == {c \in Cookies : session[c] = "expired"}

CleanupSessions ==
  /\ Cleaned # {}
  /\ session' = [c \in Cookies |-> IF c \in Cleaned THEN "gone" ELSE session[c]]
  /\ UNCHANGED <<evicting, creation, pages, password>>

-----------------------------------------------------------------------------
(* Creating a token and showing it: POST /tokens, then GET /tokens?new=1.  *)

Move(t, place) == making' = [making EXCEPT ![t] = place] /\ UNCHANGED maker

PostToken(t) ==
  /\ making[t] = "no"
  /\ \E c \in Cookies :
       session[c] = "live" /\ maker' = [maker EXCEPT ![t] = c]
  /\ making' = [making EXCEPT ![t] = "posted"]
  /\ UNCHANGED <<auth, pages, password>>

\* The INSERT, or its error; the handler goes on whatever becomes of the session.
CreateToken(t) ==
  /\ making[t] = "posted"
  /\ Move(t, "inserted") \/ Move(t, "failed")
  /\ UNCHANGED <<auth, pages, password>>

\* mutant: one slot for the whole process instead of one per session
KeptForAll(t) == [c \in Cookies |-> t]

\* mutant: key and value swapped
KeptSwapped(t) == [pendingTokens EXCEPT ![maker[t]] = maker[t]]

Kept(t) == [pendingTokens EXCEPT ![maker[t]] = t]

StorePending(t) ==
  /\ making[t] = "inserted"
  /\ Move(t, "redirected")
  /\ pendingTokens' = Kept(t)
  /\ UNCHANGED <<auth, shownTo, password>>

\* The browser follows the redirect, and RequireSession may send it to /login.
FollowRedirect(t) ==
  /\ making[t] = "redirected"
  /\ IF session[maker[t]] = "live"
     THEN Move(t, "following") /\ UNCHANGED evicting
     ELSE Move(t, "bounced") /\ Refuse(maker[t])
  /\ UNCHANGED <<session, pages, password>>

Shown(c) ==
  [t \in Tokens |-> IF t = pendingTokens[c] THEN Append(shownTo[t], c) ELSE shownTo[t]]

\* mutant: the entry is read and not deleted
ShowPendingKept(c) == shownTo' = Shown(c) /\ UNCHANGED pendingTokens

\* The page shows the session's pending token, if any, and forgets it.
ShowPending(c) ==
  /\ shownTo' = Shown(c)
  /\ pendingTokens' = [pendingTokens EXCEPT ![c] = None]

\* A failing ListTokens ends the request before it looks for the token.
TokensPage(t) ==
  /\ making[t] = "following"
  /\ \/ Move(t, "done") /\ ShowPending(maker[t])
     \/ Move(t, "failed") /\ UNCHANGED pages
  /\ UNCHANGED <<auth, password>>

\* The page reloaded, or opened in another window: its request came while the
\* session was live, which it need no longer be.
Reload(c) ==
  /\ pendingTokens[c] # None
  /\ ShowPending(c)
  /\ UNCHANGED <<auth, creation, password>>

-----------------------------------------------------------------------------
(* The password: ChangePassword checks in one statement, writes in another. *)

\* A form whose current password is accepted; another leaves no trace. "sure":
\* the row was read, and no other change is under way at the same time.
CheckCurrent(k) ==
  LET others == {j \in Changes \ {k} : change[j] # {}} IN
  /\ change[k] = {}
  /\ \E c \in Cookies : session[c] = "live"
  /\ \E old \in Accepted, new \in Passwords :
       change' = [j \in Changes |->
         IF j = k
         THEN {[old |-> old, new |-> new, sure |-> old = InForce /\ others = {}]}
         ELSE {[f EXCEPT !.sure = FALSE] : f \in change[j]}]
  /\ UNCHANGED <<auth, creation, pages, stored>>

\* mutant: an INSERT that leaves an existing row alone
WrittenOnce(p) == IF stored = None THEN p ELSE stored

Written(p) == p

WriteNew(k) ==
  /\ \E f \in change[k] : stored' = Written(f.new)
  /\ change' = [change EXCEPT ![k] = {}]
  /\ UNCHANGED <<auth, creation, pages>>

\* SetSetting returns an error.
WriteFails(k) ==
  /\ change[k] # {}
  /\ change' = [change EXCEPT ![k] = {}]
  /\ UNCHANGED <<auth, creation, pages, stored>>

-----------------------------------------------------------------------------
\* The maps are in memory and the requests under way end; the row stays, and
\* so does the browser that has not followed its redirect yet.
Restart ==
  /\ session' = [c \in Cookies |-> IF session[c] = "new" THEN "new" ELSE "gone"]
  /\ evicting' = {}
  /\ pendingTokens' = [c \in Cookies |-> None]
  /\ making' = [t \in Tokens |-> IF making[t] \in {"posted", "inserted", "following"}
                                 THEN "failed" ELSE making[t]]
  /\ change' = [k \in Changes |-> {}]
  /\ UNCHANGED <<maker, shownTo, stored>>

SessionStep(c) ==
  \/ LoginCheck(c) \/ Login(c) \/ Expire(c) \/ Bounce(c) \/ Evict(c)
  \/ ClearSessionCookie(c) \/ Reload(c)

TokenStep(t) ==
  \/ PostToken(t) \/ CreateToken(t) \/ StorePending(t)
  \/ FollowRedirect(t) \/ TokensPage(t)

Next ==
  \/ \E c \in Cookies : SessionStep(c)
  \/ \E t \in Tokens : TokenStep(t)
  \/ \E k \in Changes : CheckCurrent(k) \/ WriteNew(k) \/ WriteFails(k)
  \/ CleanupSessions \/ Restart

Spec == Init /\ [][Next]_vars

-----------------------------------------------------------------------------
(* Properties.                                                             *)

\* Every variable has its type, and the entries that a ValidateSession is about
\* to delete are expired or gone already.
TypeOK ==
  /\ session \in [Cookies -> {"new", "checked", "live", "expired", "gone"}]
  /\ evicting \subseteq {c \in Cookies : session[c] \in {"expired", "gone"}}
  /\ pendingTokens \in [Cookies -> Tokens \union {None}]
  /\ making \in [Tokens -> {"no", "posted", "inserted", "redirected", "following",
                            "done", "failed", "bounced"}]
  /\ maker \in [Tokens -> Cookies \union {None}]
  /\ shownTo \in [Tokens -> Seq(Cookies)]
  /\ stored \in Passwords \union {None}
  /\ change \in [Changes -> SUBSET [old : Passwords, new : Passwords, sure : BOOLEAN]]

\* The raw token is on one page at most, and that page belongs to the session
\* that created it, whatever creations of this and other sessions, redirects,
\* reloads, logouts and restarts do in between: handleTokens reads and deletes
\* the entry under one lock, and the map is keyed by the session's cookie.
ShownOnceToMaker == \A t \in Tokens : shownTo[t] \in {<<>>, <<maker[t]>>}

\* A token whose page came and showed it to nobody has a rival: another creation
\* of the same session, which stored its entry or failed. A session that creates
\* one token loses it to no other session, logout, cleanup or restart. (In which
\* order the two stored their entries is not said.)
LostOnlyByOverwrite ==
  \A t \in Tokens :
    making[t] = "done" /\ shownTo[t] = <<>> =>
      \E u \in Tokens \ {t} :
        /\ maker[u] = maker[t]
        /\ making[u] \in {"redirected", "following", "done", "failed", "bounced"}

\* A session that has not expired ends only by its own logout or with the
\* process: no cleanup, and no request that found some session expired and
\* deletes it later, takes a live one out of the map.
NoSpuriousLogout ==
  [][\A c \in Cookies :
       session[c] = "live" /\ session'[c] = "gone" => ClearSessionCookie(c) \/ Restart]_vars

\* A change of the password replaces the password that its form proved, and
\* when it has written its own is in force, if the row was read and no other
\* change was under way meanwhile: both statements of ChangePassword are about
\* the same row. Two at a time may both prove the password only one replaces.
ReplacesWhatItProved ==
  [][\A k \in Changes : \A f \in change[k] :
       f.sure /\ WriteNew(k) => InForce = f.old /\ InForce' = f.new]_vars
=============================================================================
