------------------------ MODULE AdminSessionsProofs ------------------------
(***************************************************************************)
(* Proofs about the admin's side, for any cookies, tokens, passwords and   *)
(* concurrent changes of the password.                                     *)
(***************************************************************************)
EXTENDS AdminSessions, TLAPS

\* Where a token is when its creation has come as far as pendingTokens.
Landed == {"redirected", "following", "done", "failed", "bounced"}

\* A creation belongs to a cookie that was a session when it began.
HasMaker ==
  \A t \in Tokens :
    making[t] # "no" => /\ maker[t] \in Cookies
                        /\ session[maker[t]] \in {"live", "expired", "gone"}

\* A pending token waits for the session that made it, and no page showed it.
PendingUnshown ==
  \A c \in Cookies, t \in Tokens :
    pendingTokens[c] = t =>
      making[t] \in Landed /\ maker[t] = c /\ shownTo[t] = <<>>

UnshownFirst ==
  \A t \in Tokens : making[t] \in {"no", "posted", "inserted"} => shownTo[t] = <<>>

Overwritten(t) ==
  \E u \in Tokens \ {t} : maker[u] = maker[t] /\ making[u] \in Landed

\* Why a token that is on its way to the page, or was, has not been shown: it is
\* still pending, another one took its place, or a restart emptied the map, and
\* then the session is gone and the redirect leads to the login page.
WhyUnshown ==
  \A t \in Tokens :
    making[t] \in {"redirected", "following", "done"} /\ shownTo[t] = <<>> =>
      \/ pendingTokens[maker[t]] = t /\ making[t] # "done"
      \/ Overwritten(t)
      \/ making[t] = "redirected" /\ session[maker[t]] = "gone"

TokensInv ==
  HasMaker /\ PendingUnshown /\ UnshownFirst /\ ShownOnceToMaker /\ WhyUnshown

\* One form at a time in a change; what a "sure" form proved is still in force,
\* because no other change is under way.
PasswordInv ==
  \A k \in Changes : \A f \in change[k] :
    /\ change[k] = {f}
    /\ f.sure => InForce = f.old /\ \A j \in Changes \ {k} : change[j] = {}

-----------------------------------------------------------------------------
(* Types.                                                                  *)

LEMMA InitCorrect == Init => TypeOK /\ TokensInv /\ PasswordInv
<1> SUFFICES ASSUME Init  PROVE TypeOK /\ TokensInv /\ PasswordInv
  OBVIOUS
<1>1. TypeOK
  BY DEF Init, TypeOK
<1>2. TokensInv
  BY NoneAssumption DEF Init, TokensInv, HasMaker, PendingUnshown, UnshownFirst,
     ShownOnceToMaker, WhyUnshown
<1>3. PasswordInv
  BY DEF Init, PasswordInv
<1> QED  BY <1>1, <1>2, <1>3

\* The types of sessions and evicting.
AuthTyped ==
  /\ session \in [Cookies -> {"new", "checked", "live", "expired", "gone"}]
  /\ evicting \subseteq {c \in Cookies : session[c] \in {"expired", "gone"}}

\* A session goes from one place to the next, and stays gone.
Onward ==
  \A c \in Cookies :
    /\ session[c] \in {"live", "expired", "gone"} =>
         session'[c] \in {"live", "expired", "gone"}
    /\ session[c] = "gone" => session'[c] = "gone"

LEMMA AuthStep ==
  ASSUME TypeOK, TokensInv, [Next]_vars
  PROVE  AuthTyped' /\ Onward
<1> USE DEF AuthTyped, Onward, TypeOK
<1>1. ASSUME NEW c \in Cookies, SessionStep(c)  PROVE AuthTyped' /\ Onward
  <2>1. CASE Reload(c)
    BY <2>1 DEF Reload, auth
  <2> QED  BY <1>1, <2>1 DEF SessionStep, LoginCheck, Login, Expire, Bounce, Refuse, Evict,
                             ClearSessionCookie
<1>2. ASSUME NEW t \in Tokens, TokenStep(t)  PROVE AuthTyped' /\ Onward
  <2>1. CASE FollowRedirect(t)
    <3>1. maker[t] \in Cookies
      BY <2>1 DEF FollowRedirect, TokensInv, HasMaker
    <3> QED  BY <2>1, <3>1 DEF FollowRedirect, Refuse, Move
  <2>2. CASE UNCHANGED auth
    BY <2>2 DEF auth
  <2> QED  BY <1>2, <2>1, <2>2 DEF TokenStep, PostToken, CreateToken, StorePending, TokensPage
<1>3. CASE CleanupSessions
  BY <1>3 DEF CleanupSessions, Cleaned
<1>4. CASE Restart
  BY <1>4 DEF Restart
<1>5. CASE UNCHANGED auth
  BY <1>5 DEF auth
<1> QED  BY <1>1, <1>2, <1>3, <1>4, <1>5 DEF Next, CheckCurrent, WriteNew, WriteFails, vars

TokensTyped ==
  /\ pendingTokens \in [Cookies -> Tokens \union {None}]
  /\ making \in [Tokens -> {"no", "posted", "inserted", "redirected", "following",
                            "done", "failed", "bounced"}]
  /\ maker \in [Tokens -> Cookies \union {None}]
  /\ shownTo \in [Tokens -> Seq(Cookies)]

\* The page of a session shows its pending token, for the first time, and
\* nothing else.
LEMMA ShowsPending ==
  ASSUME TypeOK, PendingUnshown, NEW c \in Cookies, ShowPending(c)
  PROVE  /\ shownTo' \in [Tokens -> Seq(Cookies)]
         /\ pendingTokens' \in [Cookies -> Tokens \union {None}]
         /\ pendingTokens' = [pendingTokens EXCEPT ![c] = None]
         /\ \A t \in Tokens :
              \/ t = pendingTokens[c] /\ shownTo'[t] = <<c>> /\ maker[t] = c
                 /\ making[t] \in Landed
              \/ t # pendingTokens[c] /\ shownTo'[t] = shownTo[t]
<1>1. shownTo' = Shown(c) /\ pendingTokens' = [pendingTokens EXCEPT ![c] = None]
  BY DEF ShowPending
<1>2. ASSUME NEW t \in Tokens
      PROVE  /\ Shown(c)[t] \in Seq(Cookies)
             /\ \/ t = pendingTokens[c] /\ Shown(c)[t] = <<c>> /\ maker[t] = c
                   /\ making[t] \in Landed
                \/ t # pendingTokens[c] /\ Shown(c)[t] = shownTo[t]
  <2>1. CASE t = pendingTokens[c]
    <3>1. shownTo[t] = <<>> /\ maker[t] = c /\ making[t] \in Landed
      BY <2>1 DEF PendingUnshown
    <3>2. Shown(c)[t] = Append(shownTo[t], c)
      BY <2>1 DEF Shown
    <3>3. Append(<<>>, c) = <<c>> /\ <<c>> \in Seq(Cookies)
      OBVIOUS
    <3> QED  BY <2>1, <3>1, <3>2, <3>3
  <2>2. CASE t # pendingTokens[c]
    BY <2>2 DEF Shown, TypeOK
  <2> QED  BY <2>1, <2>2
<1>3. Shown(c) \in [Tokens -> Seq(Cookies)]
  BY <1>2 DEF Shown
<1> QED  BY <1>1, <1>2, <1>3 DEF TypeOK

LEMMA TypesStep ==
  ASSUME TypeOK, TokensInv, [Next]_vars
  PROVE  TokensTyped'
<1> USE DEF TypeOK, TokensTyped
<1>1. ASSUME NEW c \in Cookies, Reload(c)  PROVE TokensTyped'
  BY <1>1, ShowsPending DEF Reload, TokensInv, creation
<1>2. ASSUME NEW t \in Tokens, TokenStep(t)  PROVE TokensTyped'
  <2>1. CASE TokensPage(t)
    <3>1. CASE Move(t, "done") /\ ShowPending(maker[t])
      <4>1. maker[t] \in Cookies
        BY <2>1 DEF TokensPage, TokensInv, HasMaker
      <4>2. making' = [making EXCEPT ![t] = "done"] /\ maker' = maker
        BY <3>1 DEF Move
      <4> QED  BY <3>1, <4>1, <4>2, ShowsPending DEF TokensInv
    <3> QED  BY <2>1, <3>1 DEF TokensPage, Move, pages
  <2>2. CASE StorePending(t)
    <3>1. maker[t] \in Cookies
      BY <2>2 DEF StorePending, TokensInv, HasMaker
    <3> QED  BY <2>2, <3>1 DEF StorePending, Move, Kept
  <2> QED  BY <1>2, <2>1, <2>2 DEF TokenStep, PostToken, CreateToken, FollowRedirect, Move,
                                   pages
<1>3. CASE Restart
  BY <1>3 DEF Restart
<1>4. CASE UNCHANGED <<creation, pages>>
  BY <1>4 DEF creation, pages
<1> QED  BY <1>1, <1>2, <1>3, <1>4
         DEF Next, SessionStep, LoginCheck, Login, Expire, Bounce, Evict, ClearSessionCookie,
             CleanupSessions, CheckCurrent, WriteNew, WriteFails, vars

-----------------------------------------------------------------------------
(* Tokens.                                                                 *)

\* What happens to sessions leaves the creations as they are.
LEMMA TokensUnchanged ==
  ASSUME TypeOK, TokensInv, UNCHANGED <<creation, pages>>, Onward
  PROVE  TokensInv'
<1> USE DEF creation, pages
<1>1. HasMaker'
  BY DEF TokensInv, HasMaker, Onward
<1>2. PendingUnshown' /\ UnshownFirst' /\ ShownOnceToMaker'
  BY DEF TokensInv, PendingUnshown, UnshownFirst, ShownOnceToMaker
<1>3. WhyUnshown'
  BY DEF TokensInv, HasMaker, WhyUnshown, Onward, Overwritten
<1> QED  BY <1>1, <1>2, <1>3 DEF TokensInv

\* A creation that moves on without touching what is pending or shown. It may
\* not come to the page, nor back.
LEMMA MoveStep ==
  ASSUME TypeOK, TokensInv, Onward, NEW t \in Tokens,
         NEW place \in {"inserted", "failed", "following", "bounced"},
         Move(t, place), UNCHANGED pages,
         \/ making[t] = "posted" /\ place \in {"inserted", "failed"}
         \/ making[t] = "redirected" /\ place = "bounced"
         \/ making[t] = "redirected" /\ place = "following" /\ session[maker[t]] # "gone"
         \/ making[t] = "following" /\ place = "failed"
  PROVE  TokensInv'
<1>1. making' = [making EXCEPT ![t] = place] /\ maker' = maker
      /\ pendingTokens' = pendingTokens /\ shownTo' = shownTo
  BY DEF Move, pages
<1>2. \A u \in Tokens : making[u] \in Landed => making'[u] \in Landed
  BY <1>1 DEF TypeOK, Landed
<1>3. HasMaker'
  BY <1>1 DEF TypeOK, TokensInv, HasMaker, Onward
<1>4. PendingUnshown'
  BY <1>1, <1>2 DEF TokensInv, PendingUnshown
<1>5. UnshownFirst' /\ ShownOnceToMaker'
  BY <1>1 DEF TypeOK, TokensInv, UnshownFirst, ShownOnceToMaker
<1>6. \A u \in Tokens : Overwritten(u) => Overwritten(u)'
  BY <1>1, <1>2 DEF Overwritten
<1>7. WhyUnshown'
  <2>1. SUFFICES ASSUME NEW u \in Tokens,
                        making'[u] \in {"redirected", "following", "done"}, shownTo'[u] = <<>>
                 PROVE  \/ pendingTokens'[maker'[u]] = u /\ making'[u] # "done"
                        \/ Overwritten(u)'
                        \/ making'[u] = "redirected" /\ session'[maker'[u]] = "gone"
    BY DEF WhyUnshown
  <2>2. CASE u = t
    BY <1>1, <1>6, <2>1, <2>2 DEF TypeOK, TokensInv, WhyUnshown
  <2>3. CASE u # t
    BY <1>1, <1>6, <2>1, <2>3 DEF TypeOK, TokensInv, WhyUnshown, HasMaker, Onward
  <2> QED  BY <2>2, <2>3
<1> QED  BY <1>3, <1>4, <1>5, <1>7 DEF TokensInv

LEMMA PostStep ==
  ASSUME TypeOK, TokensInv, NEW t \in Tokens, PostToken(t)
  PROVE  TokensInv'
<1>1. /\ making[t] = "no" /\ making' = [making EXCEPT ![t] = "posted"]
      /\ session' = session /\ pendingTokens' = pendingTokens /\ shownTo' = shownTo
  BY DEF PostToken, auth, pages
<1>2. PICK c \in Cookies : session[c] = "live" /\ maker' = [maker EXCEPT ![t] = c]
  BY DEF PostToken
<1>3. \A u \in Tokens \ {t} : making'[u] = making[u] /\ maker'[u] = maker[u]
  BY <1>1, <1>2 DEF TypeOK
<1>4. making'[t] = "posted" /\ maker'[t] = c /\ shownTo'[t] = <<>>
  BY <1>1, <1>2 DEF TypeOK, TokensInv, UnshownFirst
<1>5. HasMaker'
  BY <1>1, <1>2, <1>3, <1>4 DEF TokensInv, HasMaker
<1>6. PendingUnshown'
  BY <1>1, <1>3 DEF TokensInv, PendingUnshown, Landed
<1>7. UnshownFirst' /\ ShownOnceToMaker'
  BY <1>1, <1>3, <1>4 DEF TokensInv, UnshownFirst, ShownOnceToMaker
<1>8. \A u \in Tokens \ {t} : Overwritten(u) => Overwritten(u)'
  BY <1>1, <1>3 DEF Overwritten, Landed
<1>9. WhyUnshown'
  BY <1>1, <1>3, <1>4, <1>8 DEF TokensInv, WhyUnshown
<1> QED  BY <1>5, <1>6, <1>7, <1>9 DEF TokensInv

\* The token takes the place of the one that was pending, if any.
LEMMA StoreStep ==
  ASSUME TypeOK, TokensInv, NEW t \in Tokens, StorePending(t)
  PROVE  TokensInv'
<1>1. /\ making[t] = "inserted" /\ making' = [making EXCEPT ![t] = "redirected"]
      /\ pendingTokens' = [pendingTokens EXCEPT ![maker[t]] = t]
      /\ session' = session /\ maker' = maker /\ shownTo' = shownTo
  BY DEF StorePending, Move, Kept, auth
<1>2. maker[t] \in Cookies /\ shownTo[t] = <<>>
  BY <1>1 DEF TokensInv, HasMaker, UnshownFirst
<1>3. /\ \A u \in Tokens \ {t} : making'[u] = making[u]
      /\ making'[t] = "redirected"
      /\ pendingTokens'[maker[t]] = t
      /\ \A c \in Cookies \ {maker[t]} : pendingTokens'[c] = pendingTokens[c]
  BY <1>1, <1>2 DEF TypeOK
<1>4. HasMaker'
  BY <1>1, <1>3 DEF TokensInv, HasMaker
<1>5. PendingUnshown'
  BY <1>1, <1>2, <1>3 DEF TokensInv, PendingUnshown, Landed
<1>6. UnshownFirst' /\ ShownOnceToMaker'
  BY <1>1, <1>3 DEF TokensInv, UnshownFirst, ShownOnceToMaker
<1>7. \A u \in Tokens \ {t} : Overwritten(u) \/ maker[u] = maker[t] => Overwritten(u)'
  BY <1>1, <1>3 DEF Overwritten, Landed
<1>8. WhyUnshown'
  BY <1>1, <1>2, <1>3, <1>7 DEF TokensInv, WhyUnshown, HasMaker
<1> QED  BY <1>4, <1>5, <1>6, <1>8 DEF TokensInv

\* The session's page: the pending token is shown and forgotten. At the same
\* time the creation that was redirected here may be done.
LEMMA ShowStep ==
  ASSUME TypeOK, TokensInv, NEW c \in Cookies, ShowPending(c),
         session' = session, maker' = maker,
         \/ making' = making
         \/ \E t \in Tokens : /\ maker[t] = c /\ making[t] = "following"
                            /\ making' = [making EXCEPT ![t] = "done"]
  PROVE  TokensInv'
<1>1. /\ pendingTokens' = [pendingTokens EXCEPT ![c] = None]
      /\ \A t \in Tokens :
           \/ t = pendingTokens[c] /\ shownTo'[t] = <<c>> /\ maker[t] = c
              /\ making[t] \in Landed
           \/ t # pendingTokens[c] /\ shownTo'[t] = shownTo[t]
  BY ShowsPending DEF TokensInv
<1>2. /\ pendingTokens'[c] = None
      /\ \A d \in Cookies \ {c} : pendingTokens'[d] = pendingTokens[d]
  BY <1>1 DEF TypeOK
<1>3. \A t \in Tokens :
        \/ making'[t] = making[t]
        \/ making[t] = "following" /\ making'[t] = "done" /\ maker[t] = c
  BY DEF TypeOK
<1>4. HasMaker'
  BY <1>3 DEF TokensInv, HasMaker
<1>5. PendingUnshown'
  <2>1. SUFFICES ASSUME NEW d \in Cookies, NEW t \in Tokens, pendingTokens'[d] = t
                 PROVE  making'[t] \in Landed /\ maker'[t] = d /\ shownTo'[t] = <<>>
    BY DEF PendingUnshown
  <2>2. d # c /\ pendingTokens[d] = t
    BY <1>2, <2>1, NoneAssumption
  <2>3. making[t] \in Landed /\ maker[t] = d /\ shownTo[t] = <<>>
    BY <2>2 DEF TokensInv, PendingUnshown
  <2> QED  BY <1>1, <1>3, <2>2, <2>3 DEF Landed
<1>6. UnshownFirst' /\ ShownOnceToMaker'
  <2>1. UnshownFirst'
    BY <1>1, <1>3 DEF TokensInv, UnshownFirst, Landed
  <2>2. ShownOnceToMaker'
    BY <1>1 DEF TokensInv, ShownOnceToMaker
  <2> QED  BY <2>1, <2>2
<1>7. \A t \in Tokens : Overwritten(t) => Overwritten(t)'
  BY <1>3 DEF Overwritten, Landed
<1>8. WhyUnshown'
  <2>1. SUFFICES ASSUME NEW t \in Tokens,
                        making'[t] \in {"redirected", "following", "done"}, shownTo'[t] = <<>>
                 PROVE  \/ pendingTokens'[maker'[t]] = t /\ making'[t] # "done"
                        \/ Overwritten(t)'
                        \/ making'[t] = "redirected" /\ session'[maker'[t]] = "gone"
    BY DEF WhyUnshown
  <2>2. t # pendingTokens[c] /\ shownTo[t] = <<>>
    <3>1. <<c>> # <<>>
      OBVIOUS
    <3> QED  BY <1>1, <2>1, <3>1
  <2>3. /\ maker[t] \in Cookies
        /\ \/ pendingTokens[maker[t]] = t /\ making[t] # "done"
           \/ Overwritten(t)
           \/ making[t] = "redirected" /\ session[maker[t]] = "gone"
    BY <1>3, <2>1, <2>2 DEF TokensInv, HasMaker, WhyUnshown
  <2>4. CASE pendingTokens[maker[t]] = t /\ making[t] # "done"
    BY <1>2, <1>3, <2>1, <2>2, <2>3, <2>4
  <2>5. CASE Overwritten(t)
    BY <1>7, <2>5
  <2>6. CASE making[t] = "redirected" /\ session[maker[t]] = "gone"
    BY <1>3, <2>6
  <2> QED  BY <2>3, <2>4, <2>5, <2>6
<1> QED  BY <1>4, <1>5, <1>6, <1>8 DEF TokensInv

LEMMA RestartStep == ASSUME TypeOK, TokensInv, Restart  PROVE TokensInv'
<1>1. /\ session' = [c \in Cookies |-> IF session[c] = "new" THEN "new" ELSE "gone"]
      /\ pendingTokens' = [c \in Cookies |-> None]
      /\ making' = [t \in Tokens |-> IF making[t] \in {"posted", "inserted", "following"}
                                     THEN "failed" ELSE making[t]]
      /\ maker' = maker /\ shownTo' = shownTo
  BY DEF Restart
<1>2. HasMaker'
  BY <1>1 DEF TokensInv, HasMaker
<1>3. PendingUnshown'
  BY <1>1, NoneAssumption DEF PendingUnshown
<1>4. UnshownFirst' /\ ShownOnceToMaker'
  BY <1>1 DEF TokensInv, UnshownFirst, ShownOnceToMaker
<1>5. \A t \in Tokens : Overwritten(t) => Overwritten(t)'
  BY <1>1 DEF Overwritten, Landed
<1>6. WhyUnshown'
  BY <1>1, <1>5 DEF TypeOK, TokensInv, HasMaker, WhyUnshown
<1> QED  BY <1>2, <1>3, <1>4, <1>6 DEF TokensInv

LEMMA TokensStep == ASSUME TypeOK, TokensInv, [Next]_vars  PROVE TokensInv'
<1>1. Onward
  BY AuthStep
<1>2. ASSUME NEW c \in Cookies, Reload(c)  PROVE TokensInv'
  BY <1>2, ShowStep DEF Reload, auth, creation
<1>3. ASSUME NEW t \in Tokens, TokenStep(t)  PROVE TokensInv'
  <2>1. CASE PostToken(t)
    BY <2>1, PostStep
  <2>2. CASE CreateToken(t)
    BY <1>1, <2>2, MoveStep DEF CreateToken
  <2>3. CASE StorePending(t)
    BY <2>3, StoreStep
  <2>4. CASE FollowRedirect(t)
    <3>1. making[t] = "redirected" /\ UNCHANGED pages
      BY <2>4 DEF FollowRedirect
    <3>2. CASE session[maker[t]] = "live"
      <4>1. Move(t, "following")
        BY <2>4, <3>2 DEF FollowRedirect
      <4> QED  BY <1>1, <3>1, <3>2, <4>1, MoveStep
    <3>3. CASE session[maker[t]] # "live"
      <4>1. Move(t, "bounced")
        BY <2>4, <3>3 DEF FollowRedirect
      <4> QED  BY <1>1, <3>1, <4>1, MoveStep
    <3> QED  BY <3>2, <3>3
  <2>5. CASE TokensPage(t)
    <3>1. making[t] = "following" /\ session' = session /\ maker[t] \in Cookies
      BY <2>5 DEF TokensPage, auth, TokensInv, HasMaker
    <3>2. CASE Move(t, "done") /\ ShowPending(maker[t])
      BY <3>1, <3>2, ShowStep DEF Move
    <3>3. CASE Move(t, "failed") /\ UNCHANGED pages
      BY <1>1, <3>1, <3>3, MoveStep
    <3> QED  BY <2>5, <3>2, <3>3 DEF TokensPage
  <2> QED  BY <1>3, <2>1, <2>2, <2>3, <2>4, <2>5 DEF TokenStep
<1>4. CASE Restart
  BY <1>4, RestartStep
<1>5. CASE UNCHANGED <<creation, pages>>
  BY <1>1, <1>5, TokensUnchanged
<1> QED  BY <1>2, <1>3, <1>4, <1>5
         DEF Next, SessionStep, LoginCheck, Login, Expire, Bounce, Evict, ClearSessionCookie,
             CleanupSessions, CheckCurrent, WriteNew, WriteFails, vars

-----------------------------------------------------------------------------
(* The password.                                                           *)

Forms == [old : Passwords, new : Passwords, sure : BOOLEAN]

PasswordTyped ==
  stored \in Passwords \union {None} /\ change \in [Changes -> SUBSET Forms]

LEMMA AcceptedTyped ==
  ASSUME stored \in Passwords \union {None}
  PROVE  Accepted \subseteq Passwords /\ InForce \in Passwords
  BY PasswordAssumption DEF Accepted, InForce

LEMMA CheckStep ==
  ASSUME PasswordTyped, PasswordInv, NEW k \in Changes, CheckCurrent(k)
  PROVE  PasswordTyped' /\ PasswordInv'
<1> DEFINE others == {j \in Changes \ {k} : change[j] # {}}
<1> DEFINE form(old, new) == [old |-> old, new |-> new, sure |-> old = InForce /\ others = {}]
<1>1. PICK old \in Accepted, new \in Passwords :
        change' = [j \in Changes |-> IF j = k THEN {form(old, new)}
                                    ELSE {[f EXCEPT !.sure = FALSE] : f \in change[j]}]
  BY DEF CheckCurrent
<1>2. stored' = stored
  BY DEF CheckCurrent
<1>3. old \in Passwords
  BY AcceptedTyped DEF PasswordTyped
<1>4. change'[k] = {form(old, new)}
  BY <1>1
<1>5. \A j \in Changes \ {k} : change'[j] = {[f EXCEPT !.sure = FALSE] : f \in change[j]}
  BY <1>1
<1>6. PasswordTyped'
  <2>1. form(old, new) \in Forms
    BY <1>3 DEF Forms
  <2>2. \A j \in Changes : \A f \in change[j] : [f EXCEPT !.sure = FALSE] \in Forms
    <3>1. \A f \in Forms : [f EXCEPT !.sure = FALSE] \in Forms
      BY DEF Forms
    <3>2. \A j \in Changes : \A f \in change[j] : f \in Forms
      BY DEF PasswordTyped
    <3> QED  BY <3>1, <3>2, Zenon
  <2> HIDE DEF form
  <2> QED  BY <1>1, <1>2, <2>1, <2>2 DEF PasswordTyped
<1>7. PasswordInv'
  <2>1. SUFFICES ASSUME NEW j \in Changes, NEW f \in change'[j]
                 PROVE  /\ change'[j] = {f}
                        /\ f.sure => InForce' = f.old
                                   /\ \A i \in Changes \ {j} : change'[i] = {}
    BY DEF PasswordInv
  <2>2. CASE j = k
    <3>1. f = form(old, new) /\ change'[j] = {f}
      BY <1>4, <2>1, <2>2
    <3>2. f.sure => InForce = f.old /\ \A i \in Changes \ {k} : change[i] = {}
      BY <3>1
    <3> QED  BY <1>2, <1>5, <2>2, <3>1, <3>2 DEF InForce
  <2>3. CASE j # k
    <3>1. PICK g \in change[j] : f = [g EXCEPT !.sure = FALSE]
      BY <1>5, <2>1, <2>3
    <3>2. change[j] = {g} /\ g \in Forms
      BY <3>1 DEF PasswordInv, PasswordTyped
    <3>3. f.sure = FALSE
      BY <3>1, <3>2 DEF Forms
    <3>4. change'[j] = {f}
      BY <1>5, <2>3, <3>1, <3>2
    <3> QED  BY <3>3, <3>4
  <2> QED  BY <2>2, <2>3
<1> QED  BY <1>6, <1>7

\* The end of a change: its form is gone, and the row is as it was or new.
LEMMA ChangeEnds ==
  ASSUME PasswordTyped, PasswordInv, NEW k \in Changes, change[k] # {},
         change' = [change EXCEPT ![k] = {}], stored' \in Passwords \union {None}
  PROVE  PasswordTyped' /\ PasswordInv'
<1>1. change'[k] = {} /\ \A j \in Changes \ {k} : change'[j] = change[j]
  BY DEF PasswordTyped
<1>2. \A j \in Changes \ {k} : \A f \in change[j] : ~f.sure
  BY DEF PasswordInv
<1>3. PasswordInv'
  BY <1>1, <1>2 DEF PasswordInv
<1> QED  BY <1>3 DEF PasswordTyped

LEMMA PasswordStep ==
  ASSUME PasswordTyped, PasswordInv, [Next]_vars
  PROVE  PasswordTyped' /\ PasswordInv'
<1>1. ASSUME NEW k \in Changes, CheckCurrent(k)  PROVE PasswordTyped' /\ PasswordInv'
  BY <1>1, CheckStep
<1>2. ASSUME NEW k \in Changes, WriteNew(k)  PROVE PasswordTyped' /\ PasswordInv'
  <2>1. PICK f \in change[k] : stored' = f.new
    BY <1>2 DEF WriteNew, Written
  <2>2. f.new \in Passwords
    BY <2>1 DEF PasswordTyped, Forms
  <2> QED  BY <1>2, <2>1, <2>2, ChangeEnds DEF WriteNew
<1>3. ASSUME NEW k \in Changes, WriteFails(k)  PROVE PasswordTyped' /\ PasswordInv'
  BY <1>3, ChangeEnds DEF WriteFails, PasswordTyped
<1>4. CASE Restart
  BY <1>4 DEF Restart, PasswordTyped, PasswordInv
<1>5. CASE UNCHANGED password
  BY <1>5 DEF password, PasswordTyped, PasswordInv, InForce
<1> QED  BY <1>1, <1>2, <1>3, <1>4, <1>5
         DEF Next, SessionStep, LoginCheck, Login, Expire, Bounce, Evict, ClearSessionCookie,
             Reload, TokenStep, PostToken, CreateToken, StorePending, FollowRedirect,
             TokensPage, CleanupSessions, vars

-----------------------------------------------------------------------------
(* The theorems.                                                           *)

IInv == TypeOK /\ TokensInv /\ PasswordInv

LEMMA Step == IInv /\ [Next]_vars => IInv'
<1> SUFFICES ASSUME IInv, [Next]_vars  PROVE IInv'
  OBVIOUS
<1>1. AuthTyped' /\ TokensTyped' /\ TokensInv'
  BY AuthStep, TypesStep, TokensStep DEF IInv
<1>2. PasswordTyped' /\ PasswordInv'
  BY PasswordStep DEF IInv, TypeOK, PasswordTyped, Forms
<1> QED  BY <1>1, <1>2 DEF IInv, TypeOK, AuthTyped, TokensTyped, PasswordTyped, Forms

LEMMA Invariant == Spec => []IInv
  BY InitCorrect, Step, PTL DEF Spec, IInv

\* The types, and only sessions that are expired or gone are about to be
\* deleted by a request.
THEOREM TypeCorrect == Spec => []TypeOK
  BY Invariant, PTL DEF IInv

\* However many sessions create however many tokens at a time: no raw token is
\* shown twice, or to another session than its maker's.
THEOREM ShownOnceCorrect == Spec => []ShownOnceToMaker
<1>1. IInv => ShownOnceToMaker
  BY DEF IInv, TokensInv
<1> QED  BY <1>1, Invariant, PTL

\* A token that its page did not show gave way to another one of its session.
THEOREM LostCorrect == Spec => []LostOnlyByOverwrite
<1>1. IInv => LostOnlyByOverwrite
  BY DEF IInv, TokensInv, WhyUnshown, Overwritten, Landed, LostOnlyByOverwrite
<1> QED  BY <1>1, Invariant, PTL

\* A live session is taken out of the map by its logout or with the process.
THEOREM NoSpuriousLogoutCorrect == Spec => NoSpuriousLogout
<1> DEFINE Ends == \A c \in Cookies :
      session[c] = "live" /\ session'[c] = "gone" => ClearSessionCookie(c) \/ Restart
<1>1. IInv /\ [Next]_vars => [Ends]_vars
  <2> SUFFICES ASSUME IInv, Next, NEW c \in Cookies, session[c] = "live",
                      session'[c] = "gone"
               PROVE  ClearSessionCookie(c) \/ Restart
    OBVIOUS
  <2>1. ASSUME NEW d \in Cookies, SessionStep(d)  PROVE ClearSessionCookie(c)
    BY <2>1 DEF SessionStep, LoginCheck, Login, Expire, Bounce, Evict, ClearSessionCookie,
                Reload, auth, IInv, TypeOK
  <2>2. ASSUME CleanupSessions  PROVE FALSE
    BY <2>2 DEF CleanupSessions, Cleaned
  <2>3. CASE session' = session
    BY <2>3
  <2> QED  BY <2>1, <2>2, <2>3
           DEF Next, TokenStep, PostToken, CreateToken, StorePending, FollowRedirect,
               TokensPage, CheckCurrent, WriteNew, WriteFails, auth
<1> QED  BY <1>1, Invariant, PTL DEF Spec, NoSpuriousLogout

\* What a change of the password replaces is what its form proved.
THEOREM ReplacesCorrect == Spec => ReplacesWhatItProved
<1> DEFINE Replaces == \A k \in Changes : \A f \in change[k] :
      f.sure /\ WriteNew(k) => InForce = f.old /\ InForce' = f.new
<1>1. IInv /\ [Next]_vars => [Replaces]_vars
  <2> SUFFICES ASSUME IInv, NEW k \in Changes, NEW f \in change[k], f.sure, WriteNew(k)
               PROVE  InForce = f.old /\ InForce' = f.new
    OBVIOUS
  <2>1. InForce = f.old /\ change[k] = {f}
    BY DEF IInv, PasswordInv
  <2>2. stored' = f.new
    BY <2>1 DEF WriteNew, Written
  <2>3. f.new # None
    BY NoneAssumption DEF IInv, TypeOK
  <2> QED  BY <2>1, <2>2, <2>3 DEF InForce
<1> QED  BY <1>1, Invariant, PTL DEF Spec, ReplacesWhatItProved
=============================================================================
