--------------------------- MODULE SessionRenewal ---------------------------
(***************************************************************************)
(* One browser session as the browser, the Next server and the API see it: *)
(* the cookie jar, the proxy that renews before a render, the refresh that *)
(* a render or a Server Action falls back on, and the API's rotation.      *)
(*                                                                         *)
(* The API side is the family of RefreshTokens with its requests run one   *)
(* at a time: that module shows a family is a chain with one usable token, *)
(* so a token is named here by its generation in the chain.                *)
(***************************************************************************)
EXTENDS Naturals

CONSTANTS
    Handlers,    \* browser requests that can be in flight at once
    Routes,      \* which of "guarded", "open" and "action" the browser uses
    FaultKinds,  \* which of "lost", "unreachable" and "error" may happen
    MaxFaults,   \* bound on the faults of a behaviour
    MaxGen,      \* bound on the rotations of a behaviour
    AccessTtl,   \* JWT_EXPIRY, in ticks
    Margin,      \* EXPIRY_MARGIN_MS
    Grace,       \* REFRESH_GRACE_MS
    MaxTransit,  \* a request is answered within this many ticks
    MaxTime,     \* bound on the clock
    NoCookie,    \* the cookie is absent
    Keep         \* the response does not mention the cookie

ASSUME RenewalAssumption ==
    /\ Routes \subseteq {"guarded", "open", "action"}
    /\ FaultKinds \subseteq {"lost", "unreachable", "error"}
    /\ {MaxFaults, MaxGen, Margin, Grace, MaxTransit, MaxTime} \subseteq Nat
    /\ AccessTtl \in Nat /\ Margin < AccessTtl
    /\ NoCookie \notin Nat /\ Keep \notin Nat /\ Keep # NoCookie

VARIABLES
    now,
    live,       \* the generation of the token the API would rotate
    spentAt,    \* spentAt[g]: when generation g was rotated
    over,       \* the API has revoked the family
    jar,        \* the browser's cookies
    handler,    \* handler[r]: the Next handler serving r
    faults      \* faults so far

api == <<live, spentAt, over>>
renewalVars == <<now, api, jar, handler, faults>>

-----------------------------------------------------------------------------
(* Cookies and requests *)

Gens == 0..MaxGen

\* A cookie pair; the access cookie is known by the moment its token expires,
\* 0 standing for no cookie.  A browser drops it at that same moment.
Cookies == [refresh : Gens \cup {NoCookie}, access : 0..(now + AccessTtl)]

NoCookies == [refresh |-> NoCookie, access |-> 0]

\* A handler sees the cookies of its request and collects writes for the
\* response; Keep is a cookie the response does not mention.
Writes == [refresh : Gens \cup {NoCookie, Keep}, access : 0..(now + AccessTtl) \cup {Keep}]

NoWrites == [refresh |-> Keep, access |-> Keep]

NoRequest == [pc |-> "idle", route |-> "guarded", born |-> 0,
         sees |-> NoCookies, writes |-> NoWrites]

RenewalTypeOK ==
    /\ now \in 0..MaxTime
    /\ live \in Gens
    /\ spentAt \in [Gens -> 0..now]
    /\ over \in BOOLEAN
    /\ jar \in Cookies
    /\ handler \in [Handlers -> [pc : {"idle", "proxy", "render", "respond"},
                                 route : {"guarded", "open", "action"},
                                 born : 0..now, sees : Cookies, writes : Writes]]
    /\ faults \in 0..MaxFaults

Written(c, w) == [refresh |-> IF w.refresh = Keep THEN c.refresh ELSE w.refresh,
                  access  |-> IF w.access = Keep THEN c.access ELSE w.access]

\* Later writes of one response replace earlier ones.
Both(w, v) == [refresh |-> IF v.refresh = Keep THEN w.refresh ELSE v.refresh,
               access  |-> IF v.access = Keep THEN w.access ELSE v.access]

-----------------------------------------------------------------------------
(* Plausible slips *)

NeedsRefreshAlways(access) == TRUE
ForgivenNever(g) == FALSE
AnyFailureEndsSession(answer) == answer # "ok"
AccessExpiryDoubled == now + AccessTtl + AccessTtl

-----------------------------------------------------------------------------
(* The API's answer to a refresh *)

NewAccess == now + AccessTtl

\* A token spent inside the grace window whose successor is still the usable
\* one is replayed: the answer carries an access cookie and nothing else.
Forgiven(g) == g + 1 = live /\ now <= spentAt[g] + Grace

\* RefreshAt(g, answer, w): presented with generation g, the API moves to its
\* next state and gives this answer with these Set-Cookie lines.
Rotates(g, answer, w) ==
    /\ ~over /\ g = live
    /\ live < MaxGen
    /\ live' = live + 1
    /\ spentAt' = [spentAt EXCEPT ![g] = now]
    /\ over' = over
    /\ answer = "ok"
    /\ w = [refresh |-> live + 1, access |-> NewAccess]

Replays(g, answer, w) ==
    /\ ~over /\ g # live /\ Forgiven(g)
    /\ UNCHANGED api
    /\ answer = "ok"
    /\ w = [refresh |-> Keep, access |-> NewAccess]

\* Anything else is reuse, or a session already over: the family is revoked,
\* and the controller clears both cookies whatever went wrong.
Refuses(g, answer, w) ==
    /\ over \/ (g # live /\ ~Forgiven(g))
    /\ over' = TRUE
    /\ UNCHANGED <<live, spentAt>>
    /\ answer = "refused"
    /\ w = NoCookies

RefreshAt(g, answer, w) ==
    Rotates(g, answer, w) \/ Replays(g, answer, w) \/ Refuses(g, answer, w)

Fault(kind) ==
    /\ kind \in FaultKinds
    /\ faults < MaxFaults
    /\ faults' = faults + 1

\* One refresh call as the Next server experiences it.  An unreachable API may
\* or may not have done its part; a handler that fails inside, on a database
\* error say, answers 500 and clears the cookies as the 401 does.
Refreshing(g, answer, w) ==
    \/ RefreshAt(g, answer, w) /\ UNCHANGED faults
    \/ /\ Fault("unreachable")
       /\ answer = "unreachable"
       /\ w = NoWrites
       /\ \/ UNCHANGED api
          \/ \E a \in {"ok", "refused"}, l \in {NoCookies,
                  [refresh |-> live + 1, access |-> NewAccess],
                  [refresh |-> Keep, access |-> NewAccess]} : RefreshAt(g, a, l)
    \/ /\ Fault("error")
       /\ answer = "error"
       /\ w = NoCookies
       /\ UNCHANGED api

\* The answers and cookie lines a refresh can give.
Answers == {"ok", "refused", "unreachable", "error"}
Lines == {NoWrites, NoCookies, [refresh |-> Keep, access |-> NewAccess]}
           \cup {[refresh |-> g, access |-> NewAccess] : g \in Gens}

-----------------------------------------------------------------------------
(* The Next server *)

\* The proxy renews when the access token is missing or within the margin.
NeedsRefresh(access) == access < now + Margin

\* Only a 401 from the refresh endpoint ends the browser's session.
EndsSession(answer) == answer = "refused"

\* The browser sends its cookies; routes outside the matcher skip the proxy.
Send(r, route) ==
    /\ handler[r] = NoRequest
    /\ jar.refresh # NoCookie
    /\ handler' = [handler EXCEPT ![r] =
                     [NoRequest EXCEPT !.pc = IF route = "open" THEN "render" ELSE "proxy",
                                  !.route = route, !.born = now, !.sees = jar]]
    /\ UNCHANGED <<now, api, jar, faults>>

ProxyPasses(r) ==
    /\ handler[r].pc = "proxy"
    /\ ~NeedsRefresh(handler[r].sees.access)
    /\ handler' = [handler EXCEPT ![r].pc = "render"]
    /\ UNCHANGED <<now, api, jar, faults>>

\* The proxy's renewal.  Renewed cookies go to the browser and to this render.
\* A refused one drops both and redirects; a Server Action is let through
\* instead, with the cookies it came with.  No other failure changes anything.
ProxyRenews(r) ==
    /\ handler[r].pc = "proxy"
    /\ NeedsRefresh(handler[r].sees.access)
    /\ \E answer \in Answers, w \in Lines :
         /\ Refreshing(handler[r].sees.refresh, answer, w)
         /\ handler' = [handler EXCEPT ![r] =
              IF answer = "ok"
              THEN [handler[r] EXCEPT !.pc = "render", !.sees = Written(@, w), !.writes = w]
              ELSE IF EndsSession(answer) /\ handler[r].route = "guarded"
              THEN [handler[r] EXCEPT !.pc = "respond", !.writes = NoCookies]
              ELSE [handler[r] EXCEPT !.pc = "render"]]
    /\ UNCHANGED <<now, jar>>

\* apiCallWithRefresh: an API call of the render got a 401 and refreshes.  A
\* Server Action may write cookies, so it keeps what the API set, and drops
\* both on a refusal; a render can write nothing and forgets the new pair.
RenderRenews(r) ==
    /\ handler[r].pc = "render"
    /\ handler[r].sees.access <= now
    /\ handler[r].sees.refresh # NoCookie
    /\ \E answer \in Answers, w \in Lines :
         /\ Refreshing(handler[r].sees.refresh, answer, w)
         /\ handler' = [handler EXCEPT ![r] =
              IF handler[r].route = "action"
              THEN [handler[r] EXCEPT !.sees = Written(@, w), !.writes = Both(@, w)]
              ELSE @]
    /\ UNCHANGED <<now, jar>>

Finish(r) ==
    /\ handler[r].pc = "render"
    /\ handler' = [handler EXCEPT ![r].pc = "respond"]
    /\ UNCHANGED <<now, api, jar, faults>>

\* The response reaches the browser, which stores what it sets.
Respond(r) ==
    /\ handler[r].pc = "respond"
    /\ jar' = Written(jar, handler[r].writes)
    /\ handler' = [handler EXCEPT ![r] = NoRequest]
    /\ UNCHANGED <<now, api, faults>>

\* The response is lost on the way.
Lose(r) ==
    /\ handler[r].pc = "respond"
    /\ Fault("lost")
    /\ handler' = [handler EXCEPT ![r] = NoRequest]
    /\ UNCHANGED <<now, api, jar>>

\* Time passes, but no request is left unanswered longer than MaxTransit.
Tick ==
    /\ now < MaxTime
    /\ \A r \in Handlers : handler[r] # NoRequest => now < handler[r].born + MaxTransit
    /\ now' = now + 1
    /\ UNCHANGED <<api, jar, handler, faults>>

\* A fresh sign-in.
RenewalInit ==
    /\ now = 0
    /\ live = 0
    /\ spentAt = [g \in Gens |-> 0]
    /\ over = FALSE
    /\ jar = [refresh |-> 0, access |-> AccessTtl]
    /\ handler = [r \in Handlers |-> NoRequest]
    /\ faults = 0

RenewalNext ==
    \/ \E r \in Handlers :
         \/ \E route \in Routes : Send(r, route)
         \/ ProxyPasses(r) \/ ProxyRenews(r) \/ RenderRenews(r)
         \/ Finish(r) \/ Respond(r) \/ Lose(r)
    \/ Tick

RenewalSpec == RenewalInit /\ [][RenewalNext]_renewalVars

-----------------------------------------------------------------------------
(* Properties *)

\* What the settings owe to the time a request takes, for a lapse to cost one
\* rotation: two requests, one after the other, fit between two renewals.
PacedSettings ==
    /\ Margin > 0
    /\ 2 * MaxTransit <= AccessTtl - Margin

\* And for a browser never to look like a thief: they fit in the grace window,
\* a token the proxy lets through outlives its request, and every page that
\* reads the session is behind the proxy.
SafeSettings ==
    /\ PacedSettings
    /\ 2 * MaxTransit <= Grace
    /\ MaxTransit < Margin
    /\ Routes \subseteq {"guarded", "action"}

\* "Only the refresh token's own expiry ends the session": a browser that just
\* uses the application is never taken for a thief, as long as no answer is
\* lost and no call fails.
SessionSurvivesUse == over => faults > 0

\* "An outage must not sign anyone out": the browser loses its refresh cookie
\* only when the API has ended the session.
SignedOutOnlyWhenOver == jar.refresh = NoCookie => over

\* One renewal per lapse, however many requests find the token lapsed: two
\* rotations are an access token's useful life apart.
RenewalIsPaced ==
    \A g \in Gens : g + 1 < live => spentAt[g + 1] > spentAt[g] + AccessTtl - Margin

=============================================================================
