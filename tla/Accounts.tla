------------------------------ MODULE Accounts ------------------------------
(***************************************************************************)
(* Who the caller is: OAuth logins (crates/api/src/oauth.rs), sessions,    *)
(* logout, dev-login and the first-admin claim (crates/api/src/auth.rs),   *)
(* with the /auth limiter in front of the handlers of auth.rs.  Any number *)
(* of requests is in flight, several of one browser included; every SQL    *)
(* statement is a step of its own, and upsert_identity's transaction one.  *)
(* What the handlers only read or format (names, emails, token text, audit *)
(* rows) is left out.                                                      *)
(***************************************************************************)
EXTENDS RateLimit

CONSTANTS
  Slots,        \* requests in flight
  Browsers,     \* cookie jars, which are also the limiter's keys
  Actors,       \* the ids of actors, existing and still to be minted
  Dev,          \* USR_dev, the seeded admin
  Connectors,   \* the ids of connectors
  Idents,       \* the (provider, sub) pairs of people who log in
  None,
  StateTTL,     \* STATE_TTL_SECS
  SessionTTL,   \* the 30 days of a session
  MaxWait,      \* bound: how long a request waits for the limiter's mutex
  Workloads     \* bound: the mixes of requests; a behaviour has one of them

ASSUME AccountsAssumption ==
  /\ Keys = Browsers /\ Dev \in Actors
  /\ None \notin Actors \cup Idents \cup Browsers
  /\ {StateTTL, SessionTTL, MaxWait} \subseteq Nat

(* The requests; a workload allows some, up to a number and a time, in a    *)
(* state where some people are known and some browsers signed in, as actors *)
(* that exist: sessions.actor_id is a foreign key.                          *)
Ops == {"start", "callback", "dev_login", "claim", "logout", "write", "delete", "run", "get"}
ASSUME WorkloadsAssumption ==
  /\ Workloads \subseteq
       [ops : SUBSET Ops, requests : Nat, time : Nat,
        known : [Idents -> Actors \cup {None}], signed : Seq(Browsers \X Actors)]
  /\ \A w \in Workloads : \A i \in DOMAIN w.signed :
       w.signed[i][2] = Dev \/ \E p \in Idents : w.known[p] = w.signed[i][2]

VARIABLES
  rows,         \* entity_data of actors and connectors; version 0: never inserted
  identities,   \* auth_identities: the actor of a (provider, sub)
  sessions,     \* every session ever minted, in order, with what minted it
  flows,        \* history: the login flows started; a nonce is an index
  jar,          \* per browser, its state cookie and its session cookie; 0 is none
  req,          \* per slot, the locals of its handler
  begun,        \* how many requests have begun
  load,         \* the workload
  claimants,    \* history: the actors whose claim was answered with 200
  contested     \* history: a claim wrote although another had since its query, or a
                \*   real admin lost the role or was deleted

accountVars == <<identities, sessions, flows, jar, load, claimants, contested>>
vars == <<now, bucket, admitted, lag, lastHit, rows, identities, sessions, flows, jar, req,
          begun, load, claimants, contested>>

Nonces == 1..Len(flows)

(* What a login remembers: whose, by which flow, sent when by which browser. *)
NotALogin == [ident |-> None, flow |-> 0, browser |-> None, at |-> 0]

(* A handler's locals: its browser, the clock reading it brought to the     *)
(* limiter, the session token it was sent with, the Caller (actor and       *)
(* whether it is an admin), the login, and the row, the data and the        *)
(* version of a write.  [late]: what it read of a row has been overtaken by *)
(* a claim.                                                                 *)
Blank == [pc |-> "idle", op |-> "none", browser |-> None, t |-> 0, token |-> 0,
          actor |-> None, admin |-> FALSE, login |-> NotALogin,
          id |-> None, data |-> None, fields |-> {}, expected |-> 0, late |-> FALSE]

Done(s) == req' = [req EXCEPT ![s] = Blank]

Allowed(op) == op \in load.ops

----------------------------------------------------------------------------
(* The tables. *)

ActorData(role) == [display_name |-> "name", platform_role |-> role]

(* The session rows the extractor and the cascade look at. *)
Live(i) == i \in 1..Len(sessions) /\ sessions[i].live

RealAdmins == {a \in Actors \ {Dev} : rows[a].alive /\ rows[a].data.platform_role = "admin"}

Session(a, login) == [actor |-> a, exp |-> now + SessionTTL, live |-> TRUE, login |-> login]

AccountsInit ==
  /\ LimitInit
  /\ load \in Workloads
  /\ identities = load.known
  /\ rows = [e \in Actors \cup Connectors |->
       IF e \in Connectors
       THEN [alive |-> TRUE, version |-> 1,
             data |-> [target |-> "url", status |-> "draft", last_run_at |-> None]]
       ELSE LET there == e = Dev \/ \E i \in Idents : load.known[i] = e IN
            [alive |-> there, version |-> IF there THEN 1 ELSE 0,
             data |-> ActorData(IF e = Dev THEN "admin" ELSE "member")]]
  /\ sessions = [i \in DOMAIN load.signed |-> Session(load.signed[i][2], NotALogin)]
  /\ jar = [b \in Browsers |-> [flow |-> 0, session |->
       IF \E i \in DOMAIN load.signed : load.signed[i][1] = b
       THEN CHOOSE i \in DOMAIN load.signed : load.signed[i][1] = b ELSE 0]]
  /\ flows = <<>>
  /\ req = [s \in Slots |-> Blank]
  /\ begun = 0
  /\ claimants = {}
  /\ contested = FALSE

Begin(s) == req[s].pc = "idle" /\ begun < load.requests /\ begun' = begun + 1

Tick ==
  /\ now < load.time
  /\ \A s \in Slots : req[s].pc = "limit" => now - req[s].t < MaxWait
  /\ now' = now + 1
  /\ UNCHANGED <<limitVars, rows, accountVars, req, begun>>

----------------------------------------------------------------------------
(* The Caller extractor: an unexpired session joined with its actor's row;  *)
(* whether the caller is an admin is read here once.                        *)
Resolves(token) ==
  /\ Live(token)
  /\ sessions[token].exp > now
  /\ rows[sessions[token].actor].alive

AsCaller(r, op, token) ==
  LET a == sessions[token].actor IN
  [r EXCEPT !.pc = op, !.op = op, !.actor = a,
            !.admin = rows[a].data.platform_role = "admin"]

(* A request to a handler of auth.rs arrives: enforce reads the clock. *)
Arrive(s, b) ==
  /\ Begin(s)
  /\ load.ops \cap {"dev_login", "claim", "logout"} # {}
  /\ req' = [req EXCEPT ![s] =
       [Blank EXCEPT !.pc = "limit", !.browser = b, !.t = now, !.token = jar[b].session]]
  /\ UNCHANGED <<now, limitVars, rows, accountVars>>

(* The hit is counted, and a request over the limit gets its 429. *)
Enforce(s) ==
  LET r == req[s] IN
  /\ r.pc = "limit"
  /\ allow(r.browser, r.t)
  /\ req' = [req EXCEPT ![s] = IF Admits(r.browser, r.t) THEN [r EXCEPT !.pc = "routed"] ELSE Blank]
  /\ UNCHANGED <<now, rows, accountVars, begun>>

(* dev_login, in debug builds: an actor that exists gets a session. *)
DevLogin(s, a) ==
  /\ req[s].pc = "routed" /\ Allowed("dev_login")
  /\ rows[a].alive
  /\ req' = [req EXCEPT ![s].pc = "mint", ![s].actor = a]
  /\ UNCHANGED <<now, limitVars, rows, accountVars, begun>>

Route(s, op) ==
  /\ req[s].pc = "routed" /\ Allowed(op)
  /\ Resolves(req[s].token)
  /\ req' = [req EXCEPT ![s] = AsCaller(@, op, @.token)]
  /\ UNCHANGED <<now, limitVars, rows, accountVars, begun>>

(* Mutant: the claim looks at no other admin. *)
QueryAdmins_Never(s) ==
  /\ req[s].pc = "claim"
  /\ req' = [req EXCEPT ![s].pc = "promote"]
  /\ UNCHANGED <<now, limitVars, rows, accountVars, begun>>

(* claim_admin is one UPDATE, but its NOT EXISTS is evaluated on the        *)
(* snapshot the statement began with ...                                    *)
QueryAdmins(s) ==
  /\ req[s].pc = "claim"
  /\ RealAdmins = {}
  /\ req' = [req EXCEPT ![s].pc = "promote"]
  /\ UNCHANGED <<now, limitVars, rows, accountVars, begun>>

(* ... and the write to the caller's own row does not look again; it leaves *)
(* the version alone.                                                       *)
Promote(s) ==
  LET a == req[s].actor IN
  /\ req[s].pc = "promote"
  /\ rows[a].alive
  /\ rows' = [rows EXCEPT ![a].data.platform_role = "admin"]
  /\ claimants' = claimants \cup {a}
  /\ contested' = (contested \/ req[s].late)
  /\ req' = [x \in Slots |->
       IF x = s THEN Blank
       ELSE [req[x] EXCEPT !.late = @ \/ req[x].pc = "promote" \/ req[x].id = a]]
  /\ UNCHANGED <<now, limitVars, identities, sessions, flows, jar, begun, load>>

(* logout drops every session of the caller; the answer clears the cookie,  *)
(* when it arrives.                                                         *)
Logout(s) ==
  /\ req[s].pc = "logout"
  /\ sessions' = [i \in DOMAIN sessions |->
       [sessions[i] EXCEPT !.live = @ /\ sessions[i].actor # req[s].actor]]
  /\ jar' \in {jar, [jar EXCEPT ![req[s].browser].session = 0]}
  /\ Done(s)
  /\ UNCHANGED <<now, limitVars, rows, identities, flows, begun, load, claimants, contested>>

----------------------------------------------------------------------------
(* The OAuth flow.  oauth.rs has a router of its own, without the limiter.  *)

(* start: a new nonce, sent to the provider as the state and to the browser *)
(* in a signed cookie, which replaces the one of an earlier start.          *)
Start(b) ==
  /\ Allowed("start") /\ begun < load.requests /\ begun' = begun + 1
  /\ flows' = Append(flows, [browser |-> b, exp |-> now + StateTTL])
  /\ jar' = [jar EXCEPT ![b].flow = Len(flows) + 1]
  /\ UNCHANGED <<now, limitVars, rows, identities, sessions, req, load, claimants, contested>>

(* Mutant: any state cookie will do. *)
Callback_NoNonce(s, b, n) ==
  /\ Begin(s) /\ Allowed("callback")
  /\ jar[b].flow # 0 /\ now <= flows[jar[b].flow].exp
  /\ req' = [req EXCEPT ![s] = [Blank EXCEPT !.pc = "exchange", !.browser = b,
       !.login = [ident |-> None, flow |-> n, browser |-> b, at |-> now]]]
  /\ UNCHANGED <<now, limitVars, rows, accountVars>>

(* callback: the provider's redirect of flow n reaches a browser, which     *)
(* must hold the cookie of that flow, unexpired.  HMAC-signed cookies are   *)
(* taken to be the server's own.                                            *)
Callback(s, b, n) ==
  /\ Begin(s) /\ Allowed("callback")
  /\ jar[b].flow = n
  /\ now <= flows[n].exp
  /\ req' = [req EXCEPT ![s] = [Blank EXCEPT !.pc = "exchange", !.browser = b,
       !.login = [ident |-> None, flow |-> n, browser |-> b, at |-> now]]]
  /\ UNCHANGED <<now, limitVars, rows, accountVars>>

(* complete_login: the provider's answer names the person i (an answer that *)
(* names nobody or does not verify ends the request), and upsert_identity   *)
(* looks for its actor.                                                     *)
LookUp(s, i) ==
  /\ req[s].pc = "exchange"
  /\ req' = [req EXCEPT ![s].login.ident = i, ![s].actor = identities[i],
                        ![s].pc = IF identities[i] = None THEN "insert" ELSE "mint"]
  /\ UNCHANGED <<now, limitVars, rows, accountVars, begun>>

Unused == {a \in Actors : rows[a].version = 0}

(* Mutant: the row starts without its version. *)
Inserted_NoVersion(s, a) ==
  /\ rows' = [rows EXCEPT ![a] = [alive |-> TRUE, version |-> 0, data |-> ActorData("member")]]
  /\ identities' = [identities EXCEPT ![req[s].login.ident] = a]
  /\ req' = [req EXCEPT ![s].pc = "mint", ![s].actor = a]
  /\ UNCHANGED <<now, limitVars, sessions, flows, jar, begun, load, claimants, contested>>

(* The entity, its data and the identity, inserted in one transaction. *)
Inserted(s, a) ==
  /\ rows' = [rows EXCEPT ![a] = [alive |-> TRUE, version |-> 1, data |-> ActorData("member")]]
  /\ identities' = [identities EXCEPT ![req[s].login.ident] = a]
  /\ req' = [req EXCEPT ![s].pc = "mint", ![s].actor = a]
  /\ UNCHANGED <<now, limitVars, sessions, flows, jar, begun, load, claimants, contested>>

(* Mutants: the second login takes the identity over ... *)
InsertIdentity_Overwrite(s, a) ==
  /\ req[s].pc = "insert"
  /\ a \in Unused
  /\ Inserted(s, a)

(* ... or the three inserts are no transaction. *)
InsertIdentity_NoTransaction(s, a) ==
  /\ req[s].pc = "insert"
  /\ a \in Unused
  /\ IF identities[req[s].login.ident] = None
     THEN Inserted(s, a)
     ELSE /\ rows' = [rows EXCEPT ![a] =
               [alive |-> TRUE, version |-> 1, data |-> ActorData("member")]]
          /\ Done(s)
          /\ UNCHANGED <<now, limitVars, identities, sessions, flows, jar, begun, load,
                         claimants, contested>>

(* upsert_identity's transaction: the primary key of auth_identities refuses *)
(* the second of two first logins.                                          *)
InsertIdentity(s, a) ==
  /\ req[s].pc = "insert"
  /\ a \in Unused
  /\ identities[req[s].login.ident] = None
  /\ Inserted(s, a)

(* The cookies an answer that carries session n leaves in the jar, if it    *)
(* arrives.  The callback's answer names Set-Cookie twice in one header     *)
(* array: whether the session's survives the other one is up to axum.       *)
Answered(s, n) ==
  LET b == req[s].browser IN
  {jar} \cup
  IF req[s].login = NotALogin THEN {[jar EXCEPT ![b].session = n]}
  ELSE {[jar EXCEPT ![b] = [flow |-> 0, session |-> x]] : x \in {n, jar[b].session}}

(* mint_session, the last step of a login and of dev_login. *)
MintSession(s) ==
  /\ req[s].pc = "mint"
  /\ rows[req[s].actor].alive
  /\ sessions' = Append(sessions, Session(req[s].actor, req[s].login))
  /\ jar' \in Answered(s, Len(sessions) + 1)
  /\ Done(s)
  /\ UNCHANGED <<now, limitVars, rows, identities, flows, begun, load, claimants, contested>>

(* The request is refused (401, 404, 409, 412, 422), a statement fails, or  *)
(* the connection drops: the handler ends where it is.                      *)
Abort(s) ==
  /\ req[s].pc # "idle"
  /\ Done(s)
  /\ UNCHANGED <<now, limitVars, rows, accountVars, begun>>

AccountsNext ==
  \/ Tick
  \/ \E b \in Browsers : Start(b)
  \/ \E s \in Slots :
       \/ \E b \in Browsers : Arrive(s, b) \/ \E n \in Nonces : Callback(s, b, n)
       \/ Enforce(s)
       \/ \E a \in Actors : DevLogin(s, a) \/ InsertIdentity(s, a)
       \/ \E op \in {"claim", "logout"} : Route(s, op)
       \/ QueryAdmins(s) \/ Promote(s) \/ Logout(s)
       \/ \E i \in Idents : LookUp(s, i)
       \/ MintSession(s)
       \/ Abort(s)

----------------------------------------------------------------------------
(* A login logs the browser in that started its flow, in time: no session   *)
(* comes from a redirect that reached another browser or a late one,        *)
(* however flows overlap and replace each other's cookies.                  *)
LoginOwnFlow ==
  \A i \in 1..Len(sessions) : LET l == sessions[i].login IN
    l # NotALogin => flows[l.flow].browser = l.browser /\ l.at <= flows[l.flow].exp

(* One person, one actor: whatever first logins race and whatever actors    *)
(* are deleted in between, a session is of an actor that exists, and the    *)
(* session of a login is of the actor its person has now.                   *)
OnePersonOneActor ==
  \A i \in 1..Len(sessions) : LET x == sessions[i] IN
    x.live => /\ rows[x.actor].alive
              /\ x.login # NotALogin => identities[x.login.ident] = x.actor

(* A first login that loses the race leaves no actor behind that nobody can *)
(* log in as.                                                               *)
NoOrphanActor ==
  \A a \in Actors \ {Dev} : rows[a].alive => \E i \in Idents : identities[i] = a

(* "A second claim -> 409": unless claims overlap or the first admin is     *)
(* demoted or deleted, one actor at most has claimed the platform.          *)
OneFirstAdmin == contested \/ Cardinality(claimants \ {Dev}) <= 1
=============================================================================
