---------------------------- MODULE StripeConnect ----------------------------
(***************************************************************************)
(* Payout accounts at the fiat paygate (services/paygate/src/lib.rs): which *)
(* provider identity is bound to which Stripe Connect account.  A provider *)
(* gets an account by onboarding, replaces it by rotation, shares another  *)
(* provider's by relink (both sign; the holder of a Standard account also  *)
(* consents through OAuth), or adopts a Standard account by OAuth alone.   *)
(*                                                                         *)
(* The account log, the consent log, the log of attempted code exchanges   *)
(* and the deauthorisations are on disk before memory changes; indexes and *)
(* the claims of running requests are lost in a crash.  Onboarding keeps   *)
(* the store locked while it talks to Stripe, so it is one step; the OAuth *)
(* flow gives the lock up at every await, so each of its stages is one.    *)
(* The answer to a consent comes back through the browser or, where a      *)
(* bridge is configured, only through the loop that polls it.  A request   *)
(* whose connection closes is dropped at any await, and what it claimed    *)
(* stays claimed.  An append to the account log may fail with nothing, all *)
(* or a part of its line on disk; one to the other logs, with nothing.     *)
(*                                                                         *)
(* Countries, live and test mode, signatures and readiness are left out: a *)
(* check that may refuse for such a reason refuses nondeterministically.   *)
(* Definitions marked "Mutant" are faulty variants no action uses.         *)
(***************************************************************************)
EXTENDS Integers, Sequences, FiniteSets

CONSTANTS
    Providers,     \* provider identities
    Accounts,      \* Stripe accounts
    Makeable,      \* the accounts Stripe may create for the paygate
    Standard,      \* the accounts of type Standard
    Nonces,        \* request nonces
    RotationNonces,  \* the request nonces of rotations
    Codes,         \* OAuth authorization codes
    Requests,      \* requests served at a time
    Bridge,        \* the OAuth bridge loop
    None,
    MaxConsents, MaxDeauthorizations, MaxFaults, MaxCrashes  \* bounds on the environment

ASSUME ConnectAssumption ==
    /\ Makeable \subseteq Accounts /\ Standard \subseteq Accounts
    /\ None \notin Providers \cup Accounts \cup Nonces \cup RotationNonces \cup Codes
    /\ Bridge \notin Requests
    /\ MaxConsents \in Nat /\ MaxDeauthorizations \in Nat
    /\ MaxFaults \in Nat /\ MaxCrashes \in Nat

VARIABLES
    bridged,      \* configuration: connect_oauth_bridge_url is set
    made,         \* Stripe: the account created for an idempotency key
    codes,        \* Stripe: the consent and the account behind a code
    presented,    \* Stripe: the consents and codes presented, in order
    answers,      \* history: the account each successful exchange gave a consent
    log,          \* the account log
    failed,       \* history: the lines whose append failed
    started,      \* history: the length of the log at the last start
    store,        \* StripeConnectStore: current accounts, bindings, requests
    deauthorized, \* deauthorised accounts, on disk and in memory
    consents,     \* the consent log
    attempts,     \* the log of attempted exchanges
    expired,      \* consents past their expires_at
    processing,   \* consents some request is working on
    task, up, deauthorizations, faults, crashes

vars == <<bridged, made, codes, presented, answers, log, failed, started, store, deauthorized,
          consents, attempts, expired, processing, task, up, deauthorizations, faults, crashes>>
stripe == <<made, codes, presented, answers>>
accounts == <<log, failed, started, store>>
bindings == <<accounts, deauthorized>>
consenting == <<consents, attempts, processing>>
machine == <<bridged, up, deauthorizations, crashes>>
environment == <<machine, expired, faults>>

Handlers == Requests \cup {Bridge}
Consents == Providers \X Nonces
NoConsent == [source |-> None, account |-> None, done |-> FALSE]
Idle == [step |-> "idle", id |-> None, code |-> None, renews |-> None, account |-> None]
EmptyStore ==
    [current |-> [p \in Providers |-> None], bound |-> {}, requests |-> {}, sound |-> TRUE]

\* A part of a line: it cannot be parsed, and neither can the line it runs into.
Torn == [provider |-> None, account |-> None, nonce |-> None, previous |-> None, at |-> 0]
Bindings == [provider: Providers, account: Accounts, nonce: Nonces \cup RotationNonces,
             previous: Accounts \cup {None}, at: Nat]
Steps == {"idle", "target", "agreed", "begin", "check", "claim", "exchange", "verify", "insert",
          "linked", "failed", "terminal"}
Tasks == [step: Steps, id: Consents \cup {None}, code: Codes \cup {None},
          renews: Accounts \cup {None}, account: Accounts \cup {None}]

TypeOK ==
    /\ bridged \in BOOLEAN
    /\ made \in [Providers \X (Nonces \cup RotationNonces \cup {None}) -> Accounts \cup {None}]
    /\ codes \in [Codes -> [source: Consents \cup {None}, account: Accounts \cup {None},
                            done: BOOLEAN]]
    /\ presented \in Seq(Consents \X Codes) /\ answers \subseteq Consents \X Accounts
    /\ log \in Seq(Bindings \cup {Torn})
    /\ failed \subseteq DOMAIN log /\ started \in 0..Len(log)
    /\ store \in [current: [Providers -> Accounts \cup {None}],
                  bound: SUBSET (Providers \X Accounts), requests: SUBSET Bindings,
                  sound: BOOLEAN]
    /\ deauthorized \subseteq Accounts
    /\ consents \in [Consents -> [source: Providers \cup {None}, account: Accounts \cup {None},
                                  done: BOOLEAN]]
    /\ attempts \subseteq Consents \X Codes
    /\ expired \subseteq Consents /\ processing \subseteq Consents
    /\ task \in [Handlers -> Tasks]
    /\ up \in BOOLEAN
    /\ deauthorizations \in 0..MaxDeauthorizations
    /\ faults \in 0..MaxFaults /\ crashes \in 0..MaxCrashes

Init ==
    /\ bridged \in BOOLEAN
    /\ made = [k \in Providers \X (Nonces \cup RotationNonces \cup {None}) |-> None]
    /\ codes = [c \in Codes |-> NoConsent] /\ presented = <<>> /\ answers = {}
    /\ log = <<>> /\ failed = {} /\ started = 0
    /\ store = EmptyStore /\ deauthorized = {}
    /\ consents = [id \in Consents |-> NoConsent]
    /\ attempts = {} /\ expired = {} /\ processing = {}
    /\ task = [h \in Handlers |-> Idle]
    /\ up = TRUE /\ deauthorizations = 0 /\ faults = 0 /\ crashes = 0

-----------------------------------------------------------------------------
(* The account store.                                                      *)

\* The record of a request.  A retry of one whose append failed may fall into the same
\* second, and is then the same line, or into another.
Recs(p, a, n, previous) ==
    LET tried == {i \in DOMAIN log : log[i].provider = p /\ log[i].nonce = n}
    IN  [provider: {p}, account: {a}, nonce: {n}, previous: {previous},
         at: 0..Cardinality(tried)]

Bound(s, a) == \E p \in Providers : <<p, a>> \in s.bound

\* index_record; request nonces are kept per provider with the record they made.
Indexed(s, r) ==
    [s EXCEPT !.current[r.provider] = r.account,
              !.bound = @ \cup {<<r.provider, r.account>>},
              !.requests = @ \cup {r}]

\* load_record refuses a log line that cannot be parsed, reuses a nonce, repeats a binding,
\* or replaces an account other than the one it names.
Acceptable(s, r) ==
    /\ r # Torn
    /\ \A q \in s.requests : ~(q.provider = r.provider /\ q.nonce = r.nonce)
    /\ r.previous = None => s.current[r.provider] \in {None, r.account}
    /\ r.previous # None => s.current[r.provider] = r.previous
    /\ <<r.provider, r.account>> \notin s.bound

\* A line that repeats a record exactly is passed over.
Read(s, r) ==
    IF r \in s.requests THEN s
    ELSE IF Acceptable(s, r) THEN Indexed(s, r) ELSE [s EXCEPT !.sound = FALSE]

\* What load makes of the log without the lines in skip.
Loaded(skip) ==
    LET upTo[n \in 0..Len(log)] ==
            IF n = 0 THEN EmptyStore
            ELSE IF n \in skip THEN upTo[n - 1] ELSE Read(upTo[n - 1], log[n])
    IN  upTo[Len(log)]

Append1(line) == log' = Append(log, line)

Insert(r) ==
    /\ Append1(r) /\ store' = Indexed(store, r)
    /\ UNCHANGED <<failed, started, faults>>

\* persist_record fails: nothing, all or a part of the line is on disk, and memory is as
\* before.
InsertFails(r) ==
    /\ faults < MaxFaults /\ faults' = faults + 1
    /\ \/ UNCHANGED <<log, failed>>
       \/ \E line \in {r, Torn} : Append1(line) /\ failed' = failed \cup {Len(log) + 1}
    /\ UNCHANGED <<started, store>>

\* stripe_create_connect_account: one account per idempotency key, however often asked.
Creates(p, n, a) ==
    /\ IF made[<<p, n>>] = None
       THEN a \in Makeable /\ \A k \in DOMAIN made : made[k] # a
       ELSE a = made[<<p, n>>]
    /\ made' = [made EXCEPT ![<<p, n>>] = a]

\* A provider without an account; the process may stop between Stripe and the log.
Onboard(p, n, a) ==
    /\ up /\ store.current[p] = None
    /\ Creates(p, None, a)
    /\ \/ ~Bound(store, a) /\ \E r \in Recs(p, a, n, None) : Insert(r) \/ InsertFails(r)
       \/ UNCHANGED <<accounts, faults>>
    /\ UNCHANGED <<codes, presented, answers, deauthorized, consenting, task, machine, expired>>

\* Mutant: a rotation does not ask whether its nonce was used.
NonceFreeAlways(p, n) == TRUE

NonceFree(p, n) == \A r \in store.requests : r.provider # p \/ r.nonce # n

\* A rotation names the account it replaces; a repeated request finds its record.
Rotate(p, n, previous, a) ==
    /\ up /\ NonceFree(p, n)
    /\ store.current[p] = previous
    /\ Creates(p, n, a)
    /\ \/ /\ a # previous /\ ~Bound(store, a)
          /\ \E r \in Recs(p, a, n, previous) : Insert(r) \/ InsertFails(r)
       \/ UNCHANGED <<accounts, faults>>
    /\ UNCHANGED <<codes, presented, answers, deauthorized, consenting, task, machine, expired>>

\* account.application.deauthorized, for an account some provider is bound to; only the
\* holder of a Standard account can revoke the platform's access.
Deauthorize(a) ==
    /\ up /\ Bound(store, a) /\ a \in Standard
    /\ deauthorizations < MaxDeauthorizations
    /\ deauthorizations' = deauthorizations + 1
    /\ deauthorized' = deauthorized \cup {a}
    /\ UNCHANGED <<stripe, accounts, consenting, task, bridged, up, crashes, expired, faults>>

-----------------------------------------------------------------------------
(* The consent store.                                                      *)

Known(id) == consents[id] # NoConsent
IsAdoption(id) == consents[id].source = id[1]

\* insert_pending: a nonce names one consent for ever.
PendingConsent(id, source, a) ==
    \/ consents[id] = NoConsent
       /\ Cardinality({other \in Consents : Known(other)}) < MaxConsents
       /\ consents' = [consents EXCEPT ![id] =
                          [source |-> source, account |-> a, done |-> FALSE]]
    \/ consents[id].source = source /\ consents[id].account = a /\ UNCHANGED consents

\* complete: the consent is closed for good, and nobody works on it.
Complete(id) ==
    /\ processing' = processing \ {id}
    /\ consents' = [consents EXCEPT ![id].done = TRUE]

\* The request gives its claim up and leaves the consent as it is.
Fail(id) == processing' = processing \ {id} /\ UNCHANGED consents

\* One of the other logs refuses a line.
AppendFails == faults < MaxFaults /\ faults' = faults + 1

\* Time passes a consent's expires_at; it is only looked at once the holder has answered.
Expire(id) ==
    /\ id \notin expired /\ \E c \in Codes : codes[c].source = id
    /\ expired' = expired \cup {id}
    /\ UNCHANGED <<stripe, bindings, consenting, task, machine, faults>>

\* complete may fail to append: the claim is gone, the consent still pending.
Closes(id) == (Complete(id) /\ UNCHANGED faults) \/ (Fail(id) /\ AppendFails)

Goes(h, step) == task' = [task EXCEPT ![h].step = step]
Ends(h) == task' = [task EXCEPT ![h] = Idle]

\* create_connect_relink, up to the stored consent.
Relink(h, q, n, source, a) ==
    /\ up /\ task[h] = Idle
    /\ q # source /\ <<source, a>> \in store.bound
    /\ PendingConsent(<<q, n>>, source, a)
    /\ task' = [task EXCEPT ![h] = [Idle EXCEPT !.step = "target", !.id = <<q, n>>]]
    /\ UNCHANGED <<stripe, bindings, attempts, processing, environment>>

\* What the target is bound to decides, before Stripe is asked about the account.
RelinkTarget(h) ==
    LET id == task[h].id
        a == consents[id].account
        held == store.current[id[1]]
    IN  /\ task[h].step = "target"
        /\ \/ held \notin {None, a} /\ Ends(h) /\ UNCHANGED <<consents, processing, faults>>
           \/ held = a /\ Ends(h)
              /\ \/ UNCHANGED <<consents, processing, faults>>
                 \/ a \notin deauthorized /\ Closes(id)
           \/ held = None /\ a \notin deauthorized /\ Goes(h, "agreed")
              /\ UNCHANGED <<consents, processing, faults>>
           \/ held = None /\ Ends(h) /\ UNCHANGED <<consents, processing, faults>>
        /\ UNCHANGED <<stripe, bindings, attempts, machine, expired>>

\* Two signatures suffice for an account the paygate made; a Standard one needs OAuth.
RelinkAgreed(h) ==
    LET id == task[h].id
    IN  /\ task[h].step = "agreed"
        /\ IF consents[id].account \in Standard \/ consents[id].done \/ id \in processing
           THEN Ends(h) /\ UNCHANGED processing
           ELSE /\ processing' = processing \cup {id}
                /\ task' = [task EXCEPT ![h].step = "insert", ![h].account = consents[id].account]
        /\ UNCHANGED <<stripe, bindings, consents, attempts, environment>>

\* create_connect_adopt: a provider without an account, or with one it must authorise again.
Adopt(p, n) ==
    /\ up
    /\ LET held == store.current[p]
       IN  held = None \/ held \in Standard \cap deauthorized
    /\ PendingConsent(<<p, n>>, p, None)
    /\ UNCHANGED <<stripe, bindings, attempts, processing, task, environment>>

-----------------------------------------------------------------------------
(* The OAuth flow.                                                         *)

\* The holder of account a follows the link of a consent and gets a code.
Authorize(c, id, a) ==
    /\ codes[c] = NoConsent /\ Known(id)
    /\ IsAdoption(id) \/ consents[id].account \in Standard
    /\ codes' = [codes EXCEPT ![c] = [source |-> id, account |-> a, done |-> TRUE]]
    /\ UNCHANGED <<made, presented, answers, bindings, consenting, task, environment>>

\* The browser comes back, or, where a bridge is configured, its loop polls a consent that
\* is still pending.  State and code are two parameters of the answer.
Return(h, id, c) ==
    /\ up /\ task[h] = Idle
    /\ bridged <=> h = Bridge
    /\ codes[c] # NoConsent /\ Known(id)
    /\ h = Bridge => ~consents[id].done /\ id \notin processing \cup expired
    /\ task' = [task EXCEPT ![h] = [Idle EXCEPT !.step = "begin", !.id = id, !.code = c]]
    /\ UNCHANGED <<stripe, bindings, consenting, environment>>

\* The server drops the request of a closed connection at whatever it awaits.
Drop(h) ==
    /\ task[h] # Idle
    /\ Ends(h)
    /\ UNCHANGED <<stripe, bindings, consenting, environment>>

Begin(h) ==
    LET id == task[h].id
    IN  /\ task[h].step = "begin"
        /\ IF consents[id].done THEN Ends(h) /\ UNCHANGED processing
           ELSE IF id \in processing
                THEN (IF h = Bridge THEN Goes(h, "terminal") ELSE Ends(h)) /\ UNCHANGED processing
                ELSE processing' = processing \cup {id} /\ Goes(h, "check")
        /\ UNCHANGED <<stripe, bindings, consents, attempts, environment>>

\* The binding as it stands now: already there, replaceable, or in the way.
AlreadyLinked(id) ==
    IF IsAdoption(id)
    THEN /\ store.current[id[1]] \in Standard \ deauthorized
         /\ \E r \in store.requests :
               r.provider = id[1] /\ r.nonce = id[2] /\ r.account = store.current[id[1]]
    ELSE store.current[id[1]] = consents[id].account

Renews(id) == IsAdoption(id) /\ store.current[id[1]] \in Standard \cap deauthorized

Check(h) ==
    LET id == task[h].id
    IN  /\ task[h].step = "check"
        /\ \/ id \notin expired /\ AlreadyLinked(id) /\ Goes(h, "linked")
           \/ /\ id \notin expired /\ ~AlreadyLinked(id)
              /\ store.current[id[1]] = None \/ Renews(id)
              /\ task' = [task EXCEPT ![h].step = "claim",
                             ![h].renews = IF Renews(id) THEN store.current[id[1]] ELSE None]
           \/ Goes(h, "failed")  \* expired, denied, without scope, or in the way
        /\ UNCHANGED <<stripe, bindings, consenting, environment>>

\* Mutant: only the claim of a running request is asked, not the log of attempts.
ClaimableRunning(id, c) == id \in processing

\* claim_oauth_exchange: neither the consent nor the code was ever tried.
Claimable(id, c) == \A t \in attempts : t[1] # id /\ t[2] # c

Claim(h) ==
    LET id == task[h].id
    IN  /\ task[h].step = "claim"
        /\ \/ /\ Claimable(id, task[h].code)
              /\ attempts' = attempts \cup {<<id, task[h].code>>}
              /\ Goes(h, "exchange") /\ UNCHANGED faults
           \/ ~Claimable(id, task[h].code) /\ Goes(h, "failed") /\ UNCHANGED <<attempts, faults>>
           \/ AppendFails /\ Goes(h, "failed") /\ UNCHANGED attempts
        /\ UNCHANGED <<stripe, bindings, consents, processing, machine, expired>>

\* Stripe answers the first presentation of a code; the answer may be lost.
Exchange(h) ==
    LET id == task[h].id
        c == task[h].code
        a == codes[c].account
    IN  /\ task[h].step = "exchange"
        /\ presented' = Append(presented, <<id, c>>)
        /\ \/ /\ \A i \in DOMAIN presented : presented[i][2] # c
              /\ answers' = answers \cup {<<id, a>>}
              /\ task' = [task EXCEPT ![h].step = "verify", ![h].account = a]
           \/ UNCHANGED answers /\ Goes(h, "failed")
        /\ UNCHANGED <<made, codes, bindings, consenting, environment>>

\* Mutant: a relink believes whatever account answered.
AnyAccount(h) == TRUE

\* The account the holder chose must be the one the consent is about.
RightAccount(h) ==
    LET id == task[h].id
    IN  IF IsAdoption(id)
        THEN /\ task[h].account \in Standard
             /\ task[h].renews # None => task[h].account = task[h].renews
        ELSE task[h].account = consents[id].account /\ task[h].account \notin deauthorized

Verify(h) ==
    /\ task[h].step = "verify"
    /\ \/ RightAccount(h) /\ Goes(h, "insert")
       \/ Goes(h, "failed")
    /\ UNCHANGED <<stripe, bindings, consenting, environment>>

\* insert_created takes an account nobody has; insert_relinked one its source still has.
Insertable(id, a) ==
    /\ store.current[id[1]] = None
    /\ IF IsAdoption(id) THEN ~Bound(store, a) ELSE <<consents[id].source, a>> \in store.bound

Bind(h) ==
    LET id == task[h].id
        a == task[h].account
    IN  /\ task[h].step = "insert"
        /\ \/ /\ task[h].renews # None
              /\ deauthorized' = deauthorized \ {a}
              /\ Goes(h, "linked") /\ UNCHANGED <<accounts, faults>>
           \/ /\ task[h].renews # None /\ AppendFails
              /\ Goes(h, "failed") /\ UNCHANGED bindings
           \/ /\ task[h].renews = None /\ Insertable(id, a)
              /\ \E r \in Recs(id[1], a, id[2], None) :
                    \/ Insert(r) /\ Goes(h, "linked")
                    \/ InsertFails(r) /\ Goes(h, "failed")
              /\ UNCHANGED deauthorized
           \/ /\ task[h].renews = None /\ ~Insertable(id, a)
              /\ Goes(h, IF ~IsAdoption(id) /\ store.current[id[1]] = a THEN "linked" ELSE "failed")
              /\ UNCHANGED <<bindings, faults>>
        /\ UNCHANGED <<stripe, consenting, machine, expired>>

\* Mutant: the bridge too leaves a failed consent pending.
FinishReleases(h) ==
    LET id == task[h].id
    IN  /\ \/ task[h].step \in {"linked", "terminal"} /\ Closes(id) /\ Ends(h)
           \/ task[h].step = "failed" /\ Fail(id) /\ Ends(h) /\ UNCHANGED faults
        /\ UNCHANGED <<stripe, bindings, attempts, machine, expired>>

\* Success closes the consent.  For the bridge a failure is terminal too, and it closes
\* the consent once it has the lock again.
Finish(h) ==
    LET id == task[h].id
        Fails == IF h = Bridge THEN Goes(h, "terminal") ELSE Ends(h)
    IN  /\ \/ task[h].step \in {"linked", "terminal"} /\ Complete(id) /\ Ends(h) /\ UNCHANGED faults
           \/ task[h].step = "linked" /\ Fail(id) /\ AppendFails /\ Fails
           \/ task[h].step = "terminal" /\ Fail(id) /\ AppendFails /\ Ends(h)
           \/ task[h].step = "failed" /\ Fail(id) /\ Fails /\ UNCHANGED faults
        /\ UNCHANGED <<stripe, bindings, attempts, machine, expired>>

-----------------------------------------------------------------------------
Crash ==
    /\ up /\ crashes < MaxCrashes
    /\ crashes' = crashes + 1 /\ up' = FALSE
    /\ store' = EmptyStore /\ processing' = {}
    /\ task' = [h \in Handlers |-> Idle]
    /\ UNCHANGED <<stripe, log, failed, started, deauthorized, consents, attempts, expired, bridged,
                   deauthorizations, faults>>

\* load refuses a log it cannot read, and the process does not start.
Restart ==
    /\ ~up /\ Loaded({}).sound
    /\ up' = TRUE /\ store' = Loaded({}) /\ started' = Len(log)
    /\ UNCHANGED <<stripe, log, failed, deauthorized, consenting, task, expired, bridged,
                   deauthorizations, faults, crashes>>

Step(h) ==
    \/ RelinkTarget(h) \/ RelinkAgreed(h)
    \/ Begin(h) \/ Check(h) \/ Claim(h) \/ Exchange(h) \/ Verify(h) \/ Bind(h) \/ Finish(h)

Next ==
    \/ \E p \in Providers, n \in Nonces, a \in Accounts :
          Onboard(p, n, a)
    \/ \E p \in Providers, n \in RotationNonces, previous, a \in Accounts :
          Rotate(p, n, previous, a)
    \/ \E a \in Accounts : Deauthorize(a)
    \/ \E h \in Requests, q \in Providers, n \in Nonces, source \in Providers, a \in Accounts :
          Relink(h, q, n, source, a)
    \/ \E p \in Providers, n \in Nonces : Adopt(p, n)
    \/ \E c \in Codes, id \in Consents, a \in Accounts : Authorize(c, id, a)
    \/ \E h \in Handlers, id \in Consents, c \in Codes : Return(h, id, c)
    \/ \E h \in Handlers : Step(h)
    \/ \E h \in Requests : Drop(h)
    \/ \E id \in Consents : Expire(id)
    \/ Crash \/ Restart

Spec == Init /\ [][Next]_vars

\* The loop runs for ever and polls every pending consent, the bridge keeps an answer until
\* it is taken, and the service manager restarts the process.  Nothing is assumed of
\* requests: their client may close the connection.
Fairness ==
    /\ WF_vars(Restart) /\ WF_vars(Step(Bridge))
    /\ \A id \in Consents : SF_vars(\E c \in Codes : Return(Bridge, id, c))

FairSpec == Spec /\ Fairness

-----------------------------------------------------------------------------
(* Properties.                                                             *)

\* The lines of failed appends that memory has not read back at a start.
Unread == {i \in failed : i > started}

\* What memory holds is at every instant what load would make of the lines that were
\* appended without an error, or were read back at the last start: insert_created,
\* insert_rotated and insert_relinked accept in any order nothing that load_record refuses,
\* and a failed append changes nothing.  While no append has failed, a restart therefore
\* neither fails nor forgets; after one, it forgets no binding if it succeeds.
LogReloads ==
    /\ Loaded(Unread).sound
    /\ up => store = Loaded(Unread)
    /\ Loaded({}).sound => Loaded(Unread).bound \subseteq Loaded({}).bound

\* No code is presented to Stripe twice and no consent is: not under another state, with
\* another code, by a retry of a dropped request, or after a crash between
\* claim_oauth_exchange and the answer.
ExchangedOnce ==
    \A i, j \in DOMAIN presented :
        i # j => presented[i][1] # presented[j][1] /\ presented[i][2] # presented[j][2]

\* Every record of the account log is justified by what Stripe and the consent store hold:
\* the account was made for the provider, or an OAuth exchange answered the provider's
\* adoption with it, and in both cases no earlier record that was appended without an error
\* gave it to anyone; or an earlier record's provider signed it over, and for a Standard
\* account the exchange answered this consent with it.
BindingJustified ==
    \A i \in {k \in DOMAIN log : log[k] # Torn} :
        LET p == log[i].provider
            a == log[i].account
            id == <<p, log[i].nonce>>
            earlier == {k \in 1..i - 1 : log[k].account = a}
            free == earlier \subseteq failed
        IN  \/ free /\ \E n \in {None, log[i].nonce} : made[<<p, n>>] = a
            \/ free /\ a \in Standard /\ id \in Consents /\ IsAdoption(id) /\ <<id, a>> \in answers
            \/ /\ id \in Consents /\ consents[id].account = a
               /\ \E k \in earlier : consents[id].source = log[k].provider
               /\ a \in Standard => <<id, a>> \in answers

\* Where a bridge is configured, a consent whose holder answered comes to an end: the loop
\* closes it whether the exchange succeeds or fails, after a crash and after a failed append
\* too, unless it expires first or the paygate cannot start on its account log.
ConsentEnds ==
    \A id \in Consents :
        bridged /\ (\E c \in Codes : codes[c].source = id)
            ~> consents[id].done \/ id \in expired \/ ~Loaded({}).sound
=============================================================================
