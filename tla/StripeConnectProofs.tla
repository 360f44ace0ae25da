------------------------- MODULE StripeConnectProofs -------------------------
(***************************************************************************)
(* Theorems about the payout accounts of the paygate, for any number of    *)
(* providers, accounts, codes, requests and crashes.                       *)
(*                                                                         *)
(* ExchangedOnce is about what Stripe has seen; the log of attempts is     *)
(* what makes it true.  ExchangeInv ties the two: every presentation was   *)
(* claimed before, no two claims share a consent or a code, and a claim    *)
(* that is not yet presented has one handler at most.                      *)
(*                                                                         *)
(* LogReloads and BindingJustified are about the account log.  Loaded is a *)
(* recursion over it; the second part shows, by induction over the lines,  *)
(* that reading one more line is one more step of it, and that a sound     *)
(* reading holds exactly the bindings of its lines.  ConnectInv then says  *)
(* that the store is the reading of the log without the lines of failed    *)
(* appends it has not read back, that what a handler has established on    *)
(* its way to a binding still holds when it binds, and that no step takes  *)
(* evidence back.                                                          *)
(***************************************************************************)
EXTENDS StripeConnect, SumProofs, TLAPS

ConsentType == [source: Providers \cup {None}, account: Accounts \cup {None}, done: BOOLEAN]
CodeType    == [source: Consents \cup {None}, account: Accounts \cup {None}, done: BOOLEAN]

\* The types of the flow; a handler under way has a consent, and up to the answer a code.
FlowTypes ==
    /\ codes \in [Codes -> CodeType]
    /\ \A c \in Codes : codes[c] # NoConsent => codes[c].source \in Consents
    /\ consents \in [Consents -> ConsentType]
    /\ task \in [Handlers -> Tasks]
    /\ \A h \in Handlers : task[h].step # "idle" => task[h].id \in Consents
    /\ \A h \in Handlers :
          task[h].step \in {"begin", "check", "claim", "exchange"} => task[h].code \in Codes
    /\ presented \in Seq(Consents \X Codes)
    /\ attempts \subseteq Consents \X Codes

Claimed(h) == <<task[h].id, task[h].code>>

\* Claims have neither a consent nor a code in common.
ClaimsDiffer == \A s, t \in attempts : s[1] = t[1] \/ s[2] = t[2] => s = t

\* What was presented was claimed, and presented once.
PresentedClaims ==
    /\ \A i \in DOMAIN presented : presented[i] \in attempts
    /\ \A i, j \in DOMAIN presented : presented[i] = presented[j] => i = j

\* A handler about to present a claim is the only one to do so.
ExchangerAlone ==
    \A h \in Handlers : task[h].step = "exchange" =>
        /\ Claimed(h) \in attempts
        /\ \A i \in DOMAIN presented : presented[i] # Claimed(h)
        /\ \A g \in Handlers : task[g].step = "exchange" /\ Claimed(g) = Claimed(h) => g = h

ExchangeInv == FlowTypes /\ ClaimsDiffer /\ PresentedClaims /\ ExchangerAlone

flow == <<codes, consents, task, presented, attempts>>

----------------------------------------------------------------------------
(* Types.                                                                  *)

\* The types of the empty values.
LEMMA IdleTyped == Idle \in Tasks /\ NoConsent \in ConsentType /\ NoConsent \in CodeType
                   /\ Idle.step = "idle"
BY DEF Idle, Tasks, Steps, NoConsent, ConsentType, CodeType

\* The next step of a handler leaves the rest of its task alone.
LEMMA GoesTyped ==
    ASSUME FlowTypes, NEW h \in Handlers, NEW s \in Steps, Goes(h, s)
    PROVE  /\ task' \in [Handlers -> Tasks]
           /\ task'[h].step = s /\ task'[h].id = task[h].id /\ task'[h].code = task[h].code
           /\ \A g \in Handlers : g # h => task'[g] = task[g]
BY DEF Goes, FlowTypes, Tasks

\* A handler that ends is idle, and the others stay.
LEMMA EndsTyped ==
    ASSUME FlowTypes, NEW h \in Handlers, Ends(h)
    PROVE  /\ task' \in [Handlers -> Tasks] /\ task'[h] = Idle
           /\ \A g \in Handlers : g # h => task'[g] = task[g]
BY IdleTyped DEF Ends, FlowTypes

\* insert_pending keeps the types of consents.
LEMMA PendingTyped ==
    ASSUME FlowTypes, NEW id \in Consents, NEW source \in Providers,
           NEW a \in Accounts \cup {None}, PendingConsent(id, source, a)
    PROVE  consents' \in [Consents -> ConsentType]
<1>. DEFINE k == [source |-> source, account |-> a, done |-> FALSE]
<1>1. k \in ConsentType
  BY DEF ConsentType
<1>2. consents' = consents \/ consents' = [consents EXCEPT ![id] = k]
  BY DEF PendingConsent
<1>. HIDE DEF k
<1>. QED  BY <1>1, <1>2 DEF FlowTypes

\* complete keeps the types of consents.
LEMMA CompleteTyped ==
    ASSUME FlowTypes, NEW id \in Consents, Complete(id)
    PROVE  consents' \in [Consents -> ConsentType]
BY DEF Complete, FlowTypes, ConsentType

\* A step that moves one handler, to another place than "exchange" and with the same consent
\* and code or none, keeps everything.
LEMMA QuietMove ==
    ASSUME ExchangeInv, NEW h \in Handlers,
           codes' = codes, presented' = presented, attempts' = attempts,
           consents' \in [Consents -> ConsentType],
           task' \in [Handlers -> Tasks], task'[h].step # "exchange",
           task'[h].step # "idle" => task'[h].id \in Consents,
           task'[h].step \in {"begin", "check", "claim"} => task'[h].code \in Codes,
           \A g \in Handlers : g # h => task'[g] = task[g]
    PROVE  ExchangeInv'
<1>1. FlowTypes'
  BY DEF ExchangeInv, FlowTypes
<1>2. ClaimsDiffer' /\ PresentedClaims'
  BY DEF ExchangeInv, ClaimsDiffer, PresentedClaims
<1>3. ExchangerAlone'
  BY DEF ExchangeInv, ExchangerAlone, Claimed
<1>. QED  BY <1>1, <1>2, <1>3 DEF ExchangeInv

\* A step outside the flow keeps the invariant.
LEMMA FlowIdle ==
    ASSUME ExchangeInv, UNCHANGED flow
    PROVE  ExchangeInv'
BY DEF ExchangeInv, flow, FlowTypes, ClaimsDiffer, PresentedClaims, ExchangerAlone, Claimed

----------------------------------------------------------------------------
(* Steps.                                                                  *)

\* A claim shares neither consent nor code with an earlier one.
LEMMA ClaimStep ==
    ASSUME ExchangeInv, NEW h \in Handlers, Claim(h)
    PROVE  ExchangeInv'
<1>0. /\ FlowTypes /\ task[h].step = "claim" /\ task[h].id \in Consents /\ task[h].code \in Codes
  BY DEF ExchangeInv, FlowTypes, Claim
<1>1. UNCHANGED <<codes, consents, presented>>
  BY DEF Claim, stripe
<1>2. CASE Claimable(task[h].id, task[h].code) /\ attempts' = attempts \cup {Claimed(h)}
           /\ Goes(h, "exchange")
  <2>1. attempts' = attempts \cup {Claimed(h)} /\ Goes(h, "exchange")
    BY <1>2
  <2>2. /\ task' \in [Handlers -> Tasks]
        /\ task'[h].step = "exchange" /\ task'[h].id = task[h].id /\ task'[h].code = task[h].code
        /\ \A g \in Handlers : g # h => task'[g] = task[g]
    BY <1>0, <2>1, GoesTyped DEF Steps
  <2>3. Claimed(h) \in Consents \X Codes /\ Claimed(h)[1] = task[h].id /\ Claimed(h)[2] = task[h].code
    BY <1>0 DEF Claimed
  <2>4. \A t \in attempts : t[1] # Claimed(h)[1] /\ t[2] # Claimed(h)[2]
    BY <1>2, <2>3 DEF Claimable
  <2>5. Claimed(h) \notin attempts
    BY <2>4
  <2>6. FlowTypes'
    BY <1>0, <1>1, <2>1, <2>2, <2>3 DEF FlowTypes
  <2>7. ClaimsDiffer'
    BY <2>1, <2>4 DEF ExchangeInv, ClaimsDiffer
  <2>8. PresentedClaims'
    BY <1>1, <2>1 DEF ExchangeInv, PresentedClaims
  <2>9. Claimed(h)' = Claimed(h) /\ \A g \in Handlers : g # h => Claimed(g)' = Claimed(g)
    BY <2>2 DEF Claimed
  <2>10. ExchangerAlone'
    BY <1>0, <1>1, <2>1, <2>2, <2>5, <2>9 DEF ExchangeInv, ExchangerAlone, PresentedClaims
  <2>. QED  BY <2>6, <2>7, <2>8, <2>10 DEF ExchangeInv
<1>3. CASE attempts' = attempts /\ Goes(h, "failed")
  BY <1>0, <1>1, <1>3, GoesTyped, QuietMove DEF Steps, FlowTypes
<1>. QED  BY <1>2, <1>3 DEF Claim, Claimed

\* An exchange presents a claim for the first time.
LEMMA ExchangeStep ==
    ASSUME ExchangeInv, NEW h \in Handlers, Exchange(h)
    PROVE  ExchangeInv'
<1>0. /\ FlowTypes /\ task[h].step = "exchange" /\ task[h].id \in Consents /\ task[h].code \in Codes
  BY DEF ExchangeInv, FlowTypes, Exchange
<1>1. /\ UNCHANGED <<codes, consents, attempts>>
      /\ presented' = Append(presented, Claimed(h))
  BY DEF Exchange, consenting, Claimed
<1>2. /\ task' \in [Handlers -> Tasks]
      /\ task'[h].step \in {"verify", "failed"} /\ task'[h].id = task[h].id
      /\ \A g \in Handlers : g # h => task'[g] = task[g]
  <2>1. codes[task[h].code].account \in Accounts \cup {None}
    BY <1>0 DEF FlowTypes, CodeType
  <2>2. CASE Goes(h, "failed")
    BY <1>0, <2>2, GoesTyped DEF Steps
  <2>3. CASE task' = [task EXCEPT ![h].step = "verify", ![h].account = codes[task[h].code].account]
    <3>. DEFINE b == codes[task[h].code].account
                k == [task[h] EXCEPT !.step = "verify", !.account = b]
    <3>1. task[h] \in Tasks
      BY <1>0 DEF FlowTypes
    <3>2. k \in Tasks /\ k.step = "verify" /\ k.id = task[h].id
      <4>. HIDE DEF b
      <4>. QED  BY <2>1, <3>1 DEF Tasks, Steps, b
    <3>3. task' = [task EXCEPT ![h] = k]
      BY <1>0, <2>3 DEF FlowTypes
    <3>. HIDE DEF k
    <3>. QED  BY <1>0, <3>2, <3>3 DEF FlowTypes
  <2>. QED  BY <2>2, <2>3 DEF Exchange
<1>3. Claimed(h) \in Consents \X Codes
  BY <1>0 DEF Claimed
<1>4. /\ presented \in Seq(Consents \X Codes) /\ presented' \in Seq(Consents \X Codes)
      /\ DOMAIN presented' = DOMAIN presented \cup {Len(presented) + 1}
      /\ Len(presented) + 1 \notin DOMAIN presented
      /\ presented'[Len(presented) + 1] = Claimed(h)
      /\ \A i \in DOMAIN presented : presented'[i] = presented[i]
  <2>1. presented \in Seq(Consents \X Codes) /\ Len(presented) \in Nat
        /\ DOMAIN presented = 1..Len(presented)
    BY <1>0 DEF FlowTypes
  <2>2. /\ presented' \in Seq(Consents \X Codes)
        /\ DOMAIN presented' = 1..(Len(presented) + 1)
        /\ presented'[Len(presented) + 1] = Claimed(h)
        /\ \A i \in 1..Len(presented) : presented'[i] = presented[i]
    BY <1>1, <1>3, <2>1
  <2>3. 1..(Len(presented) + 1) = (1..Len(presented)) \cup {Len(presented) + 1}
        /\ Len(presented) + 1 \notin 1..Len(presented)
    BY <2>1
  <2>. QED  BY <2>1, <2>2, <2>3
<1>5. /\ Claimed(h) \in attempts /\ \A i \in DOMAIN presented : presented[i] # Claimed(h)
      /\ \A g \in Handlers : task[g].step = "exchange" /\ Claimed(g) = Claimed(h) => g = h
  BY <1>0 DEF ExchangeInv, ExchangerAlone
<1>6. FlowTypes'
  BY <1>0, <1>1, <1>2, <1>4 DEF FlowTypes
<1>7. ClaimsDiffer'
  BY <1>1 DEF ExchangeInv, ClaimsDiffer
<1>8. PresentedClaims'
  BY <1>1, <1>4, <1>5 DEF ExchangeInv, PresentedClaims
<1>9. ExchangerAlone'
  <2>. SUFFICES ASSUME NEW g \in Handlers, task'[g].step = "exchange"
                PROVE  /\ Claimed(g)' \in attempts'
                       /\ \A i \in DOMAIN presented' : presented'[i] # Claimed(g)'
                       /\ \A f \in Handlers :
                             task'[f].step = "exchange" /\ Claimed(f)' = Claimed(g)' => f = g
    BY DEF ExchangerAlone
  <2>1. g # h /\ \A f \in Handlers : task'[f].step = "exchange" => f # h
    BY <1>2
  <2>2. \A f \in Handlers : f # h => task'[f] = task[f] /\ Claimed(f)' = Claimed(f)
    BY <1>2 DEF Claimed
  <2>3. /\ task[g].step = "exchange" /\ Claimed(g)' = Claimed(g) /\ Claimed(g) # Claimed(h)
    BY <1>5, <2>1, <2>2
  <2>4. \A f \in Handlers : task'[f].step = "exchange" /\ Claimed(f)' = Claimed(g)' => f = g
    BY <2>1, <2>2, <2>3 DEF ExchangeInv, ExchangerAlone
  <2>5. Claimed(g) \in attempts /\ \A i \in DOMAIN presented : presented[i] # Claimed(g)
    BY <2>3 DEF ExchangeInv, ExchangerAlone
  <2>6. \A i \in DOMAIN presented' : presented'[i] # Claimed(g)'
    BY <1>4, <2>3, <2>5
  <2>. QED  BY <1>1, <2>3, <2>4, <2>5, <2>6
<1>. QED  BY <1>6, <1>7, <1>8, <1>9 DEF ExchangeInv

\* Every step of a handler keeps the invariant.
LEMMA HandlerStep ==
    ASSUME ExchangeInv, NEW h \in Handlers, Step(h)
    PROVE  ExchangeInv'
<1>0. FlowTypes
  BY DEF ExchangeInv
<1>1. CASE RelinkTarget(h)
  <2>1. task[h].step = "target" /\ task[h].id \in Consents
    BY <1>0, <1>1 DEF RelinkTarget, FlowTypes
  <2>2. codes' = codes /\ presented' = presented /\ attempts' = attempts
    BY <1>1 DEF RelinkTarget, stripe
  <2>3. consents' \in [Consents -> ConsentType]
    <3>1. consents' = consents \/ Complete(task[h].id)
      BY <1>1 DEF RelinkTarget, Closes, Fail
    <3>. QED  BY <1>0, <2>1, <3>1, CompleteTyped DEF FlowTypes
  <2>4. Ends(h) \/ Goes(h, "agreed")
    BY <1>1 DEF RelinkTarget
  <2>. QED  BY <1>0, <2>1, <2>2, <2>3, <2>4, GoesTyped, EndsTyped, IdleTyped, QuietMove DEF Steps
<1>2. CASE RelinkAgreed(h)
  <2>1. task[h].step = "agreed" /\ task[h].id \in Consents
    BY <1>0, <1>2 DEF RelinkAgreed, FlowTypes
  <2>2. UNCHANGED <<codes, consents, presented, attempts>>
    BY <1>2 DEF RelinkAgreed, stripe
  <2>3. consents[task[h].id].account \in Accounts \cup {None}
    BY <1>0, <2>1 DEF FlowTypes, ConsentType
  <2>4. CASE Ends(h)
    BY <1>0, <2>1, <2>2, <2>4, EndsTyped, IdleTyped, QuietMove DEF FlowTypes
  <2>5. CASE task' = [task EXCEPT ![h].step = "insert", ![h].account = consents[task[h].id].account]
    <3>1. /\ task' \in [Handlers -> Tasks] /\ task'[h].step = "insert" /\ task'[h].id = task[h].id
          /\ \A g \in Handlers : g # h => task'[g] = task[g]
      BY <1>0, <2>3, <2>5, ZenonT(60) DEF FlowTypes, Tasks, Steps
    <3>. QED  BY <1>0, <2>1, <2>2, <3>1, QuietMove DEF FlowTypes
  <2>. QED  BY <1>2, <2>4, <2>5 DEF RelinkAgreed
<1>3. CASE Begin(h)
  <2>1. task[h].step = "begin" /\ task[h].id \in Consents /\ task[h].code \in Codes
    BY <1>0, <1>3 DEF Begin, FlowTypes
  <2>2. UNCHANGED <<codes, consents, presented, attempts>>
    BY <1>3 DEF Begin, stripe
  <2>3. Ends(h) \/ Goes(h, "terminal") \/ Goes(h, "check")
    BY <1>3 DEF Begin
  <2>. QED  BY <1>0, <2>1, <2>2, <2>3, GoesTyped, EndsTyped, IdleTyped, QuietMove
       DEF Steps, FlowTypes
<1>4. CASE Check(h)
  <2>1. task[h].step = "check" /\ task[h].id \in Consents /\ task[h].code \in Codes
    BY <1>0, <1>4 DEF Check, FlowTypes
  <2>2. UNCHANGED <<codes, consents, presented, attempts>>
    BY <1>4 DEF Check, stripe, consenting
  <2>. DEFINE a == IF Renews(task[h].id) THEN store.current[task[h].id[1]] ELSE None
  <2>3. a \in Accounts \cup {None}
    BY ConnectAssumption DEF Renews
  <2>4. CASE Goes(h, "linked") \/ Goes(h, "failed")
    BY <1>0, <2>1, <2>2, <2>4, GoesTyped, QuietMove DEF Steps, FlowTypes
  <2>5. CASE task' = [task EXCEPT ![h].step = "claim", ![h].renews = a]
    <3>. HIDE DEF a
    <3>1. /\ task' \in [Handlers -> Tasks] /\ task'[h].step = "claim"
          /\ task'[h].id = task[h].id /\ task'[h].code = task[h].code
          /\ \A g \in Handlers : g # h => task'[g] = task[g]
      BY <1>0, <2>3, <2>5, ZenonT(60) DEF FlowTypes, Tasks, Steps
    <3>. QED  BY <1>0, <2>1, <2>2, <3>1, QuietMove DEF FlowTypes
  <2>. QED  BY <1>4, <2>4, <2>5 DEF Check
<1>5. CASE Verify(h)
  <2>1. task[h].step = "verify" /\ task[h].id \in Consents
    BY <1>0, <1>5 DEF Verify, FlowTypes
  <2>2. UNCHANGED <<codes, consents, presented, attempts>>
    BY <1>5 DEF Verify, stripe, consenting
  <2>3. Goes(h, "insert") \/ Goes(h, "failed")
    BY <1>5 DEF Verify
  <2>. QED  BY <1>0, <2>1, <2>2, <2>3, GoesTyped, QuietMove DEF Steps, FlowTypes
<1>6. CASE Bind(h)
  <2>1. task[h].step = "insert" /\ task[h].id \in Consents
    BY <1>0, <1>6 DEF Bind, FlowTypes
  <2>2. UNCHANGED <<codes, consents, presented, attempts>>
    BY <1>6 DEF Bind, stripe, consenting
  <2>3. Goes(h, "linked") \/ Goes(h, "failed")
    BY <1>6 DEF Bind
  <2>. QED  BY <1>0, <2>1, <2>2, <2>3, GoesTyped, QuietMove DEF Steps, FlowTypes
<1>7. CASE Finish(h)
  <2>1. task[h].step # "idle" /\ task[h].id \in Consents
    BY <1>0, <1>7 DEF Finish, FlowTypes
  <2>2. codes' = codes /\ presented' = presented /\ attempts' = attempts
    BY <1>7 DEF Finish, stripe
  <2>3. consents' \in [Consents -> ConsentType]
    <3>1. consents' = consents \/ Complete(task[h].id)
      BY <1>7 DEF Finish, Fail
    <3>. QED  BY <1>0, <2>1, <3>1, CompleteTyped DEF FlowTypes
  <2>4. Ends(h) \/ Goes(h, "terminal")
    BY <1>7 DEF Finish
  <2>. QED  BY <1>0, <2>1, <2>2, <2>3, <2>4, GoesTyped, EndsTyped, IdleTyped, QuietMove DEF Steps
<1>. QED  BY <1>1, <1>2, <1>3, <1>4, <1>5, <1>6, <1>7, ClaimStep, ExchangeStep DEF Step

\* Every step keeps the invariant.
LEMMA ExchangeInvKept ==
    ASSUME ExchangeInv, [Next]_vars
    PROVE  ExchangeInv'
<1>0. FlowTypes
  BY DEF ExchangeInv
<1>1. ASSUME NEW p \in Providers, NEW n, NEW a, Onboard(p, n, a)
      PROVE  ExchangeInv'
  BY <1>1, FlowIdle DEF Onboard, flow, consenting
<1>2. ASSUME NEW p \in Providers, NEW n, NEW previous, NEW a, Rotate(p, n, previous, a)
      PROVE  ExchangeInv'
  BY <1>2, FlowIdle DEF Rotate, flow, consenting
<1>3. ASSUME NEW a, Deauthorize(a)
      PROVE  ExchangeInv'
  BY <1>3, FlowIdle DEF Deauthorize, flow, consenting, stripe
<1>4. ASSUME NEW h \in Requests, NEW q \in Providers, NEW n \in Nonces, NEW source \in Providers,
             NEW a \in Accounts, Relink(h, q, n, source, a)
      PROVE  ExchangeInv'
  <2>1. <<q, n>> \in Consents /\ h \in Handlers
    BY DEF Consents, Handlers
  <2>2. codes' = codes /\ presented' = presented /\ attempts' = attempts
    BY <1>4 DEF Relink, stripe
  <2>3. consents' \in [Consents -> ConsentType]
    BY <1>0, <1>4, <2>1, PendingTyped DEF Relink
  <2>. DEFINE k == [Idle EXCEPT !.step = "target", !.id = <<q, n>>]
  <2>4. k \in Tasks /\ k.step = "target" /\ k.id = <<q, n>>
    BY <2>1, IdleTyped DEF Tasks, Steps
  <2>5. task' = [task EXCEPT ![h] = k]
    BY <1>4 DEF Relink
  <2>. HIDE DEF k
  <2>6. /\ task' \in [Handlers -> Tasks] /\ task'[h] = k
        /\ \A g \in Handlers : g # h => task'[g] = task[g]
    BY <1>0, <2>1, <2>4, <2>5 DEF FlowTypes
  <2>. QED  BY <2>1, <2>2, <2>3, <2>4, <2>6, QuietMove
<1>5. ASSUME NEW p \in Providers, NEW n \in Nonces, Adopt(p, n)
      PROVE  ExchangeInv'
  <2>1. consents' \in [Consents -> ConsentType]
    BY <1>0, <1>5, PendingTyped DEF Adopt, Consents
  <2>2. UNCHANGED <<codes, task, presented, attempts>>
    BY <1>5 DEF Adopt, stripe
  <2>. QED  BY <2>1, <2>2
       DEF ExchangeInv, FlowTypes, ClaimsDiffer, PresentedClaims, ExchangerAlone, Claimed
<1>6. ASSUME NEW c \in Codes, NEW id \in Consents, NEW a \in Accounts, Authorize(c, id, a)
      PROVE  ExchangeInv'
  <2>1. codes' = [codes EXCEPT ![c] = [source |-> id, account |-> a, done |-> TRUE]]
        /\ UNCHANGED <<consents, task, presented, attempts>>
    BY <1>6 DEF Authorize, consenting
  <2>2. codes' \in [Codes -> CodeType]
        /\ \A d \in Codes : codes'[d] # NoConsent => codes'[d].source \in Consents
    BY <1>0, <2>1 DEF FlowTypes, CodeType
  <2>. QED  BY <2>1, <2>2
       DEF ExchangeInv, FlowTypes, ClaimsDiffer, PresentedClaims, ExchangerAlone, Claimed
<1>7. ASSUME NEW h \in Handlers, NEW id \in Consents, NEW c \in Codes, Return(h, id, c)
      PROVE  ExchangeInv'
  <2>1. UNCHANGED <<codes, consents, presented, attempts>>
    BY <1>7 DEF Return, stripe, consenting
  <2>. DEFINE k == [Idle EXCEPT !.step = "begin", !.id = id, !.code = c]
  <2>2. k \in Tasks /\ k.step = "begin" /\ k.id = id /\ k.code = c
    BY <2>1, IdleTyped DEF Tasks, Steps
  <2>3. task' = [task EXCEPT ![h] = k]
    BY <1>7 DEF Return
  <2>. HIDE DEF k
  <2>4. /\ task' \in [Handlers -> Tasks] /\ task'[h] = k
        /\ \A g \in Handlers : g # h => task'[g] = task[g]
    BY <1>0, <2>2, <2>3 DEF FlowTypes
  <2>. QED  BY <1>0, <2>1, <2>2, <2>4, QuietMove DEF FlowTypes
<1>8. ASSUME NEW h \in Handlers, Step(h)
      PROVE  ExchangeInv'
  BY <1>8, HandlerStep
<1>13. ASSUME NEW h \in Requests, Drop(h)
       PROVE  ExchangeInv'
  <2>1. h \in Handlers /\ Ends(h) /\ UNCHANGED <<codes, consents, presented, attempts>>
    BY <1>13 DEF Drop, Handlers, stripe, consenting
  <2>. QED  BY <1>0, <2>1, EndsTyped, IdleTyped, QuietMove DEF FlowTypes
<1>9. ASSUME NEW id, Expire(id)
      PROVE  ExchangeInv'
  BY <1>9, FlowIdle DEF Expire, flow, stripe, consenting
<1>10. CASE Crash
  <2>1. UNCHANGED <<codes, consents, presented, attempts>> /\ task' = [h \in Handlers |-> Idle]
    BY <1>10 DEF Crash, stripe
  <2>. QED  BY <2>1, IdleTyped
       DEF ExchangeInv, FlowTypes, ClaimsDiffer, PresentedClaims, ExchangerAlone
<1>11. CASE Restart
  BY <1>11, FlowIdle DEF Restart, flow, stripe, consenting
<1>12. CASE UNCHANGED vars
  BY <1>12, FlowIdle DEF vars, flow
<1>. QED
  BY <1>1, <1>2, <1>3, <1>4, <1>5, <1>6, <1>7, <1>8, <1>9, <1>10, <1>11, <1>12,
     <1>13 DEF Next

\* The initial states satisfy the invariant.
LEMMA ExchangeInvInit ==
    ASSUME Init
    PROVE  ExchangeInv
<1>1. FlowTypes
  BY IdleTyped DEF Init, FlowTypes
<1>. QED  BY <1>1, IdleTyped
     DEF Init, ExchangeInv, ClaimsDiffer, PresentedClaims, ExchangerAlone

\* No code is presented to Stripe twice and no consent is (ExchangedOnce), whatever requests,
\* bridge polls and crashes come between claim_oauth_exchange and the answer.
THEOREM CodesExchangedOnce == Spec => []ExchangedOnce
<1>1. Init => ExchangeInv
  BY ExchangeInvInit
<1>2. ExchangeInv /\ [Next]_vars => ExchangeInv'
  BY ExchangeInvKept
<1>3. ExchangeInv => ExchangedOnce
  BY DEF ExchangeInv, ClaimsDiffer, PresentedClaims, ExchangedOnce
<1>. QED  BY <1>1, <1>2, <1>3, PTL DEF Spec

----------------------------------------------------------------------------
(* Reading the account log.                                                *)

Lines == Bindings \cup {Torn}

\* Line k of the log l, unless it is to be skipped.
ReadLine(s, l, K, k) == IF k \in K THEN s ELSE Read(s, l[k])

\* g holds the store after every prefix of the log, up to n lines.
Prefixes(l, K, n, g) ==
    g = [k \in 0..n |-> IF k = 0 THEN EmptyStore ELSE ReadLine(g[k - 1], l, K, k)]

LoadOf(l, K) == (CHOOSE g : Prefixes(l, K, Len(l), g))[Len(l)]

\* Loaded is the reading of the log as it stands.
LEMMA LoadedReads ==
    ASSUME NEW K
    PROVE  Loaded(K) = LoadOf(log, K)
BY DEF Loaded, LoadOf, Prefixes, ReadLine

\* What a reading of a log says of its prefixes.
LEMMA PrefixValues ==
    ASSUME NEW l, NEW K, NEW n \in Nat, NEW g, Prefixes(l, K, n, g)
    PROVE  /\ g[0] = EmptyStore
           /\ \A k \in 1..n : g[k] = ReadLine(g[k - 1], l, K, k)
<1>1. \A k \in 0..n : g[k] = IF k = 0 THEN EmptyStore ELSE ReadLine(g[k - 1], l, K, k)
  <2>. DEFINE f == [k \in 0..n |-> IF k = 0 THEN EmptyStore ELSE ReadLine(g[k - 1], l, K, k)]
  <2>1. g = f
    BY DEF Prefixes
  <2>2. \A k \in 0..n : f[k] = IF k = 0 THEN EmptyStore ELSE ReadLine(g[k - 1], l, K, k)
    OBVIOUS
  <2>. HIDE DEF f
  <2>. QED  BY <2>1, <2>2, Zenon
<1>2. 0 \in 0..n /\ \A k \in 1..n : k \in 0..n /\ k # 0
  OBVIOUS
<1>. QED  BY <1>1, <1>2

\* A log can be read, line after line.
LEMMA PrefixesExist ==
    ASSUME NEW l, NEW K
    PROVE  \A n \in Nat : \E g : Prefixes(l, K, n, g)
<1>. DEFINE Done == {n \in Nat : \E g : Prefixes(l, K, n, g)}
<1>1. 0 \in Done
  <2>. DEFINE g == [k \in 0..0 |-> EmptyStore]
              f == [k \in 0..0 |-> IF k = 0 THEN EmptyStore ELSE ReadLine(g[k - 1], l, K, k)]
  <2>1. \A k \in 0..0 : k = 0
    OBVIOUS
  <2>2. g = f
    BY <2>1
  <2>3. Prefixes(l, K, 0, g)
    BY <2>2 DEF Prefixes
  <2>. QED  BY <2>3
<1>2. ASSUME NEW n \in Nat, n \in Done
      PROVE  n + 1 \in Done
  <2>1. PICK g : Prefixes(l, K, n, g)
    BY <1>2
  <2>. DEFINE m == n + 1
              h == [k \in 0..m |-> IF k = 0 THEN EmptyStore ELSE ReadLine(g[k - 1], l, K, k)]
              f == [k \in 0..m |-> IF k = 0 THEN EmptyStore ELSE ReadLine(h[k - 1], l, K, k)]
  <2>2. g[0] = EmptyStore /\ \A k \in 1..n : g[k] = ReadLine(g[k - 1], l, K, k)
    BY <2>1, PrefixValues
  <2>3. \A k \in 0..n : h[k] = g[k]
    BY <2>2
  <2>4. \A k \in 0..m : k # 0 => k - 1 \in 0..n
    OBVIOUS
  <2>5. \A k \in 0..m : k # 0 => h[k - 1] = g[k - 1]
    BY <2>3, <2>4
  <2>6. h = f
    BY <2>5
  <2>7. Prefixes(l, K, m, h)
    BY <2>6 DEF Prefixes
  <2>. QED  BY <2>7
<1>. HIDE DEF Done
<1>3. Nat \subseteq Done
  BY <1>1, <1>2, NatInductionSet
<1>. QED  BY <1>3 DEF Done

\* The first n lines are the same, and the same of them are skipped.
AgreeTo(l, K, k, J, n) == \A i \in 1..n : l[i] = k[i] /\ (i \in K <=> i \in J)

\* Two logs that agree on their first n lines read the same so far.
LEMMA PrefixesAgree ==
    ASSUME NEW l, NEW k, NEW K, NEW J, NEW n \in Nat, NEW m \in Nat, NEW g, NEW h, n <= m,
           Prefixes(l, K, n, g), Prefixes(k, J, m, h), AgreeTo(l, K, k, J, n)
    PROVE  g[n] = h[n]
<1>. DEFINE Done == {i \in Nat : i <= n => g[i] = h[i]}
<1>0. /\ g[0] = EmptyStore /\ \A i \in 1..n : g[i] = ReadLine(g[i - 1], l, K, i)
      /\ h[0] = EmptyStore /\ \A i \in 1..m : h[i] = ReadLine(h[i - 1], k, J, i)
  BY PrefixValues
<1>1. 0 \in Done
  BY <1>0
<1>2. ASSUME NEW i \in Nat, i \in Done
      PROVE  i + 1 \in Done
  <2>. SUFFICES ASSUME i + 1 <= n PROVE g[i + 1] = h[i + 1]
    OBVIOUS
  <2>1. g[i] = h[i] /\ i + 1 \in 1..n /\ i + 1 \in 1..m /\ (i + 1) - 1 = i
    BY <1>2
  <2>2. g[i + 1] = ReadLine(g[i], l, K, i + 1) /\ h[i + 1] = ReadLine(h[i], k, J, i + 1)
    BY <1>0, <2>1
  <2>3. l[i + 1] = k[i + 1] /\ (i + 1 \in K <=> i + 1 \in J)
    BY <2>1 DEF AgreeTo
  <2>. QED  BY <2>1, <2>2, <2>3 DEF ReadLine
<1>. HIDE DEF Done
<1>3. Nat \subseteq Done
  BY <1>1, <1>2, NatInductionSet
<1>. QED  BY <1>3 DEF Done

\* A reading is the last of the stores of its prefixes.
LEMMA LoadPrefixes ==
    ASSUME NEW l, NEW K, NEW n \in Nat, Len(l) = n
    PROVE  \E g : Prefixes(l, K, n, g) /\ LoadOf(l, K) = g[n]
<1>. DEFINE g == CHOOSE g : Prefixes(l, K, n, g)
<1>1. Prefixes(l, K, n, g)
  BY PrefixesExist
<1>2. LoadOf(l, K) = g[n]
  BY DEF LoadOf
<1>. QED  BY <1>1, <1>2

\* The reading of a log and one more line is the reading of the log, and then of the line.
LEMMA LoadExtends ==
    ASSUME NEW l, NEW k, NEW K, NEW J, NEW n \in Nat, NEW m \in Nat, m = n + 1,
           Len(l) = n, Len(k) = m, AgreeTo(l, K, k, J, n)
    PROVE  LoadOf(k, J) = ReadLine(LoadOf(l, K), k, J, m)
<1>1. PICK g : Prefixes(l, K, n, g) /\ LoadOf(l, K) = g[n]
  BY LoadPrefixes
<1>2. PICK h : Prefixes(k, J, m, h) /\ LoadOf(k, J) = h[m]
  BY LoadPrefixes
<1>3. g[n] = h[n]
  BY <1>1, <1>2, PrefixesAgree
<1>4. h[m] = ReadLine(h[n], k, J, m)
  <2>1. m \in 1..m /\ m - 1 = n
    OBVIOUS
  <2>2. Prefixes(k, J, m, h)
    BY <1>2
  <2>3. \A i \in 1..m : h[i] = ReadLine(h[i - 1], k, J, i)
    BY <2>2, PrefixValues
  <2>. QED  BY <2>1, <2>3
<1>. QED  BY <1>1, <1>2, <1>3, <1>4

\* The same for a line that is appended: it is read, or it is skipped.
LEMMA LoadAppends ==
    ASSUME NEW l \in Seq(Lines), NEW r \in Lines, NEW K, Len(l) + 1 \notin K
    PROVE  /\ LoadOf(Append(l, r), K) = Read(LoadOf(l, K), r)
           /\ LoadOf(Append(l, r), K \cup {Len(l) + 1}) = LoadOf(l, K)
<1>. DEFINE k == Append(l, r)
            n == Len(l)
            m == n + 1
            J == K \cup {m}
<1>1. /\ n \in Nat /\ m \in Nat /\ Len(k) = m /\ k[m] = r /\ \A i \in 1..n : l[i] = k[i] /\ i # m
  OBVIOUS
<1>2. Len(l) = n /\ m = n + 1 /\ m \notin K /\ m \in J
  OBVIOUS
<1>3. AgreeTo(l, K, k, K, n) /\ AgreeTo(l, K, k, J, n)
  BY <1>1 DEF AgreeTo
<1>. HIDE DEF k, n, m, J
<1>4. /\ LoadOf(k, K) = ReadLine(LoadOf(l, K), k, K, m)
      /\ LoadOf(k, J) = ReadLine(LoadOf(l, K), k, J, m)
  BY <1>1, <1>2, <1>3, LoadExtends
<1>. QED  BY <1>1, <1>2, <1>4 DEF k, J, m, n, ReadLine

\* An empty log reads as an empty store.
LEMMA LoadEmpty ==
    ASSUME NEW K
    PROVE  LoadOf(<<>>, K) = EmptyStore
<1>1. PICK g : Prefixes(<<>>, K, 0, g) /\ LoadOf(<<>>, K) = g[0]
  BY LoadPrefixes
<1>. QED  BY <1>1, PrefixValues

----------------------------------------------------------------------------
(* What a reading holds.                                                   *)

StoreType == [current: [Providers -> Accounts \cup {None}],
              bound: SUBSET (Providers \X Accounts), requests: SUBSET Bindings, sound: BOOLEAN]

\* The store s is that of the first n lines of the log l without those in K: if it is sound,
\* its bindings are the lines; a provider with a binding or a request has an account for
\* ever, and a request is bound.
Faithful(s, l, K, n) ==
    /\ s \in StoreType
    /\ s.sound = TRUE => \A p \in Providers, a \in Accounts :
          <<p, a>> \in s.bound <=>
              \E k \in 1..n : k \notin K /\ l[k].provider = p /\ l[k].account = a
    /\ \A b \in s.bound : s.current[b[1]] # None
    /\ \A r \in s.requests : s.current[r.provider] # None /\ <<r.provider, r.account>> \in s.bound

\* An empty store is that of no lines.
LEMMA EmptyFaithful ==
    ASSUME NEW l, NEW K
    PROVE  Faithful(EmptyStore, l, K, 0)
<1>1. EmptyStore \in StoreType /\ EmptyStore.bound = {} /\ EmptyStore.requests = {}
  BY DEF EmptyStore, StoreType
<1>. QED  BY <1>1 DEF Faithful

\* What the fields of an indexed store are.
LEMMA IndexedFields ==
    ASSUME NEW s \in StoreType, NEW r \in Bindings
    PROVE  /\ Indexed(s, r) \in StoreType
           /\ Indexed(s, r).sound = s.sound
           /\ Indexed(s, r).current = [s.current EXCEPT ![r.provider] = r.account]
           /\ Indexed(s, r).bound = s.bound \cup {<<r.provider, r.account>>}
           /\ Indexed(s, r).requests = s.requests \cup {r}
<1>. DEFINE w == Indexed(s, r)
            cur == [s.current EXCEPT ![r.provider] = r.account]
            bnd == s.bound \cup {<<r.provider, r.account>>}
            req == s.requests \cup {r}
<1>0. r.provider \in Providers /\ r.account \in Accounts
  BY DEF Bindings
<1>1. /\ s.current \in [Providers -> Accounts \cup {None}]
      /\ s.bound \subseteq Providers \X Accounts /\ s.requests \subseteq Bindings
  BY DEF StoreType
<1>2. cur \in [Providers -> Accounts \cup {None}] /\ bnd \subseteq Providers \X Accounts
      /\ req \subseteq Bindings
  BY <1>0, <1>1
<1>3. w = [s EXCEPT !.current = cur, !.bound = bnd, !.requests = req]
  BY <1>1 DEF Indexed, StoreType
<1>. HIDE DEF cur, bnd, req, w
<1>4. w \in StoreType /\ w.sound = s.sound /\ w.current = cur /\ w.bound = bnd /\ w.requests = req
  BY <1>1, <1>2, <1>3 DEF StoreType
<1>. QED  BY <1>4 DEF cur, bnd, req, w

\* Indexing the next line keeps store and log together.
LEMMA IndexedFaithful ==
    ASSUME NEW l, NEW K, NEW n \in Nat, NEW m, m = n + 1, NEW s, Faithful(s, l, K, n),
           NEW r \in Bindings, r = l[m], m \notin K
    PROVE  Faithful(Indexed(s, r), l, K, m)
<1>. PICK w : w = Indexed(s, r)
  OBVIOUS
<1>. PICK cur, bnd, req : /\ cur = [s.current EXCEPT ![r.provider] = r.account]
                          /\ bnd = s.bound \cup {<<r.provider, r.account>>}
                          /\ req = s.requests \cup {r}
  OBVIOUS
<1>0. r.provider \in Providers /\ r.account \in Accounts /\ r.account # None
  BY ConnectAssumption DEF Bindings
<1>1. /\ s \in StoreType /\ s.current \in [Providers -> Accounts \cup {None}]
      /\ s.bound \subseteq Providers \X Accounts /\ s.requests \subseteq Bindings
  BY DEF Faithful, StoreType
<1>2. w \in StoreType /\ w.sound = s.sound /\ w.current = cur /\ w.bound = bnd /\ w.requests = req
  BY <1>1, IndexedFields
<1>3. 1..m = (1..n) \cup {m}
  OBVIOUS
<1>4. ASSUME NEW p \in Providers, NEW a \in Accounts, s.sound = TRUE
      PROVE  <<p, a>> \in bnd <=>
                \E i \in 1..m : i \notin K /\ l[i].provider = p /\ l[i].account = a
  <2>1. <<p, a>> \in bnd <=> <<p, a>> \in s.bound \/ (p = r.provider /\ a = r.account)
    OBVIOUS
  <2>2. <<p, a>> \in s.bound <=>
           \E i \in 1..n : i \notin K /\ l[i].provider = p /\ l[i].account = a
    BY <1>4 DEF Faithful
  <2>3. (\E i \in 1..m : i \notin K /\ l[i].provider = p /\ l[i].account = a)
        <=> \/ \E i \in 1..n : i \notin K /\ l[i].provider = p /\ l[i].account = a
            \/ r.provider = p /\ r.account = a
    BY <1>3
  <2>. QED  BY <2>1, <2>2, <2>3
<1>5. \A p \in Providers : s.current[p] # None => cur[p] # None
  BY <1>0, <1>1
<1>6. cur[r.provider] # None
  BY <1>0, <1>1
<1>7. \A b \in bnd : cur[b[1]] # None
  <2>. TAKE b \in bnd
  <2>1. CASE b \in s.bound
    BY <1>1, <1>5, <2>1 DEF Faithful
  <2>2. CASE b = <<r.provider, r.account>>
    <3>1. b[1] = r.provider
      BY <2>2
    <3>. QED  BY <1>6, <3>1
  <2>. QED  BY <2>1, <2>2
<1>8. \A q \in req : cur[q.provider] # None /\ <<q.provider, q.account>> \in bnd
  <2>. TAKE q \in req
  <2>1. CASE q \in s.requests
    <3>1. q.provider \in Providers /\ s.current[q.provider] # None
          /\ <<q.provider, q.account>> \in s.bound
      BY <1>1, <2>1 DEF Faithful, Bindings
    <3>. QED  BY <1>5, <3>1
  <2>2. CASE q = r
    BY <1>6, <2>2
  <2>. QED  BY <2>1, <2>2
<1>. QED  BY <1>2, <1>4, <1>7, <1>8 DEF Faithful

\* So does reading it, whatever it says.
LEMMA ReadFaithful ==
    ASSUME NEW l, NEW K, NEW n \in Nat, NEW m, m = n + 1, NEW s, Faithful(s, l, K, n),
           l[m] \in Lines
    PROVE  Faithful(ReadLine(s, l, K, m), l, K, m)
<1>0. 1..m = (1..n) \cup {m} /\ s \in StoreType
  BY DEF Faithful
<1>1. CASE m \in K
  <2>1. ReadLine(s, l, K, m) = s
    BY <1>1 DEF ReadLine
  <2>2. Faithful(s, l, K, m)
    BY <1>0, <1>1 DEF Faithful
  <2>. QED  BY <2>1, <2>2
<1>2. CASE m \notin K /\ l[m] \in s.requests
  <2>. PICK r : r = l[m]
    OBVIOUS
  <2>1. ReadLine(s, l, K, m) = s
    BY <1>2 DEF ReadLine, Read
  <2>2. <<r.provider, r.account>> \in s.bound
    BY <1>2 DEF Faithful
  <2>3. \A p, a : (\E i \in 1..m : i \notin K /\ l[i].provider = p /\ l[i].account = a)
           <=> \/ \E i \in 1..n : i \notin K /\ l[i].provider = p /\ l[i].account = a
               \/ r.provider = p /\ r.account = a
    BY <1>0, <1>2
  <2>4. Faithful(s, l, K, m)
    BY <2>2, <2>3 DEF Faithful
  <2>. QED  BY <2>1, <2>4
<1>3. CASE m \notin K /\ l[m] \notin s.requests /\ Acceptable(s, l[m])
  <2>. PICK r : r = l[m]
    OBVIOUS
  <2>1. ReadLine(s, l, K, m) = Indexed(s, r)
    BY <1>3 DEF ReadLine, Read
  <2>2. r \in Bindings
    BY <1>3 DEF Acceptable, Lines
  <2>3. Faithful(Indexed(s, r), l, K, m)
    BY <1>3, <2>2, IndexedFaithful
  <2>. QED  BY <2>1, <2>3
<1>4. CASE m \notin K /\ l[m] \notin s.requests /\ ~Acceptable(s, l[m])
  <2>. PICK w : w = [s EXCEPT !.sound = FALSE]
    OBVIOUS
  <2>1. ReadLine(s, l, K, m) = w
    BY <1>4 DEF ReadLine, Read
  <2>2. /\ w \in StoreType /\ w.sound = FALSE /\ w.current = s.current /\ w.bound = s.bound
        /\ w.requests = s.requests
    BY <1>0 DEF StoreType
  <2>3. Faithful(w, l, K, m)
    BY <2>2 DEF Faithful
  <2>. QED  BY <2>1, <2>3
<1>. QED  BY <1>1, <1>2, <1>3, <1>4

\* So do the stores of the prefixes.
LEMMA PrefixFaithful ==
    ASSUME NEW l, NEW K, NEW n \in Nat, NEW g, Prefixes(l, K, n, g), \A i \in 1..n : l[i] \in Lines
    PROVE  Faithful(g[n], l, K, n)
<1>1. g[0] = EmptyStore /\ \A i \in 1..n : g[i] = ReadLine(g[i - 1], l, K, i)
  BY PrefixValues
<1>. DEFINE Done == {i \in Nat : i <= n => Faithful(g[i], l, K, i)}
<1>2. 0 \in Done
  BY <1>1, EmptyFaithful
<1>3. ASSUME NEW i \in Nat, i \in Done
      PROVE  i + 1 \in Done
  <2>. PICK m : m = i + 1
    OBVIOUS
  <2>. SUFFICES ASSUME m <= n PROVE Faithful(g[m], l, K, m)
    OBVIOUS
  <2>1. m \in 1..n /\ m - 1 = i
    OBVIOUS
  <2>2. g[m] = ReadLine(g[i], l, K, m) /\ l[m] \in Lines
    BY <1>1, <2>1
  <2>3. Faithful(g[i], l, K, i)
    BY <1>3
  <2>. QED  BY <2>2, <2>3, ReadFaithful
<1>. HIDE DEF Done
<1>4. Nat \subseteq Done
  BY <1>2, <1>3, NatInductionSet
<1>. QED  BY <1>4 DEF Done

\* So every reading holds exactly what its lines say, if it is sound.
LEMMA LoadFaithful ==
    ASSUME NEW l \in Seq(Lines), NEW K
    PROVE  Faithful(LoadOf(l, K), l, K, Len(l))
<1>1. Len(l) \in Nat /\ \A i \in 1..Len(l) : l[i] \in Lines
  OBVIOUS
<1>2. ASSUME NEW n \in Nat, n = Len(l)
      PROVE  Faithful(LoadOf(l, K), l, K, n)
  <2>1. PICK g : Prefixes(l, K, n, g) /\ LoadOf(l, K) = g[n]
    BY <1>2, LoadPrefixes
  <2>2. \A i \in 1..n : l[i] \in Lines
    BY <1>1, <1>2
  <2>. QED  BY <2>1, <2>2, PrefixFaithful
<1>. QED  BY <1>1, <1>2

----------------------------------------------------------------------------
(* Where bindings come from.                                               *)

LogInv ==
    /\ log \in Seq(Lines) /\ failed \subseteq 1..Len(log) /\ started \in 0..Len(log)
    /\ LoadOf(log, Unread).sound = TRUE
    /\ up \in BOOLEAN /\ (up => store = LoadOf(log, Unread))

\* What Stripe holds: a code is about a known consent and an account, and so is an answer.
Sourced ==
    /\ made \in [Providers \X (Nonces \cup RotationNonces \cup {None}) -> Accounts \cup {None}]
    /\ \A c \in Codes : codes[c] # NoConsent =>
          Known(codes[c].source) /\ codes[c].account \in Accounts
    /\ answers \subseteq Consents \X Accounts /\ \A t \in answers : Known(t[1])

\* The evidence for binding a to the provider of a consent.
Warranted(id, a) ==
    /\ a \in Accounts
    /\ IF IsAdoption(id) THEN a \in Standard /\ <<id, a>> \in answers
       ELSE consents[id].account = a /\ (a \in Standard => <<id, a>> \in answers)

\* What a handler has established on its way.
Carries(k) ==
    /\ k.step # "idle" => up /\ Known(k.id)
    /\ k.step \in {"target", "agreed"} => ~IsAdoption(k.id) /\ consents[k.id].account \in Accounts
    /\ k.step \in {"begin", "check", "claim", "exchange"} => codes[k.code] # NoConsent
    /\ k.step = "verify" => <<k.id, k.account>> \in answers
    /\ k.step = "insert" => Warranted(k.id, k.account)

\* The lines before line i about its account, and their providers.
Earlier(l, i) == {k \in 1..i - 1 : l[k].account = l[i].account}
Holders(l, i) == {l[k].provider : k \in Earlier(l, i)}

\* The line that binds a to p with nonce n, after the lines E of the providers H about a,
\* has its evidence.
Evident(p, a, n, E, H) ==
    \/ E \subseteq failed /\ \E m \in {None, n} : made[<<p, m>>] = a
    \/ /\ E \subseteq failed /\ a \in Standard
       /\ <<p, n>> \in Consents /\ IsAdoption(<<p, n>>) /\ <<<<p, n>>, a>> \in answers
    \/ /\ <<p, n>> \in Consents
       /\ consents[<<p, n>>].source \in H /\ consents[<<p, n>>].account = a
       /\ a \in Standard => <<<<p, n>>, a>> \in answers

\* Line i of the log l is evident, unless it is torn.
LineEvident(l, i) ==
    l[i] # Torn =>
        Evident(l[i].provider, l[i].account, l[i].nonce, Earlier(l, i), Holders(l, i))

\* BindingJustified, in terms of Evident.
AllEvident == \A i \in DOMAIN log : LineEvident(log, i)

ConnectInv ==
    /\ ExchangeInv /\ LogInv /\ Sourced /\ AllEvident
    /\ \A h \in Handlers : Carries(task[h])

\* What no step takes back: a consent keeps its source and account, a code and an answer
\* stay, and so does the account made for a key.
Lasting ==
    /\ \A id \in Consents : consents[id] # NoConsent =>
          /\ consents'[id] # NoConsent
          /\ consents'[id].source = consents[id].source
          /\ consents'[id].account = consents[id].account
    /\ \A c \in Codes : codes[c] # NoConsent => codes'[c] = codes[c]
    /\ answers \subseteq answers'
    /\ \A k \in DOMAIN made : made[k] # None => made'[k] = made[k]

\* The record of a request.
LEMMA RecordTyped ==
    ASSUME NEW p \in Providers, NEW a \in Accounts, NEW n \in Nonces \cup RotationNonces,
           NEW previous \in Accounts \cup {None}, NEW r \in Recs(p, a, n, previous)
    PROVE  /\ r \in Bindings /\ r.provider = p /\ r.account = a /\ r.nonce = n
           /\ r.previous = previous
BY DEF Recs, Bindings

\* load_record accepts the first line of a provider.
LEMMA FirstAcceptable ==
    ASSUME NEW l, NEW K, NEW n, NEW s, Faithful(s, l, K, n), NEW r \in Bindings,
           r.previous = None, s.current[r.provider] = None
    PROVE  Acceptable(s, r)
<1>1. \A q \in s.requests : q.provider # r.provider
  BY DEF Faithful
<1>2. <<r.provider, r.account>> \notin s.bound
  <2>. SUFFICES ASSUME <<r.provider, r.account>> \in s.bound PROVE FALSE
    OBVIOUS
  <2>1. s.current[<<r.provider, r.account>>[1]] # None
    BY DEF Faithful
  <2>. QED  BY <2>1
<1>3. r # Torn
  BY ConnectAssumption DEF Bindings, Torn
<1>. QED  BY <1>1, <1>2, <1>3 DEF Acceptable

\* It accepts the line of a rotation too.
LEMMA RotationAcceptable ==
    ASSUME NEW s, NEW r \in Bindings, r.previous # None, s.current[r.provider] = r.previous,
           \A q \in s.requests : q.provider # r.provider \/ q.nonce # r.nonce,
           ~Bound(s, r.account)
    PROVE  Acceptable(s, r)
<1>1. <<r.provider, r.account>> \notin s.bound
  BY DEF Bound, Bindings
<1>2. r # Torn
  BY ConnectAssumption DEF Bindings, Torn
<1>. QED  BY <1>1, <1>2 DEF Acceptable

\* The store is the reading of the lines that it knows of.
LEMMA StoreFaithful ==
    ASSUME LogInv, up
    PROVE  Faithful(store, log, Unread, Len(log)) /\ store.sound = TRUE /\ store \in StoreType
<1>1. store = LoadOf(log, Unread) /\ log \in Seq(Lines) /\ LoadOf(log, Unread).sound = TRUE
  BY DEF LogInv
<1>2. Faithful(LoadOf(log, Unread), log, Unread, Len(log))
  BY <1>1, LoadFaithful
<1>. QED  BY <1>1, <1>2 DEF Faithful

\* A line that is appended is read next, if it is acceptable.
LEMMA InsertKeeps ==
    ASSUME LogInv, up, up' = up, NEW r \in Bindings, Acceptable(store, r), Insert(r)
    PROVE  LogInv'
<1>. PICK U : U = Unread
  OBVIOUS
<1>1. /\ log' = Append(log, r) /\ store' = Indexed(store, r) /\ UNCHANGED <<failed, started>>
      /\ log \in Seq(Lines) /\ failed \subseteq 1..Len(log) /\ started \in 0..Len(log)
      /\ store = LoadOf(log, U)
  BY DEF Insert, Append1, LogInv
<1>2. Unread' = U
  BY <1>1 DEF Unread
<1>3. r \in Lines /\ Len(log) + 1 \notin U
  BY <1>1 DEF Lines, Unread
<1>4. LoadOf(log', U) = Read(store, r)
  <2>0. log \in Seq(Lines) /\ r \in Lines /\ Len(log) + 1 \notin U
    BY <1>1, <1>3
  <2>1. LoadOf(Append(log, r), U) = Read(LoadOf(log, U), r)
    BY <2>0, LoadAppends
  <2>. QED  BY <1>1, <2>1
<1>5. r \notin store.requests
  BY DEF Acceptable
<1>6. LoadOf(log', U) = store'
  BY <1>1, <1>4, <1>5 DEF Read
<1>7. /\ log' \in Seq(Lines) /\ failed' \subseteq 1..Len(log') /\ started' \in 0..Len(log')
  <2>1. Len(log') = Len(log) + 1 /\ Len(log) \in Nat
    BY <1>1
  <2>2. log' \in Seq(Lines)
    BY <1>1, <1>3
  <2>. QED  BY <1>1, <2>1, <2>2
<1>8. store'.sound = TRUE
  BY <1>1, StoreFaithful, IndexedFields
<1>. QED  BY <1>2, <1>6, <1>7, <1>8 DEF LogInv

\* The line of a failed append is one the store does not know of.
LEMMA FailureKeeps ==
    ASSUME LogInv, up' = up, NEW r \in Bindings, InsertFails(r)
    PROVE  LogInv'
<1>. PICK U, m : U = Unread /\ m = Len(log) + 1
  OBVIOUS
<1>1. /\ UNCHANGED <<started, store>> /\ log \in Seq(Lines) /\ failed \subseteq 1..Len(log)
      /\ started \in 0..Len(log) /\ Len(log) \in Nat
      /\ LoadOf(log, U).sound = TRUE /\ (up => store = LoadOf(log, U))
  BY DEF InsertFails, LogInv
<1>2. CASE UNCHANGED <<log, failed>>
  <2>1. Unread' = U
    BY <1>1, <1>2 DEF Unread
  <2>. QED  BY <1>1, <1>2, <2>1 DEF LogInv
<1>3. ASSUME NEW line \in {r, Torn}, log' = Append(log, line), failed' = failed \cup {m}
      PROVE  LogInv'
  <2>1. line \in Lines /\ m \notin U /\ m > started
    BY <1>1 DEF Lines, Unread
  <2>2. Unread' = U \cup {m}
    BY <1>1, <1>3, <2>1 DEF Unread
  <2>3. LoadOf(log', U \cup {m}) = LoadOf(log, U)
    BY <1>1, <1>3, <2>1, LoadAppends
  <2>4. log' \in Seq(Lines) /\ Len(log') = Len(log) + 1
    BY <1>1, <1>3, <2>1
  <2>5. failed' \subseteq 1..Len(log') /\ started' \in 0..Len(log')
    <3>. PICK n : n = Len(log)
      OBVIOUS
    <3>1. /\ n \in Nat /\ m = n + 1 /\ Len(log') = m /\ failed \subseteq 1..n /\ started \in 0..n
          /\ failed' = failed \cup {m} /\ started' = started
      BY <1>1, <1>3, <2>4
    <3>2. ASSUME NEW i \in failed'
          PROVE  i \in 1..m
      <4>1. i \in 1..n \/ i = m
        BY <3>1
      <4>. QED  BY <3>1, <4>1
    <3>3. started' \in 0..m
      BY <3>1
    <3>. QED  BY <3>1, <3>2, <3>3, ZenonT(30)
  <2>. QED  BY <1>1, <2>2, <2>3, <2>4, <2>5 DEF LogInv
<1>. QED  BY <1>2, <1>3 DEF InsertFails, Append1

\* A step that leaves log and store alone keeps them together.
LEMMA NoInsert ==
    ASSUME LogInv, UNCHANGED <<log, failed, started, store, up>>
    PROVE  LogInv'
<1>1. Unread' = Unread
  BY DEF Unread
<1>. QED  BY <1>1 DEF LogInv

----------------------------------------------------------------------------
(* What each kind of step does to the evidence.                            *)

\* Who holds an account in the store is a provider of a line before; and if nobody does, the
\* appends of those lines failed.
LEMMA HoldersBound ==
    ASSUME LogInv, up, NEW r \in Bindings, NEW l, l = Append(log, r), NEW m, m = Len(log) + 1
    PROVE  /\ \A p \in Providers : <<p, r.account>> \in store.bound => p \in Holders(l, m)
           /\ ~Bound(store, r.account) => Earlier(l, m) \subseteq failed
<1>. PICK n, U : n = Len(log) /\ U = Unread
  OBVIOUS
<1>1. /\ log \in Seq(Lines) /\ n \in Nat /\ l[m] = r /\ m - 1 = n /\ U \subseteq failed
      /\ \A i \in 1..n : l[i] = log[i] /\ log[i] \in Lines
  BY DEF LogInv, Unread
<1>2. Faithful(store, log, U, n) /\ store.sound = TRUE /\ r.account \in Accounts
  BY StoreFaithful DEF Bindings
<1>3. \A p \in Providers : <<p, r.account>> \in store.bound <=>
         \E k \in 1..n : k \notin U /\ log[k].provider = p /\ log[k].account = r.account
  BY <1>2 DEF Faithful
<1>4. Earlier(l, m) = {k \in 1..n : log[k].account = r.account}
  BY <1>1 DEF Earlier
<1>5. ASSUME NEW p \in Providers, <<p, r.account>> \in store.bound
      PROVE  p \in Holders(l, m)
  <2>1. PICK k \in 1..n : log[k].provider = p /\ log[k].account = r.account
    BY <1>3, <1>5
  <2>2. k \in Earlier(l, m) /\ l[k].provider = p
    BY <1>1, <1>4, <2>1
  <2>. QED  BY <2>2 DEF Holders
<1>6. ASSUME ~Bound(store, r.account), NEW k \in Earlier(l, m)
      PROVE  k \in failed
  <2>1. k \in 1..n /\ log[k].account = r.account /\ log[k] \in Lines
    BY <1>1, <1>4
  <2>2. log[k].provider \in Providers
    <3>1. r.account # None /\ Torn.account = None
      BY <1>2, ConnectAssumption DEF Torn
    <3>2. log[k] \in Bindings
      BY <2>1, <3>1 DEF Lines
    <3>. QED  BY <3>2 DEF Bindings
  <2>3. <<log[k].provider, r.account>> \notin store.bound
    BY <1>6, <2>2 DEF Bound
  <2>. QED  BY <1>1, <1>3, <2>1, <2>2, <2>3
<1>. QED  BY <1>5, <1>6

\* A line does not change what is before the earlier lines.
LEMMA HoldersSame ==
    ASSUME NEW l, NEW k, NEW i \in Nat, i > 0, \A j \in 1..i : l[j] = k[j]
    PROVE  Holders(k, i) = Holders(l, i) /\ Earlier(k, i) = Earlier(l, i)
<1>1. i \in 1..i /\ \A j \in 1..i - 1 : j \in 1..i
  OBVIOUS
<1>2. Earlier(k, i) = Earlier(l, i)
  BY <1>1 DEF Earlier
<1>3. \A j \in Earlier(l, i) : l[j] = k[j]
  BY <1>1 DEF Earlier
<1>. QED  BY <1>2, <1>3 DEF Holders

\* Evidence stays.
LEMMA EvidentStays ==
    ASSUME Sourced, Lasting, failed \subseteq failed', NEW p \in Providers, NEW a \in Accounts,
           NEW n \in Nonces \cup RotationNonces, NEW E, NEW H, Evident(p, a, n, E, H)
    PROVE  Evident(p, a, n, E, H)'
<1>0. a # None /\ (E \subseteq failed => E \subseteq failed')
  BY ConnectAssumption
<1>1. ASSUME NEW m \in {None, n}, made[<<p, m>>] = a
      PROVE  made'[<<p, m>>] = a
  <2>1. <<p, m>> \in DOMAIN made
    BY DEF Sourced
  <2>. QED  BY <1>0, <1>1, <2>1 DEF Lasting
<1>2. ASSUME <<<<p, n>>, a>> \in answers, <<p, n>> \in Consents
      PROVE  <<<<p, n>>, a>> \in answers' /\ consents[<<p, n>>] # NoConsent
  <2>1. consents[<<<<p, n>>, a>>[1]] # NoConsent
    BY <1>2 DEF Sourced, Known
  <2>. QED  BY <1>2, <2>1 DEF Lasting
<1>3. ASSUME <<p, n>> \in Consents, consents[<<p, n>>].account = a
      PROVE  consents[<<p, n>>] # NoConsent
  <2>1. NoConsent.account = None
    BY DEF NoConsent
  <2>. QED  BY <1>0, <1>3, <2>1
<1>. PICK id : id = <<p, n>>
  OBVIOUS
<1>8. id[1] = p
  OBVIOUS
<1>4. ASSUME id \in Consents, consents[id] # NoConsent
      PROVE  consents'[id].source = consents[id].source
             /\ consents'[id].account = consents[id].account
  BY <1>4 DEF Lasting
<1>5. CASE E \subseteq failed /\ \E m \in {None, n} : made[<<p, m>>] = a
  BY <1>0, <1>1, <1>5 DEF Evident
<1>6. CASE /\ E \subseteq failed /\ a \in Standard
           /\ <<p, n>> \in Consents /\ IsAdoption(<<p, n>>) /\ <<<<p, n>>, a>> \in answers
  BY <1>0, <1>2, <1>4, <1>6, <1>8 DEF Evident, IsAdoption
<1>7. CASE /\ <<p, n>> \in Consents
           /\ consents[<<p, n>>].source \in H /\ consents[<<p, n>>].account = a
           /\ a \in Standard => <<<<p, n>>, a>> \in answers
  BY <1>2, <1>3, <1>4, <1>7 DEF Evident
<1>. QED  BY <1>5, <1>6, <1>7 DEF Evident

\* A line keeps its evidence in every log that continues this one.
LEMMA EvidentAt ==
    ASSUME LogInv, Sourced, Lasting, failed \subseteq failed', AllEvident, NEW i \in DOMAIN log,
           NEW w, \A j \in 1..i : log[j] = w[j]
    PROVE  LineEvident(w, i)'
<1>0. log[i] \in Lines /\ i \in Nat /\ i > 0 /\ i \in 1..i
  BY DEF LogInv
<1>1. log[i] = w[i] /\ Holders(w, i) = Holders(log, i) /\ Earlier(w, i) = Earlier(log, i)
  BY <1>0, HoldersSame
<1>. PICK p, a, n, E, H : p = w[i].provider /\ a = w[i].account /\ n = w[i].nonce
                          /\ E = Earlier(w, i) /\ H = Holders(w, i)
  OBVIOUS
<1>2. CASE w[i] = Torn
  BY <1>2 DEF LineEvident
<1>3. CASE w[i] # Torn
  <2>1. p \in Providers /\ a \in Accounts /\ n \in Nonces \cup RotationNonces
    BY <1>0, <1>1, <1>3 DEF Lines, Bindings
  <2>2. Evident(p, a, n, E, H)
    BY <1>1, <1>3 DEF AllEvident, LineEvident
  <2>3. Evident(p, a, n, E, H)'
    BY <2>1, <2>2, EvidentStays
  <2>. QED  BY <2>3 DEF LineEvident, Evident
<1>. QED  BY <1>2, <1>3

\* The lines of the log keep their evidence, whether it grows by an evident line or not.
LEMMA LinesEvident ==
    ASSUME LogInv, Sourced, Lasting, failed \subseteq failed', AllEvident, log' = log
    PROVE  AllEvident'
<1>. PICK w : w = log'
  OBVIOUS
<1>1. ASSUME NEW i \in DOMAIN log
      PROVE  LineEvident(w, i)'
  BY EvidentAt
<1>. QED  BY <1>1 DEF AllEvident, LineEvident, Evident

\* The line it grows by is evident too.
LEMMA NextEvident ==
    ASSUME LogInv, Sourced, Lasting, failed \subseteq failed', AllEvident, NEW r \in Lines,
           log' = Append(log, r), NEW m, m = Len(log) + 1, NEW w, w = log', LineEvident(w, m)'
    PROVE  AllEvident'
<1>0. log \in Seq(Lines)
  BY DEF LogInv
<1>. PICK n : n = Len(log)
  OBVIOUS
<1>1. n \in Nat /\ DOMAIN log = 1..n /\ DOMAIN w = 1..m /\ \A j \in 1..n : log[j] = w[j]
  BY <1>0
<1>2. ASSUME NEW i \in 1..m
      PROVE  LineEvident(w, i)'
  <2>1. CASE i = m
    BY <2>1, ZenonT(60)
  <2>2. CASE i # m
    <3>1. i \in DOMAIN log /\ \A j \in 1..i : log[j] = w[j]
      BY <1>1, <2>2
    <3>. QED  BY <3>1, EvidentAt
  <2>. QED  BY <2>1, <2>2
<1>. QED  BY <1>1, <1>2, ZenonT(60) DEF AllEvident, LineEvident, Evident

\* A record with its evidence may be appended, and its append may fail.
LEMMA RecordKeeps ==
    ASSUME LogInv, Sourced, Lasting, AllEvident, up, up' = up, NEW r \in Bindings,
           Acceptable(store, r), Insert(r) \/ InsertFails(r), NEW l, l = Append(log, r),
           NEW m, m = Len(log) + 1, failed \subseteq failed' => LineEvident(l, m)'
    PROVE  LogInv' /\ AllEvident'
<1>1. LogInv'
  BY InsertKeeps, FailureKeeps
<1>2. failed \subseteq failed'
  BY DEF Insert, InsertFails
<1>3. log' = log \/ log' = l \/ log' = Append(log, Torn)
  BY DEF Insert, InsertFails, Append1
<1>4. CASE log' = log
  BY <1>1, <1>2, <1>4, LinesEvident
<1>5. CASE log' = l
  <2>1. r \in Lines
    BY DEF Lines
  <2>. QED  BY <1>1, <1>2, <1>5, <2>1, NextEvident
<1>6. CASE log' = Append(log, Torn)
  <2>. PICK w : w = log'
    OBVIOUS
  <2>1. Torn \in Lines /\ w[m] = Torn
    BY <1>6 DEF Lines, LogInv
  <2>2. LineEvident(w, m)'
    BY <2>1 DEF LineEvident
  <2>. QED  BY <1>1, <1>2, <1>6, <2>1, <2>2, NextEvident
<1>. QED  BY <1>1, <1>3, <1>4, <1>5, <1>6

----------------------------------------------------------------------------
(* The evidence of handlers.                                               *)

\* A handler that does not move keeps what it carries.
LEMMA CarriesStays ==
    ASSUME FlowTypes, Lasting, up' = up, NEW g \in Handlers, task'[g] = task[g], Carries(task[g])
    PROVE  Carries(task[g])'
<1>. PICK k : k = task[g]
  OBVIOUS
<1>0. /\ k.step # "idle" => k.id \in Consents
      /\ k.step \in {"begin", "check", "claim", "exchange"} => k.code \in Codes
  BY DEF FlowTypes
<1>1. CASE k.step = "idle"
  BY <1>1 DEF Carries
<1>2. CASE k.step # "idle"
  <2>1. up /\ k.id \in Consents /\ consents[k.id] # NoConsent
    BY <1>0, <1>2 DEF Carries, Known
  <2>2. /\ consents'[k.id] # NoConsent /\ consents'[k.id].source = consents[k.id].source
        /\ consents'[k.id].account = consents[k.id].account
    BY <2>1 DEF Lasting
  <2>3. \A t : t \in answers => t \in answers'
    BY DEF Lasting
  <2>4. k.step \in {"begin", "check", "claim", "exchange"} => codes'[k.code] # NoConsent
    BY <1>0 DEF Carries, Lasting
  <2>5. k.step = "insert" => Warranted(k.id, k.account)'
    BY <2>2, <2>3 DEF Carries, Warranted, IsAdoption
  <2>6. k.step = "verify" => <<k.id, k.account>> \in answers'
    BY <2>3 DEF Carries
  <2>7. k.step \in {"target", "agreed"} =>
           consents'[k.id].source # k.id[1] /\ consents'[k.id].account \in Accounts
    BY <2>2 DEF Carries, IsAdoption
  <2>. QED  BY <1>2, <2>1, <2>2, <2>4, <2>5, <2>6, <2>7 DEF Carries, Known, IsAdoption, Warranted
<1>. QED  BY <1>1, <1>2

\* A step that moves one handler and leaves the account log.
LEMMA OneMoves ==
    ASSUME ConnectInv, ExchangeInv', Lasting, Sourced', UNCHANGED <<accounts, up>>,
           NEW h \in Handlers, Carries(task[h])', \A g \in Handlers : g # h => task'[g] = task[g]
    PROVE  ConnectInv'
<1>1. LogInv' /\ AllEvident'
  BY NoInsert, LinesEvident DEF ConnectInv, accounts
<1>2. ASSUME NEW g \in Handlers, g # h
      PROVE  Carries(task[g])'
  BY <1>2, CarriesStays DEF ConnectInv, ExchangeInv
<1>. QED  BY <1>1, <1>2 DEF ConnectInv

\* A step that moves none.
LEMMA NoneMoves ==
    ASSUME ConnectInv, ExchangeInv', Lasting, Sourced', LogInv', AllEvident', up' = up,
           task' = task
    PROVE  ConnectInv'
<1>1. ASSUME NEW g \in Handlers
      PROVE  Carries(task[g])'
  BY CarriesStays DEF ConnectInv, ExchangeInv
<1>. QED  BY <1>1 DEF ConnectInv

\* The moves of the consent store take nothing back.
LEMMA ConsentsLast ==
    ASSUME FlowTypes, Sourced, UNCHANGED <<codes, answers, made>>, NEW id \in Consents,
           \/ consents' = consents \/ Complete(id)
           \/ \E source, a : PendingConsent(id, source, a)
    PROVE  Lasting /\ Sourced'
<1>1. ASSUME NEW i \in Consents, consents[i] # NoConsent
      PROVE  /\ consents'[i] # NoConsent /\ consents'[i].source = consents[i].source
             /\ consents'[i].account = consents[i].account
  <2>1. CASE consents' = consents
    BY <1>1, <2>1
  <2>2. CASE Complete(id)
    <3>1. consents' = [consents EXCEPT ![id].done = TRUE] /\ consents \in [Consents -> ConsentType]
      BY <2>2 DEF Complete, FlowTypes
    <3>2. CASE i = id
      <4>1. /\ consents'[i].done = TRUE /\ consents'[i].source = consents[i].source
            /\ consents'[i].account = consents[i].account
        BY <3>1, <3>2 DEF ConsentType
      <4>2. NoConsent.done = FALSE
        BY DEF NoConsent
      <4>. QED  BY <4>1, <4>2
    <3>3. CASE i # id
      BY <1>1, <3>1, <3>3
    <3>. QED  BY <3>2, <3>3
  <2>3. ASSUME NEW source, NEW a, PendingConsent(id, source, a)
        PROVE  consents'[i] = consents[i]
    <3>. DEFINE k == [source |-> source, account |-> a, done |-> FALSE]
    <3>1. \/ consents' = consents
          \/ consents[id] = NoConsent /\ consents' = [consents EXCEPT ![id] = k]
      BY <2>3 DEF PendingConsent
    <3>. HIDE DEF k
    <3>. QED  BY <1>1, <3>1 DEF FlowTypes
  <2>. QED  BY <1>1, <2>1, <2>2, <2>3
<1>2. Lasting
  BY <1>1 DEF Lasting
<1>3. ASSUME NEW i \in Consents, Known(i)
      PROVE  Known(i)'
  BY <1>1, <1>3 DEF Known
<1>4. \A t \in answers : t[1] \in Consents
  BY DEF Sourced
<1>5. Sourced'
  BY <1>3, <1>4 DEF Sourced, FlowTypes
<1>. QED  BY <1>2, <1>5

\* An idle handler carries nothing.
LEMMA EndsCarries ==
    ASSUME FlowTypes, NEW h \in Handlers, Ends(h)
    PROVE  Carries(task[h])' /\ \A g \in Handlers : g # h => task'[g] = task[g]
<1>1. task'[h].step = "idle"
  BY EndsTyped, IdleTyped
<1>. QED  BY <1>1, EndsTyped DEF Carries

\* A handler goes on with what it has.
LEMMA GoesCarries ==
    ASSUME FlowTypes, Lasting, up' = up, NEW h \in Handlers, Carries(task[h]),
           NEW s \in Steps, Goes(h, s), task[h].step # "idle", s # "verify",
           s \in {"target", "agreed"} => task[h].step = "target",
           s \in {"begin", "check", "claim", "exchange"} =>
              task[h].step \in {"begin", "check", "claim"},
           s = "insert" => Warranted(task[h].id, task[h].account)
    PROVE  Carries(task[h])' /\ \A g \in Handlers : g # h => task'[g] = task[g]
<1>. PICK k : k = task[h]
  OBVIOUS
<1>0. /\ k.id \in Consents /\ k \in Tasks
      /\ s \in {"begin", "check", "claim", "exchange"} => k.code \in Codes
  BY DEF FlowTypes
<1>1. /\ task'[h].step = s /\ task'[h].id = k.id /\ task'[h].code = k.code
      /\ task'[h].account = k.account
  <2>1. task' = [task EXCEPT ![h].step = s] /\ task \in [Handlers -> Tasks]
    BY DEF Goes, FlowTypes
  <2>. QED  BY <2>1 DEF Tasks
<1>2. up /\ consents[k.id] # NoConsent
  BY DEF Carries, Known
<1>3. /\ consents'[k.id] # NoConsent /\ consents'[k.id].source = consents[k.id].source
      /\ consents'[k.id].account = consents[k.id].account
  BY <1>0, <1>2 DEF Lasting
<1>4. \A t : t \in answers => t \in answers'
  BY DEF Lasting
<1>5. s \in {"begin", "check", "claim", "exchange"} => codes'[k.code] # NoConsent
  BY <1>0 DEF Carries, Lasting
<1>6. s = "insert" => Warranted(k.id, k.account)'
  BY <1>3, <1>4 DEF Warranted, IsAdoption
<1>7. s \in {"target", "agreed"} =>
         consents'[k.id].source # k.id[1] /\ consents'[k.id].account \in Accounts
  BY <1>3 DEF Carries, IsAdoption
<1>8. Carries(task[h])'
  BY <1>1, <1>2, <1>3, <1>5, <1>6, <1>7 DEF Carries, Known, IsAdoption, Warranted
<1>. QED  BY <1>8, GoesTyped

----------------------------------------------------------------------------
(* The steps of handlers.                                                  *)

\* A relink goes on with a consent of two providers, or ends.
LEMMA RelinkTargetEvident ==
    ASSUME ConnectInv, ExchangeInv', NEW h \in Handlers, RelinkTarget(h)
    PROVE  ConnectInv'
<1>0. FlowTypes /\ Sourced /\ Carries(task[h])
  BY DEF ConnectInv, ExchangeInv
<1>1. task[h].step = "target" /\ task[h].id \in Consents
      /\ UNCHANGED <<codes, answers, made, accounts, up>>
  BY <1>0 DEF RelinkTarget, FlowTypes, stripe, bindings, environment, machine
<1>2. consents' = consents \/ Complete(task[h].id)
  BY DEF RelinkTarget, Closes, Fail
<1>3. Ends(h) \/ Goes(h, "agreed")
  BY DEF RelinkTarget
<1>4. Lasting /\ Sourced'
  <2>. PICK id : id = task[h].id
    OBVIOUS
  <2>. QED  BY <1>0, <1>1, <1>2, ConsentsLast
<1>5. Carries(task[h])' /\ \A g \in Handlers : g # h => task'[g] = task[g]
  <2>1. CASE Ends(h)
    BY <1>0, <2>1, EndsCarries
  <2>2. CASE Goes(h, "agreed")
    BY <1>0, <1>1, <1>4, <2>2, GoesCarries DEF Steps
  <2>. QED  BY <1>3, <2>1, <2>2
<1>. QED  BY <1>1, <1>4, <1>5, OneMoves

\* The steps that leave consents, codes, answers and keys alone.
LEMMA NothingTaken ==
    ASSUME Sourced, UNCHANGED <<consents, codes, answers, made>>
    PROVE  Lasting /\ Sourced'
BY DEF Lasting, Sourced, Known

\* Two signatures are the evidence for an account that is not Standard.
LEMMA RelinkAgreedEvident ==
    ASSUME ConnectInv, ExchangeInv', NEW h \in Handlers, RelinkAgreed(h)
    PROVE  ConnectInv'
<1>0. FlowTypes /\ Sourced /\ Carries(task[h])
  BY DEF ConnectInv, ExchangeInv
<1>1. task[h].step = "agreed" /\ task[h].id \in Consents
      /\ UNCHANGED <<consents, codes, answers, made, accounts, up>>
  BY <1>0 DEF RelinkAgreed, FlowTypes, stripe, bindings, environment, machine
<1>2. Lasting /\ Sourced'
  BY <1>0, <1>1, NothingTaken
<1>3. CASE Ends(h)
  BY <1>0, <1>1, <1>2, <1>3, EndsCarries, OneMoves
<1>4. CASE ~Ends(h)
  <2>. PICK k, a : k = task[h] /\ a = consents[k.id].account
    OBVIOUS
  <2>1. /\ a \notin Standard /\ task' = [task EXCEPT ![h].step = "insert", ![h].account = a]
    BY <1>4 DEF RelinkAgreed
  <2>2. a \in Accounts /\ consents[k.id].source # k.id[1] /\ up /\ consents[k.id] # NoConsent
    BY <1>0, <1>1 DEF Carries, IsAdoption, Known
  <2>3. /\ task'[h].step = "insert" /\ task'[h].id = k.id /\ task'[h].account = a
        /\ \A g \in Handlers : g # h => task'[g] = task[g]
    BY <1>0, <2>1 DEF FlowTypes, Tasks
  <2>4. Carries(task[h])'
    BY <1>1, <2>1, <2>2, <2>3 DEF Carries, Warranted, IsAdoption, Known
  <2>. QED  BY <1>1, <1>2, <2>3, <2>4, OneMoves
<1>. QED  BY <1>3, <1>4

\* Begin, Check, Claim and Verify only look and move on.
LEMMA FlowEvident ==
    ASSUME ConnectInv, ExchangeInv', NEW h \in Handlers,
           Begin(h) \/ Check(h) \/ Claim(h) \/ Verify(h)
    PROVE  ConnectInv'
<1>0. FlowTypes /\ Sourced /\ Carries(task[h]) /\ h \in Handlers
  BY DEF ConnectInv, ExchangeInv
<1>1. UNCHANGED <<consents, codes, answers, made, accounts, up>>
  <2>1. CASE Begin(h)
    BY <2>1 DEF Begin, stripe, bindings, environment, machine
  <2>2. CASE Check(h)
    BY <2>2 DEF Check, stripe, bindings, environment, machine, consenting
  <2>3. CASE Claim(h)
    BY <2>3 DEF Claim, stripe, bindings, environment, machine
  <2>4. CASE Verify(h)
    BY <2>4 DEF Verify, stripe, bindings, environment, machine, consenting
  <2>. QED  BY <2>1, <2>2, <2>3, <2>4
<1>2. Lasting /\ Sourced'
  BY <1>0, <1>1, NothingTaken
<1>3. Carries(task[h])' /\ \A g \in Handlers : g # h => task'[g] = task[g]
  <2>1. CASE Ends(h)
    BY <1>0, <2>1, EndsCarries
  <2>2. ASSUME NEW s \in {"terminal", "linked", "failed"}, Goes(h, s), task[h].step # "idle"
        PROVE  Carries(task[h])' /\ \A g \in Handlers : g # h => task'[g] = task[g]
    BY <1>0, <1>1, <1>2, <2>2, GoesCarries DEF Steps
  <2>3. CASE Begin(h)
    <3>1. task[h].step = "begin" /\ (Ends(h) \/ Goes(h, "terminal") \/ Goes(h, "check"))
      BY <2>3 DEF Begin
    <3>2. CASE Goes(h, "check")
      BY <1>0, <1>1, <1>2, <3>1, <3>2, GoesCarries DEF Steps
    <3>. QED  BY <2>1, <2>2, <3>1, <3>2
  <2>4. CASE Claim(h)
    <3>1. task[h].step = "claim" /\ (Goes(h, "exchange") \/ Goes(h, "failed"))
      BY <2>4 DEF Claim
    <3>2. CASE Goes(h, "exchange")
      BY <1>0, <1>1, <1>2, <3>1, <3>2, GoesCarries DEF Steps
    <3>. QED  BY <2>2, <3>1, <3>2
  <2>5. CASE Check(h)
    <3>. DEFINE a == IF Renews(task[h].id) THEN store.current[task[h].id[1]] ELSE None
    <3>1. task[h].step = "check"
          /\ \/ Goes(h, "linked") \/ Goes(h, "failed")
             \/ task' = [task EXCEPT ![h].step = "claim", ![h].renews = a]
      BY <2>5 DEF Check
    <3>. HIDE DEF a
    <3>2. CASE task' = [task EXCEPT ![h].step = "claim", ![h].renews = a]
      <4>1. /\ task'[h].step = "claim" /\ task'[h].id = task[h].id /\ task'[h].code = task[h].code
            /\ \A g \in Handlers : g # h => task'[g] = task[g]
        BY <1>0, <3>2 DEF FlowTypes, Tasks
      <4>2. up /\ consents[task[h].id] # NoConsent /\ codes[task[h].code] # NoConsent
        BY <1>0, <3>1 DEF Carries, Known
      <4>3. Carries(task[h])'
        BY <1>1, <4>1, <4>2 DEF Carries, Known
      <4>. QED  BY <4>1, <4>3
    <3>. QED  BY <2>2, <3>1, <3>2
  <2>6. CASE Verify(h)
    <3>1. task[h].step = "verify"
          /\ (Goes(h, "failed") \/ (RightAccount(h) /\ Goes(h, "insert")))
      BY <2>6 DEF Verify
    <3>2. CASE RightAccount(h) /\ Goes(h, "insert")
      <4>. PICK t : t = <<task[h].id, task[h].account>>
        OBVIOUS
      <4>1. t \in answers
        BY <1>0, <3>1 DEF Carries
      <4>2. task[h].account \in Accounts
        BY <1>0, <4>1 DEF Sourced
      <4>3. Warranted(task[h].id, task[h].account)
        BY <3>2, <4>1, <4>2 DEF RightAccount, Warranted
      <4>. QED  BY <1>0, <1>1, <1>2, <3>1, <3>2, <4>3, GoesCarries DEF Steps
    <3>. QED  BY <2>2, <3>1, <3>2
  <2>. QED  BY <2>3, <2>4, <2>5, <2>6
<1>. QED  BY <1>1, <1>2, <1>3, OneMoves

\* Stripe's answer is evidence.
LEMMA ExchangeEvident ==
    ASSUME ConnectInv, ExchangeInv', NEW h \in Handlers, Exchange(h)
    PROVE  ConnectInv'
<1>0. FlowTypes /\ Sourced /\ Carries(task[h]) /\ h \in Handlers
  BY DEF ConnectInv, ExchangeInv
<1>. PICK k, a, t : k = task[h] /\ a = codes[k.code].account /\ t = <<k.id, a>>
  OBVIOUS
<1>1. /\ k.step = "exchange" /\ k.id \in Consents /\ k.code \in Codes
      /\ UNCHANGED <<consents, codes, made, accounts, up>>
  BY <1>0 DEF Exchange, FlowTypes, bindings, environment, machine, consenting
<1>2. up /\ consents[k.id] # NoConsent /\ a \in Accounts
  BY <1>0, <1>1 DEF Carries, Known, Sourced
<1>3. \/ answers' = answers /\ Goes(h, "failed")
      \/ answers' = answers \cup {t} /\ task' = [task EXCEPT ![h].step = "verify", ![h].account = a]
  BY DEF Exchange
<1>4. t \in Consents \X Accounts /\ t[1] = k.id
  BY <1>1, <1>2
<1>5. Lasting
  BY <1>1, <1>3 DEF Lasting
<1>6. Sourced'
  BY <1>0, <1>1, <1>2, <1>3, <1>4 DEF Sourced, Known
<1>7. Carries(task[h])' /\ \A g \in Handlers : g # h => task'[g] = task[g]
  <2>1. CASE answers' = answers /\ Goes(h, "failed")
    BY <1>0, <1>1, <1>5, <2>1, GoesCarries DEF Steps
  <2>2. CASE answers' = answers \cup {t}
             /\ task' = [task EXCEPT ![h].step = "verify", ![h].account = a]
    <3>1. /\ task'[h].step = "verify" /\ task'[h].id = k.id /\ task'[h].account = a
          /\ \A g \in Handlers : g # h => task'[g] = task[g]
      BY <1>0, <2>2 DEF FlowTypes, Tasks
    <3>2. <<task'[h].id, task'[h].account>> \in answers'
      BY <2>2, <3>1
    <3>. QED  BY <1>1, <1>2, <3>1, <3>2 DEF Carries, Known
  <2>. QED  BY <1>3, <2>1, <2>2
<1>. QED  BY <1>1, <1>5, <1>6, <1>7, OneMoves

\* A finished handler leaves the consent, and its source and account, behind.
LEMMA FinishEvident ==
    ASSUME ConnectInv, ExchangeInv', NEW h \in Handlers, Finish(h)
    PROVE  ConnectInv'
<1>0. FlowTypes /\ Sourced /\ Carries(task[h]) /\ h \in Handlers
  BY DEF ConnectInv, ExchangeInv
<1>1. task[h].step # "idle" /\ task[h].id \in Consents
      /\ UNCHANGED <<codes, answers, made, accounts, up>>
  BY <1>0 DEF Finish, FlowTypes, stripe, bindings, environment, machine
<1>2. consents' = consents \/ Complete(task[h].id)
  BY DEF Finish, Fail
<1>3. Ends(h) \/ Goes(h, "terminal")
  BY DEF Finish
<1>4. Lasting /\ Sourced'
  <2>. PICK id : id = task[h].id
    OBVIOUS
  <2>. QED  BY <1>0, <1>1, <1>2, ConsentsLast
<1>5. Carries(task[h])' /\ \A g \in Handlers : g # h => task'[g] = task[g]
  <2>1. CASE Ends(h)
    BY <1>0, <2>1, EndsCarries
  <2>2. CASE Goes(h, "terminal")
    BY <1>0, <1>1, <1>4, <2>2, GoesCarries DEF Steps
  <2>. QED  BY <1>3, <2>1, <2>2
<1>. QED  BY <1>1, <1>4, <1>5, OneMoves

\* Bind appends the line its evidence is about, or clears a deauthorisation.
LEMMA BindEvident ==
    ASSUME ConnectInv, ExchangeInv', NEW h \in Handlers, Bind(h)
    PROVE  ConnectInv'
<1>0. FlowTypes /\ Sourced /\ Carries(task[h]) /\ h \in Handlers /\ LogInv /\ AllEvident
  BY DEF ConnectInv, ExchangeInv
<1>. PICK id, a : id = task[h].id /\ a = task[h].account
  OBVIOUS
<1>1. /\ task[h].step = "insert" /\ id \in Consents
      /\ UNCHANGED <<consents, codes, answers, made, up>>
  BY <1>0 DEF Bind, FlowTypes, stripe, machine, consenting
<1>2. /\ up /\ Warranted(id, a)
  BY <1>0, <1>1 DEF Carries
<1>3. Lasting /\ Sourced'
  BY <1>0, <1>1, NothingTaken
<1>4. Goes(h, "linked") \/ Goes(h, "failed")
  BY DEF Bind
<1>5. Carries(task[h])' /\ \A g \in Handlers : g # h => task'[g] = task[g]
  <2>1. CASE Goes(h, "linked")
    BY <1>0, <1>1, <1>3, <2>1, GoesCarries DEF Steps
  <2>2. CASE Goes(h, "failed")
    BY <1>0, <1>1, <1>3, <2>2, GoesCarries DEF Steps
  <2>. QED  BY <1>4, <2>1, <2>2
<1>6. \/ UNCHANGED accounts
      \/ /\ Insertable(id, a)
         /\ \E r \in Recs(id[1], a, id[2], None) : Insert(r) \/ InsertFails(r)
  BY DEF Bind, bindings
<1>7. CASE UNCHANGED accounts
  BY <1>1, <1>3, <1>5, <1>7, OneMoves
<1>8. ASSUME Insertable(id, a), NEW r \in Recs(id[1], a, id[2], None), Insert(r) \/ InsertFails(r)
      PROVE  ConnectInv'
  <2>1. /\ r \in Bindings /\ r.provider = id[1] /\ r.account = a /\ r.nonce = id[2]
        /\ r.previous = None
    <3>1. id[1] \in Providers /\ id[2] \in Nonces /\ a \in Accounts
      BY <1>1, <1>2 DEF Consents, Warranted
    <3>. QED  BY <1>8, <3>1, RecordTyped
  <2>2. Faithful(store, log, Unread, Len(log)) /\ store.bound \subseteq Providers \X Accounts
    BY <1>0, <1>2, StoreFaithful DEF StoreType
  <2>3. Acceptable(store, r)
    BY <1>8, <2>1, <2>2, FirstAcceptable DEF Insertable
  <2>. PICK l, m : l = Append(log, r) /\ m = Len(log) + 1
    OBVIOUS
  <2>. PICK E, H : E = Earlier(l, m) /\ H = Holders(l, m)
    OBVIOUS
  <2>4. /\ \A p \in Providers : <<p, r.account>> \in store.bound => p \in H
        /\ ~Bound(store, r.account) => E \subseteq failed
    BY <1>0, <1>2, <2>1, HoldersBound
  <2>5. ASSUME failed \subseteq failed'
        PROVE  Evident(id[1], a, id[2], E, H)'
    <3>0. <<id[1], id[2]>> = id
      BY <1>1 DEF Consents
    <3>1. CASE IsAdoption(id)
      <4>1. E \subseteq failed'
        BY <1>8, <2>1, <2>4, <2>5, <3>1 DEF Insertable
      <4>2. a \in Standard /\ <<id, a>> \in answers /\ consents[id].source = id[1]
        BY <1>2, <3>1 DEF Warranted, IsAdoption
      <4>. QED  BY <1>1, <3>0, <4>1, <4>2 DEF Evident, IsAdoption
    <3>2. CASE ~IsAdoption(id)
      <4>1. consents[id].source \in H
        <5>1. <<consents[id].source, a>> \in store.bound
          BY <1>8, <3>2 DEF Insertable
        <5>2. consents[id].source \in Providers
          BY <2>2, <5>1
        <5>. QED  BY <2>1, <2>4, <5>1, <5>2
      <4>2. consents[id].account = a /\ (a \in Standard => <<id, a>> \in answers)
        BY <1>2, <3>2 DEF Warranted
      <4>. QED  BY <1>1, <3>0, <4>1, <4>2 DEF Evident
    <3>. QED  BY <3>1, <3>2
  <2>6. l[m] = r
    BY <1>0 DEF LogInv
  <2>7. failed \subseteq failed' => LineEvident(l, m)'
    BY <2>1, <2>5, <2>6 DEF LineEvident, Evident
  <2>8. LogInv' /\ AllEvident'
    BY <1>0, <1>1, <1>2, <1>3, <1>8, <2>1, <2>3, <2>7, RecordKeeps
  <2>9. ASSUME NEW g \in Handlers, g # h
        PROVE  Carries(task[g])'
    BY <1>0, <1>1, <1>3, <1>5, <2>9, CarriesStays DEF ConnectInv
  <2>. QED  BY <1>3, <1>5, <2>8, <2>9 DEF ConnectInv
<1>. QED  BY <1>6, <1>7, <1>8

----------------------------------------------------------------------------
(* The other steps.                                                        *)

\* Stripe makes one account for a key.
LEMMA CreatesLasts ==
    ASSUME Sourced, NEW p \in Providers, NEW n \in Nonces \cup RotationNonces \cup {None},
           NEW a \in Accounts, Creates(p, n, a), UNCHANGED <<consents, codes, answers>>
    PROVE  Lasting /\ Sourced' /\ made'[<<p, n>>] = a
<1>. PICK k : k = <<p, n>>
  OBVIOUS
<1>1. k \in DOMAIN made /\ made' = [made EXCEPT ![k] = a] /\ (made[k] # None => a = made[k])
  BY DEF Sourced, Creates
<1>2. made'[k] = a /\ \A i \in DOMAIN made : made[i] # None => made'[i] = made[i]
  BY <1>1
<1>3. made' \in [Providers \X (Nonces \cup RotationNonces \cup {None}) -> Accounts \cup {None}]
  BY <1>1 DEF Sourced
<1>. QED  BY <1>2, <1>3 DEF Lasting, Sourced, Known

\* A line about an account nobody held, made by Stripe for its provider.
LEMMA MadeEvident ==
    ASSUME ConnectInv, ExchangeInv', Lasting, Sourced', up, UNCHANGED <<up, task>>,
           NEW r \in Bindings, Acceptable(store, r), Insert(r) \/ InsertFails(r),
           ~Bound(store, r.account),
           NEW n \in {None, r.nonce}, made'[<<r.provider, n>>] = r.account
    PROVE  ConnectInv'
<1>0. LogInv /\ Sourced /\ AllEvident
  BY DEF ConnectInv
<1>. PICK l, m : l = Append(log, r) /\ m = Len(log) + 1
  OBVIOUS
<1>. PICK E, H : E = Earlier(l, m) /\ H = Holders(l, m)
  OBVIOUS
<1>1. E \subseteq failed
  BY <1>0, HoldersBound
<1>2. l[m] = r
  BY <1>0 DEF LogInv
<1>3. failed \subseteq failed' => Evident(r.provider, r.account, r.nonce, E, H)'
  BY <1>1 DEF Evident
<1>4. failed \subseteq failed' => LineEvident(l, m)'
  BY <1>2, <1>3 DEF LineEvident, Evident
<1>5. LogInv' /\ AllEvident'
  BY <1>0, <1>4, RecordKeeps
<1>. QED  BY <1>5, NoneMoves

\* Onboarding binds an account made for the provider.
LEMMA OnboardEvident ==
    ASSUME ConnectInv, ExchangeInv', NEW p \in Providers, NEW n \in Nonces, NEW a \in Accounts,
           Onboard(p, n, a)
    PROVE  ConnectInv'
<1>0. LogInv /\ Sourced /\ AllEvident
  BY DEF ConnectInv
<1>1. up /\ store.current[p] = None /\ UNCHANGED <<consents, codes, answers, task, up>>
  BY DEF Onboard, consenting, machine
<1>2. Lasting /\ Sourced' /\ made'[<<p, None>>] = a
  BY <1>0, <1>1, CreatesLasts DEF Onboard
<1>3. \/ UNCHANGED accounts
      \/ ~Bound(store, a) /\ \E r \in Recs(p, a, n, None) : Insert(r) \/ InsertFails(r)
  BY DEF Onboard
<1>4. CASE UNCHANGED accounts
  BY <1>0, <1>1, <1>2, <1>4, NoInsert, LinesEvident, NoneMoves DEF accounts
<1>5. ASSUME ~Bound(store, a), NEW r \in Recs(p, a, n, None), Insert(r) \/ InsertFails(r)
      PROVE  ConnectInv'
  <2>1. r \in Bindings /\ r.provider = p /\ r.account = a /\ r.previous = None
    BY RecordTyped
  <2>2. Acceptable(store, r)
    BY <1>0, <1>1, <2>1, StoreFaithful, FirstAcceptable
  <2>3. None \in {None, r.nonce} /\ made'[<<r.provider, None>>] = r.account
    BY <1>2, <2>1
  <2>. QED  BY <1>1, <1>2, <1>5, <2>1, <2>2, <2>3, MadeEvident
<1>. QED  BY <1>3, <1>4, <1>5

\* So does a rotation, to a provider with an account and under a fresh nonce.
LEMMA RotateEvident ==
    ASSUME ConnectInv, ExchangeInv', NEW p \in Providers, NEW n \in RotationNonces,
           NEW previous \in Accounts, NEW a \in Accounts, Rotate(p, n, previous, a)
    PROVE  ConnectInv'
<1>0. LogInv /\ Sourced /\ AllEvident
  BY DEF ConnectInv
<1>1. /\ up /\ store.current[p] = previous /\ NonceFree(p, n)
      /\ UNCHANGED <<consents, codes, answers, task, up>>
  BY DEF Rotate, consenting, machine
<1>2. Lasting /\ Sourced' /\ made'[<<p, n>>] = a
  BY <1>0, <1>1, CreatesLasts DEF Rotate
<1>3. \/ UNCHANGED accounts
      \/ ~Bound(store, a) /\ \E r \in Recs(p, a, n, previous) : Insert(r) \/ InsertFails(r)
  BY DEF Rotate
<1>4. CASE UNCHANGED accounts
  BY <1>0, <1>1, <1>2, <1>4, NoInsert, LinesEvident, NoneMoves DEF accounts
<1>5. ASSUME ~Bound(store, a), NEW r \in Recs(p, a, n, previous), Insert(r) \/ InsertFails(r)
      PROVE  ConnectInv'
  <2>1. r \in Bindings /\ r.provider = p /\ r.account = a /\ r.previous = previous /\ r.nonce = n
    BY RecordTyped
  <2>2. Acceptable(store, r)
    <3>1. r.previous # None /\ store.current[r.provider] = r.previous /\ ~Bound(store, r.account)
      BY <1>1, <1>5, <2>1, ConnectAssumption
    <3>2. \A q \in store.requests : q.provider # r.provider \/ q.nonce # r.nonce
      BY <1>1, <2>1 DEF NonceFree
    <3>. QED  BY <2>1, <3>1, <3>2, RotationAcceptable
  <2>3. n \in {None, r.nonce} /\ made'[<<r.provider, n>>] = r.account
    BY <1>2, <2>1
  <2>. QED  BY <1>1, <1>2, <1>5, <2>1, <2>2, <2>3, MadeEvident
<1>. QED  BY <1>3, <1>4, <1>5

\* A relink starts from a consent of another provider, for an account.
LEMMA RelinkEvident ==
    ASSUME ConnectInv, ExchangeInv', NEW h \in Requests, NEW q \in Providers, NEW n \in Nonces,
           NEW source \in Providers, NEW a \in Accounts, Relink(h, q, n, source, a)
    PROVE  ConnectInv'
<1>0. LogInv /\ Sourced /\ FlowTypes /\ h \in Handlers
  BY DEF ConnectInv, ExchangeInv, Handlers
<1>. PICK id : id = <<q, n>>
  OBVIOUS
<1>1. /\ up /\ q # source /\ PendingConsent(id, source, a) /\ id \in Consents /\ id[1] = q
      /\ UNCHANGED <<codes, answers, made, accounts, up>>
  BY DEF Relink, stripe, bindings, environment, machine, Consents
<1>2. Lasting /\ Sourced'
  BY <1>0, <1>1, ConsentsLast
<1>3. consents'[id].source = source /\ consents'[id].account = a
  <2>. DEFINE k == [source |-> source, account |-> a, done |-> FALSE]
  <2>1. \/ consents' = consents /\ consents[id].source = source /\ consents[id].account = a
        \/ consents' = [consents EXCEPT ![id] = k]
    BY <1>1 DEF PendingConsent
  <2>2. k.source = source /\ k.account = a
    OBVIOUS
  <2>. HIDE DEF k
  <2>. QED  BY <1>0, <1>1, <2>1, <2>2 DEF FlowTypes
<1>4. consents'[id] # NoConsent
  <2>1. NoConsent.account = None /\ a # None
    BY ConnectAssumption DEF NoConsent
  <2>. QED  BY <1>3, <2>1
<1>. DEFINE t == [Idle EXCEPT !.step = "target", !.id = id]
<1>5. t.step = "target" /\ t.id = id
  BY DEF Idle
<1>6. task' = [task EXCEPT ![h] = t]
  BY DEF Relink
<1>. HIDE DEF t
<1>7. task'[h] = t /\ \A g \in Handlers : g # h => task'[g] = task[g]
  BY <1>0, <1>6 DEF FlowTypes
<1>8. Carries(task[h])'
  BY <1>1, <1>3, <1>4, <1>5, <1>7 DEF Carries, Known, IsAdoption
<1>. QED  BY <1>0, <1>1, <1>2, <1>7, <1>8, OneMoves

\* An adoption stores a consent.
LEMMA AdoptEvident ==
    ASSUME ConnectInv, ExchangeInv', NEW p \in Providers, NEW n \in Nonces, Adopt(p, n)
    PROVE  ConnectInv'
<1>0. LogInv /\ Sourced /\ FlowTypes /\ AllEvident
  BY DEF ConnectInv, ExchangeInv
<1>. PICK id : id = <<p, n>>
  OBVIOUS
<1>1. /\ PendingConsent(id, p, None) /\ id \in Consents
      /\ UNCHANGED <<codes, answers, made, accounts, up, task>>
  BY DEF Adopt, stripe, bindings, environment, machine, Consents
<1>2. Lasting /\ Sourced'
  BY <1>0, <1>1, ConsentsLast
<1>. QED  BY <1>0, <1>1, <1>2, NoInsert, LinesEvident, NoneMoves DEF accounts

\* A code is about a known consent.
LEMMA AuthorizeEvident ==
    ASSUME ConnectInv, ExchangeInv', NEW c \in Codes, NEW id \in Consents, NEW a \in Accounts,
           Authorize(c, id, a)
    PROVE  ConnectInv'
<1>0. LogInv /\ Sourced /\ FlowTypes /\ AllEvident
  BY DEF ConnectInv, ExchangeInv
<1>. DEFINE k == [source |-> id, account |-> a, done |-> TRUE]
<1>1. /\ codes[c] = NoConsent /\ consents[id] # NoConsent /\ codes' = [codes EXCEPT ![c] = k]
      /\ UNCHANGED <<consents, answers, made, accounts, up, task>>
  BY DEF Authorize, bindings, consenting, environment, machine, Known
<1>2. k.source = id /\ k.account = a
  OBVIOUS
<1>. HIDE DEF k
<1>3. Lasting
  BY <1>0, <1>1 DEF Lasting, FlowTypes
<1>4. Sourced'
  BY <1>0, <1>1, <1>2 DEF Sourced, FlowTypes, Known
<1>. QED  BY <1>0, <1>1, <1>3, <1>4, NoInsert, LinesEvident, NoneMoves DEF accounts

\* A return takes up a code and a known consent.
LEMMA ReturnEvident ==
    ASSUME ConnectInv, ExchangeInv', NEW h \in Handlers, NEW id \in Consents, NEW c \in Codes,
           Return(h, id, c)
    PROVE  ConnectInv'
<1>0. LogInv /\ Sourced /\ FlowTypes
  BY DEF ConnectInv, ExchangeInv
<1>1. /\ up /\ codes[c] # NoConsent /\ consents[id] # NoConsent
      /\ UNCHANGED <<consents, codes, answers, made, accounts, up>>
  BY DEF Return, stripe, bindings, consenting, environment, machine, Known
<1>3. Lasting /\ Sourced'
  BY <1>0, <1>1, NothingTaken
<1>. DEFINE t == [Idle EXCEPT !.step = "begin", !.id = id, !.code = c]
<1>4. t.step = "begin" /\ t.id = id /\ t.code = c
  BY DEF Idle
<1>5. task' = [task EXCEPT ![h] = t]
  BY DEF Return
<1>. HIDE DEF t
<1>6. task'[h] = t /\ \A g \in Handlers : g # h => task'[g] = task[g]
  BY <1>0, <1>5 DEF FlowTypes
<1>7. Carries(task[h])'
  BY <1>1, <1>4, <1>6 DEF Carries, Known
<1>. QED  BY <1>1, <1>3, <1>6, <1>7, OneMoves

\* A crash forgets the store and the handlers, and keeps the log.
LEMMA CrashEvident ==
    ASSUME ConnectInv, ExchangeInv', Crash
    PROVE  ConnectInv'
<1>0. LogInv /\ Sourced /\ AllEvident
  BY DEF ConnectInv
<1>1. up' = FALSE /\ task' = [h \in Handlers |-> Idle]
      /\ UNCHANGED <<consents, codes, answers, made, log, failed, started>>
  BY DEF Crash, stripe
<1>2. Lasting /\ Sourced'
  BY <1>0, <1>1, NothingTaken
<1>3. LogInv'
  <2>1. Unread' = Unread
    BY <1>1 DEF Unread
  <2>. QED  BY <1>0, <1>1, <2>1 DEF LogInv
<1>4. AllEvident'
  BY <1>0, <1>1, <1>2, LinesEvident
<1>5. ASSUME NEW h \in Handlers
      PROVE  Carries(task[h])'
  <2>1. task'[h].step = "idle"
    BY <1>1, IdleTyped
  <2>. QED  BY <2>1 DEF Carries
<1>. QED  BY <1>2, <1>3, <1>4, <1>5 DEF ConnectInv

\* A restart reads all of the log.
LEMMA RestartEvident ==
    ASSUME ConnectInv, ExchangeInv', Restart
    PROVE  ConnectInv'
<1>0. LogInv /\ Sourced /\ AllEvident /\ FlowTypes
  BY DEF ConnectInv, ExchangeInv
<1>1. /\ ~up /\ up' = TRUE /\ store' = Loaded({}) /\ Loaded({}).sound /\ started' = Len(log)
      /\ UNCHANGED <<consents, codes, answers, made, log, failed, task>>
  BY DEF Restart, stripe, consenting
<1>2. Lasting /\ Sourced'
  BY <1>0, <1>1, NothingTaken
<1>3. LogInv'
  <2>1. Unread' = {}
    <3>1. started' \in Nat /\ failed' \subseteq 1..started'
      BY <1>0, <1>1 DEF LogInv
    <3>2. ASSUME NEW i \in failed', i > started'
          PROVE  FALSE
      <4>1. i \in 1..started'
        BY <3>1
      <4>. QED  BY <3>1, <3>2, <4>1
    <3>. QED  BY <3>2, ZenonT(30) DEF Unread
  <2>2. Loaded({}) = LoadOf(log, {})
    BY LoadedReads
  <2>3. LoadOf(log, {}) \in StoreType
    BY <1>0, LoadFaithful DEF LogInv, Faithful
  <2>4. LoadOf(log, {}).sound = TRUE
    BY <1>1, <2>2, <2>3 DEF StoreType
  <2>5. store' = LoadOf(log, {}) /\ started' \in 0..Len(log)
    BY <1>0, <1>1, <2>2 DEF LogInv
  <2>. QED  BY <1>0, <1>1, <2>1, <2>4, <2>5 DEF LogInv
<1>4. AllEvident'
  BY <1>0, <1>1, <1>2, LinesEvident
<1>5. ASSUME NEW h \in Handlers
      PROVE  Carries(task[h])'
  <2>1. task[h].step = "idle"
    BY <1>1 DEF ConnectInv, Carries
  <2>. QED  BY <1>1, <2>1 DEF Carries
<1>. QED  BY <1>2, <1>3, <1>4, <1>5 DEF ConnectInv

\* Every step keeps the invariant.
LEMMA ConnectInvKept ==
    ASSUME ConnectInv, [Next]_vars
    PROVE  ConnectInv'
<1>0. ExchangeInv' /\ LogInv /\ Sourced /\ AllEvident
  BY ExchangeInvKept DEF ConnectInv
<1>1. CASE UNCHANGED <<consents, codes, answers, made, accounts, up, task>>
  BY <1>0, <1>1, NothingTaken, NoInsert, LinesEvident, NoneMoves DEF accounts
<1>2. CASE \/ \E a \in Accounts : Deauthorize(a)
           \/ \E id \in Consents : Expire(id)
           \/ UNCHANGED vars
  BY <1>1, <1>2 DEF Deauthorize, Expire, stripe, consenting, bindings, accounts, machine, vars
<1>3. ASSUME NEW h \in Handlers, Step(h)
      PROVE  ConnectInv'
  BY <1>0, <1>3, RelinkTargetEvident, RelinkAgreedEvident, FlowEvident, ExchangeEvident, BindEvident,
     FinishEvident DEF Step
<1>4. ASSUME NEW h \in Requests, Drop(h)
      PROVE  ConnectInv'
  <2>1. h \in Handlers /\ Ends(h) /\ FlowTypes
        /\ UNCHANGED <<consents, codes, answers, made, accounts, up>>
    BY <1>4 DEF Drop, Handlers, stripe, consenting, bindings, environment, machine, ConnectInv,
                ExchangeInv
  <2>. QED  BY <1>0, <2>1, NothingTaken, EndsCarries, OneMoves
<1>. QED
  BY <1>0, <1>2, <1>3, <1>4, OnboardEvident, RotateEvident, RelinkEvident, AdoptEvident,
     AuthorizeEvident, ReturnEvident, CrashEvident, RestartEvident DEF Next

\* The initial states satisfy the invariant.
LEMMA ConnectInvHolds ==
    ASSUME Init, ExchangeInv
    PROVE  ConnectInv
<1>1. LogInv
  <2>1. log = <<>> /\ store = EmptyStore /\ up = TRUE /\ failed = {} /\ started = 0
    BY DEF Init
  <2>2. LoadOf(log, Unread) = EmptyStore
    BY <2>1, LoadEmpty
  <2>. QED  BY <2>1, <2>2 DEF LogInv, EmptyStore
<1>2. Sourced /\ AllEvident
  BY DEF Init, Sourced, AllEvident
<1>3. ASSUME NEW h \in Handlers
      PROVE  Carries(task[h])
  BY IdleTyped DEF Init, Carries
<1>. QED  BY <1>1, <1>2, <1>3 DEF ConnectInv

\* What memory holds is what load makes of the lines appended without an error or read back
\* at the last start, and a start that succeeds forgets none of it (LogReloads): load_record
\* accepts whatever onboarding, rotation, relink and adoption append, in any order and by any
\* number of requests, and crashes and failed or torn appends in between change nothing.
THEOREM AccountsReload == Spec => []LogReloads
<1>1. Init => ConnectInv
  BY ExchangeInvInit, ConnectInvHolds
<1>2. ConnectInv /\ [Next]_vars => ConnectInv'
  BY ConnectInvKept
<1>3. ConnectInv => LogReloads
  <2>. SUFFICES ASSUME ConnectInv PROVE LogReloads
    OBVIOUS
  <2>. PICK U, n : U = Unread /\ n = Len(log)
    OBVIOUS
  <2>. PICK s, t : s = LoadOf(log, U) /\ t = LoadOf(log, {})
    OBVIOUS
  <2>1. log \in Seq(Lines) /\ s.sound = TRUE /\ (up => store = s)
    BY DEF ConnectInv, LogInv
  <2>2. Loaded(Unread) = s /\ Loaded({}) = t
    BY LoadedReads
  <2>3. Faithful(s, log, U, n) /\ Faithful(t, log, {}, n)
    BY <2>1, LoadFaithful
  <2>4. ASSUME t.sound, NEW b \in s.bound
        PROVE  b \in t.bound
    <3>1. PICK p \in Providers, a \in Accounts : b = <<p, a>>
      BY <2>3 DEF Faithful, StoreType
    <3>2. PICK k \in 1..n : log[k].provider = p /\ log[k].account = a
      BY <2>1, <2>3, <3>1 DEF Faithful
    <3>3. t.sound = TRUE
      BY <2>3, <2>4 DEF Faithful, StoreType
    <3>. QED  BY <2>3, <3>1, <3>2, <3>3 DEF Faithful
  <2>. QED  BY <2>1, <2>2, <2>4 DEF LogReloads
<1>. QED  BY <1>1, <1>2, <1>3, PTL DEF Spec

\* Every line of the account log has its evidence (BindingJustified): an account made for the
\* provider or chosen by its owner, and given to nobody by an append that succeeded before,
\* or one that an earlier line's provider signed over and, when it is Standard, its owner
\* also consented to through OAuth.
THEOREM AccountsJustified == Spec => []BindingJustified
<1>1. Init => ConnectInv
  BY ExchangeInvInit, ConnectInvHolds
<1>2. ConnectInv /\ [Next]_vars => ConnectInv'
  BY ConnectInvKept
<1>3. ConnectInv => BindingJustified
  <2>. SUFFICES ASSUME ConnectInv, NEW i \in DOMAIN log, log[i] # Torn,
                       NEW p, NEW a, NEW n, p = log[i].provider, a = log[i].account,
                       n = log[i].nonce
                PROVE  LET id == <<p, n>>
                           earlier == {k \in 1..i - 1 : log[k].account = a}
                           free == earlier \subseteq failed
                       IN  \/ free /\ \E m \in {None, n} : made[<<p, m>>] = a
                           \/ free /\ a \in Standard /\ id \in Consents /\ IsAdoption(id)
                              /\ <<id, a>> \in answers
                           \/ /\ id \in Consents /\ consents[id].account = a
                              /\ \E k \in earlier : consents[id].source = log[k].provider
                              /\ a \in Standard => <<id, a>> \in answers
    BY DEF BindingJustified
  <2>1. Evident(p, a, n, Earlier(log, i), Holders(log, i))
    BY DEF ConnectInv, AllEvident, LineEvident
  <2>. QED  BY <2>1 DEF Evident, Earlier, Holders
<1>. QED  BY <1>1, <1>2, <1>3, PTL DEF Spec
=============================================================================
