----------------------------- MODULE HumanCheck -----------------------------
(* Telling people from scripts before a login or a mail: the server that hands *)
(* out challenges and proofs (server-match/src/auth/human-challenge.service.ts, *)
(* auth.controller.ts), the rounds both sides build from one seed              *)
(* (shared/src/humanCheck), and the page that runs a check and uses its proof   *)
(* (client/src/components/auth, pages/auth/LoginPage.tsx).                      *)
(*                                                                            *)
(* Redis is shared by all requests; a request reads a key, and takes it in a    *)
(* later step only if it is still what was read. A request may be delivered a   *)
(* second time, be lost, or be answered after its page has moved on.           *)
EXTENDS Integers, Sequences, FiniteSets

CONSTANTS Tab,               \* open pages
          UseOf,             \* what the page of a tab wants a proof for
          Email, Net,        \* who it is for, and the addresses one may come from
          MaxChallenges,     \* challenges handed out
          IssuesBeforeRound, \* ISSUES_BEFORE_ROUND
          RiskBeforeRound,   \* LOGIN_CHALLENGE_AFTER_FAILURES
          RadioLimit,        \* RADIO_ISSUES_PER_HOUR
          MaxSlips           \* requests lost or repeated, keys run out, addresses changed

ASSUME HumanCheckAssumption ==
  /\ UseOf \in [Tab -> {"login", "mail"}] /\ Email # {} /\ Net # {}
  /\ {MaxChallenges, RiskBeforeRound} \subseteq Nat \ {0}
  /\ {IssuesBeforeRound, RadioLimit, MaxSlips} \subseteq Nat

VARIABLES tabs,       \* what every tab is doing
          posed,      \* the challenges: of what, for whom, with which round, still stored
          proofs,     \* the proofs, by challenge
          calls,      \* verify and use requests on their way
          counts,     \* the counters: issues, radio, failures, login failures
          judged,     \* how often an answer to a challenge was judged
          uses,       \* what the proofs were accepted for
          slips       \* what went wrong around them so far

humanVars == <<tabs, posed, proofs, calls, counts, judged, uses, slips>>

CheckId == 1 .. MaxChallenges
NoCheck == 0

\* Counters go no further than the last value that matters.
Cap(n, top) == IF n > top THEN top ELSE n

HumanInit ==
  /\ tabs = [t \in Tab |-> [at |-> "form", subject |-> CHOOSE e \in Email : TRUE,
                             net |-> CHOOSE n \in Net : TRUE, mode |-> "switch",
                             token |-> NoCheck, proof |-> NoCheck, retried |-> FALSE]]
  /\ posed = <<>> /\ proofs = <<>> /\ calls = {}
  /\ counts = [issues |-> [n \in Net |-> 0], radio |-> [n \in Net |-> 0],
               subject |-> [e \in Email |-> 0], net |-> [n \in Net |-> 0],
               login |-> [e \in Email |-> 0], pair |-> [p \in Email \X Net |-> 0]]
  /\ judged = [t \in CheckId |-> 0] /\ uses = {} /\ slips = 0

-----------------------------------------------------------------------------
(* Rounds. A draw is what the seeded generator yields; angles are for the       *)
(* drawing only.                                                              *)

SwitchDraws ==
  [runners : {4, 5}, openAt : {1900, 2250, 2600}, window : {1000, 1300}, enter : {300, 700},
   inAt : {400, 800}, out : {350, 550}, far : {34, 40}, idle : {32, 42}]
SwitchRange == 22
Grace == 150

\* The keyframes of a runner: <<time, distance>>. The first is the one to press, the
\* next are baits, the others keep away.
CaughtAt(d) == d.openAt + d.window
EndAt(d) == CaughtAt(d) + 500
KeysOf(d, i) ==
  IF i = 1
  THEN <<<<0, 40>>, <<d.openAt - d.enter, 15>>, <<CaughtAt(d) + 300, 17>>, <<EndAt(d), 30>>>>
  ELSE IF i = 2 \/ (i = 3 /\ d.runners = 5)
  THEN <<<<0, 38>>, <<d.inAt, 14>>, <<d.openAt - d.out, 34>>, <<EndAt(d), d.far>>>>
  ELSE <<<<0, 34>>, <<EndAt(d) \div 2, d.idle>>, <<EndAt(d), 42>>>>

\* roundPosition: inside the range at a time, between the two keys around it.
InRange(keys, t) ==
  \E k \in 2 .. Len(keys) :
    LET a == keys[k - 1]
        b == keys[k]
    IN  /\ a[1] <= t /\ t <= b[1]
        /\ a[2] * (b[1] - t) + b[2] * (t - a[1]) <= SwitchRange * (b[1] - a[1])

\* checkSwitchAnswer.
Verdict(d, i, at) ==
  CASE at < d.openAt - Grace -> "early" [] at > CaughtAt(d) + Grace -> "late"
    [] i = 1 -> "ok" [] OTHER -> "wrong"

\* What the arena sends: nothing before the tagger is near, and nothing once caught.
Sends(d, at) == at >= d.openAt - Grace /\ at <= CaughtAt(d) + Grace

Moments(d) == {d.openAt + k : k \in {-Grace - 1, -Grace, 0}} \cup
              {CaughtAt(d) + k : k \in {0, Grace, Grace + 1}}

\* buildRadioRound: the distances of target, bait, walker and idler after each turn.
RadioDraws ==
  {r \in [t1 : 4 .. 6, t2 : 3 .. 5, t3 : 1 .. 2, b1 : 1 .. 2, b2 : 4 .. 6, w1 : 5 .. 7, w2 : 4 .. 6, i : 4 .. 7] :
     r.t2 < r.t1 /\ r.w2 < r.w1}
RadioTurn(r, turn) ==
  CASE turn = 1 -> [target |-> r.t1, bait |-> r.b1, walker |-> r.w1, idle |-> r.i]
    [] turn = 2 -> [target |-> r.t2, bait |-> r.b2, walker |-> r.w1, idle |-> r.i]
    [] OTHER    -> [target |-> r.t3, bait |-> r.b2, walker |-> r.w2, idle |-> r.i]
InRadioRange(r, turn) == {p \in {"target", "bait", "walker", "idle"} : RadioTurn(r, turn)[p] <= 2}

-----------------------------------------------------------------------------
(* The server.                                                                *)

Min2(a, b) == IF a < b THEN a ELSE b
Failures(e, n) == counts.subject[e] + counts.net[n]

\* POW_BITS: the work grows with the risk, and the radio costs more.
BitsFor(failures, issues, mode) ==
  LET over == (issues - IssuesBeforeRound) \div 2
      bits == Min2(19, 16 + failures + IF over > 0 THEN over ELSE 0)
  IN  IF mode = "radio" THEN Min2(20, bits + 2) ELSE bits

Slip == slips < MaxSlips /\ slips' = slips + 1
Tabbed(t, new) == tabs' = [tabs EXCEPT ![t] = new]

\* issue, up to its first counter.
IssueCounts(t) ==
  LET me == tabs[t]
  IN  /\ me.at = "asking" /\ Len(posed) < MaxChallenges
      /\ counts' = [counts EXCEPT !.issues[me.net] = Cap(@ + 1, IssuesBeforeRound + 1)]
      /\ Tabbed(t, [me EXCEPT !.at = "issuing"])
      /\ UNCHANGED <<posed, proofs, calls, judged, uses, slips>>

NeedsRound(me, use) ==
  \/ Failures(me.subject, me.net) > 0 \/ counts.issues[me.net] > IssuesBeforeRound
  \/ use = "login" /\ (counts.login[me.subject] >= RiskBeforeRound
                       \/ counts.pair[<<me.subject, me.net>>] >= RiskBeforeRound)

\* The rest of it: the counters are read, and the challenge is stored and answered.
IssueStores(t) ==
  LET me == tabs[t]
      round == IF NeedsRound(me, UseOf[t]) THEN me.mode ELSE "none"
      radio == IF round = "radio" THEN Cap(counts.radio[me.net] + 1, RadioLimit + 1) ELSE counts.radio[me.net]
  IN  /\ me.at = "issuing" /\ Len(posed) < MaxChallenges
      /\ counts' = [counts EXCEPT !.radio[me.net] = radio]
      /\ IF round = "radio" /\ radio > RadioLimit
         THEN Tabbed(t, [me EXCEPT !.at = "failed"]) /\ UNCHANGED posed
         ELSE /\ posed' = Append(posed,
                   [use |-> UseOf[t], subject |-> me.subject, net |-> me.net, round |-> round, stored |-> TRUE])
              /\ Tabbed(t, [me EXCEPT !.token = Len(posed) + 1,
                                      !.at = IF round = "none" THEN "charging" ELSE "round"])
      /\ UNCHANGED <<proofs, calls, judged, uses, slips>>

\* A request reads its key. What is not there any more is refused (answered below).
RowOf(c) == IF c.kind = "verify" THEN posed[c.token] ELSE proofs[c.token]
CallReads(c) ==
  /\ c.step = "sent"
  /\ calls' = (calls \ {c}) \cup {[c EXCEPT !.step = IF RowOf(c).stored THEN "read" ELSE "refused"]}
  /\ UNCHANGED <<tabs, posed, proofs, counts, judged, uses, slips>>

\* compareAndDelete: whoever finds the key as he read it has it; and a deletion that
\* does not compare.
DeletesAnyway(row) == TRUE
TakesIt(row) == row.stored

\* verify after its read: one answer to a challenge, from the address it was given to,
\* with the work done and the round's answer right. An answer before the round can have
\* been seen or heard is refused too, and is not counted as a failure.
VerifyTakes(c, hasty) ==
  LET ch == posed[c.token]
      mine == TakesIt(ch)
      done == mine /\ ch.net = c.net /\ c.charged
      tooFast == done /\ ch.round # "none" /\ hasty
      passes == done /\ ~tooFast /\ (ch.round # "none" => c.right)
      fails == mine /\ ch.net = c.net /\ ~tooFast /\ ~passes
  IN  /\ c.kind = "verify" /\ c.step = "read"
      /\ posed' = [posed EXCEPT ![c.token].stored = FALSE]
      /\ judged' = [judged EXCEPT ![c.token] = IF mine THEN @ + 1 ELSE @]
      /\ counts' = IF ~fails THEN counts
                   ELSE [counts EXCEPT !.subject[ch.subject] = Cap(@ + 1, 1), !.net[c.net] = Cap(@ + 1, 1)]
      /\ proofs' = IF ~passes THEN proofs
                   ELSE [k \in DOMAIN proofs \cup {c.token} |->
                           IF k = c.token
                           THEN [use |-> ch.use, subject |-> ch.subject, net |-> ch.net, stored |-> TRUE, right |-> c.right]
                           ELSE proofs[k]]
      /\ calls' = (calls \ {c}) \cup {[c EXCEPT !.step = IF passes THEN "granted" ELSE "refused"]}
      /\ UNCHANGED <<tabs, uses, slips>>

\* consumeProof after its read, and what the controller does then: a login with the
\* right password or a wrong one, or a mail.
UseTakes(c, password) ==
  LET row == proofs[c.token]
      fits == row.use = c.use /\ row.subject = c.subject /\ row.net = c.net
      mine == fits /\ TakesIt(row)
      key == <<c.subject, c.net>>
  IN  /\ c.kind = "use" /\ c.step = "read"
      /\ proofs' = IF fits THEN [proofs EXCEPT ![c.token].stored = FALSE] ELSE proofs
      /\ uses' = IF mine THEN uses \cup {[token |-> c.token, use |-> c.use, subject |-> c.subject,
                                          net |-> c.net, copy |-> c.copy, tab |-> c.tab]} ELSE uses
      /\ counts' = IF ~mine \/ c.use = "mail" THEN counts
                   ELSE IF password THEN [counts EXCEPT !.login[c.subject] = 0, !.pair[key] = 0]
                   ELSE [counts EXCEPT !.login[c.subject] = Cap(@ + 1, RiskBeforeRound),
                                       !.pair[key] = Cap(@ + 1, RiskBeforeRound)]
      /\ calls' = (calls \ {c}) \cup {[c EXCEPT !.step = CASE ~mine -> "refused" [] password -> "granted"
                                                          [] OTHER -> "denied"]}
      /\ UNCHANGED <<tabs, posed, judged, slips>>

\* What is kept in Redis runs out.
ChallengeExpires(k) ==
  /\ posed[k].stored
  /\ posed' = [posed EXCEPT ![k].stored = FALSE]
  /\ Slip /\ UNCHANGED <<tabs, proofs, calls, counts, judged, uses>>
ProofExpires(k) ==
  /\ proofs[k].stored
  /\ proofs' = [proofs EXCEPT ![k].stored = FALSE]
  /\ Slip /\ UNCHANGED <<tabs, posed, calls, counts, judged, uses>>

-----------------------------------------------------------------------------
(* The page.                                                                  *)

Call(t, kind, token, charged, right) ==
  [tab |-> t, kind |-> kind, token |-> token, use |-> UseOf[t], subject |-> tabs[t].subject,
   net |-> tabs[t].net, charged |-> charged, right |-> right, step |-> "sent", copy |-> 1]

\* submit and humanCheck.run: the mode is the one the motion setting asks for.
Submit(t, e, mode) ==
  /\ tabs[t].at = "form" /\ Len(posed) < MaxChallenges
  /\ Tabbed(t, [tabs[t] EXCEPT !.at = "asking", !.subject = e, !.mode = mode, !.retried = FALSE])
  /\ UNCHANGED <<posed, proofs, calls, counts, judged, uses, slips>>

\* The request for a challenge fails on the way.
IssueFails(t) ==
  /\ tabs[t].at \in {"asking", "issuing"}
  /\ Tabbed(t, [tabs[t] EXCEPT !.at = "failed"])
  /\ Slip /\ UNCHANGED <<posed, proofs, calls, counts, judged, uses>>

Sent(t, call, at) ==
  /\ calls' = calls \cup {call}
  /\ Tabbed(t, [tabs[t] EXCEPT !.at = at])
  /\ UNCHANGED <<posed, proofs, counts, judged, uses, slips>>

\* The charge is complete, and no round was asked for.
Charged(t) ==
  tabs[t].at = "charging" /\ Sent(t, Call(t, "verify", tabs[t].token, TRUE, FALSE), "sending")

\* choose and answer: the number pressed is sent, right or wrong, once the charge is there.
Press(t, right) ==
  tabs[t].at = "round" /\ Sent(t, Call(t, "verify", tabs[t].token, TRUE, right), "sending")

AnswerIsOut(t) == tabs[t].at = "sending" /\ posed[tabs[t].token].round # "none"

\* restart: again, or with the radio instead. The arena offers it while an answer is out.
Restart(t, mode) ==
  /\ \/ tabs[t].at \in {"round", "failed"}
     \/ AnswerIsOut(t) /\ mode = "radio" /\ posed[tabs[t].token].round = "switch"
  /\ Len(posed) < MaxChallenges
  /\ Tabbed(t, [tabs[t] EXCEPT !.at = "asking", !.mode = mode])
  /\ UNCHANGED <<posed, proofs, calls, counts, judged, uses, slips>>

\* The dialog is closed: the session ends without a proof.
Close(t) ==
  /\ tabs[t].at \in {"round", "failed"} \/ AnswerIsOut(t)
  /\ Tabbed(t, [tabs[t] EXCEPT !.at = "form"])
  /\ UNCHANGED <<posed, proofs, calls, counts, judged, uses, slips>>

CheckOpen(t) == tabs[t].at \in {"asking", "issuing", "charging", "round", "sending", "failed"}

\* The answer to verify. A proof ends whichever session is open when it was for a
\* round, and otherwise the one that asked; an error is shown where it is awaited.
VerifyAnswered(c) ==
  LET t == c.tab
      awaited == tabs[t].at = "sending" /\ tabs[t].token = c.token
      round == posed[c.token].round # "none"
  IN  /\ c.kind = "verify" /\ c.step \in {"granted", "refused"} /\ c.copy = 1
      /\ tabs' = IF c.step = "granted" /\ (awaited \/ (round /\ CheckOpen(t)))
                 THEN [tabs EXCEPT ![t].at = "proved", ![t].proof = c.token]
                 ELSE IF c.step = "refused" /\ awaited THEN [tabs EXCEPT ![t].at = "failed"] ELSE tabs
      /\ calls' = calls \ {c}
      /\ UNCHANGED <<posed, proofs, counts, judged, uses, slips>>

UseProof(t) ==
  tabs[t].at = "proved" /\ Sent(t, Call(t, "use", tabs[t].proof, TRUE, TRUE), "using")

\* The answer to the login: in, back at the form, or once more for a proof.
UseAnswered(c) ==
  LET t == c.tab
      again == c.step = "refused" /\ ~tabs[t].retried /\ UseOf[t] = "login" /\ Len(posed) < MaxChallenges
  IN  /\ c.kind = "use" /\ c.step \in {"granted", "denied", "refused"} /\ c.copy = 1
      /\ Tabbed(t, [tabs[t] EXCEPT !.at = CASE c.step = "granted" -> "in" [] again -> "asking" [] OTHER -> "form",
                                   !.retried = again])
      /\ calls' = calls \ {c}
      /\ UNCHANGED <<posed, proofs, counts, judged, uses, slips>>

\* The network: a request is delivered twice, or it or its answer is lost and the
\* page is told so.
Again(c) ==
  /\ c.copy = 1 /\ c.step \in {"sent", "read"} /\ ~ \E d \in calls : d.copy = 2
  /\ calls' = calls \cup {[c EXCEPT !.copy = 2, !.step = "sent"]}
  /\ Slip /\ UNCHANGED <<tabs, posed, proofs, counts, judged, uses>>

CallLost(c) ==
  LET t == c.tab
  IN  /\ calls' = calls \ {c}
      /\ tabs' = CASE c.copy = 2 -> tabs
                   [] c.kind = "use" -> [tabs EXCEPT ![t].at = "form"]
                   [] tabs[t].at = "sending" /\ tabs[t].token = c.token -> [tabs EXCEPT ![t].at = "failed"]
                   [] OTHER -> tabs
      /\ Slip /\ UNCHANGED <<posed, proofs, counts, judged, uses>>

ChangeNet(t, n) ==
  /\ n # tabs[t].net
  /\ Tabbed(t, [tabs[t] EXCEPT !.net = n])
  /\ Slip /\ UNCHANGED <<posed, proofs, calls, counts, judged, uses>>

HumanNext ==
  \/ \E t \in Tab :
       \/ IssueCounts(t) \/ IssueStores(t) \/ IssueFails(t) \/ Charged(t) \/ Close(t) \/ UseProof(t)
       \/ \E e \in Email, mode \in {"switch", "radio"} : Submit(t, e, mode)
       \/ \E mode \in {"switch", "radio"} : Restart(t, mode)
       \/ \E right \in BOOLEAN : Press(t, right)
       \/ \E n \in Net : ChangeNet(t, n)
  \/ \E c \in calls :
       \/ CallReads(c) \/ VerifyAnswered(c) \/ UseAnswered(c) \/ Again(c) \/ CallLost(c)
       \/ \E hasty \in BOOLEAN : VerifyTakes(c, hasty)
       \/ \E password \in BOOLEAN : UseTakes(c, password)
  \/ \E k \in 1 .. Len(posed) : ChallengeExpires(k)
  \/ \E k \in DOMAIN proofs : ProofExpires(k)

HumanSpec == HumanInit /\ [][HumanNext]_humanVars

-----------------------------------------------------------------------------
\* A challenge is judged once, however often its answer arrives, and a proof is taken
\* once, by the use, for the person and from the address it was given for; where a
\* round was asked for it was answered right (verify, consumeProof).
EachProofIsEarned ==
  /\ \A k \in CheckId : judged[k] <= 1
  /\ \A k \in DOMAIN proofs : posed[k].round # "none" => proofs[k].right
  /\ \A u \in uses : /\ posed[u.token].subject = u.subject /\ posed[u.token].net = u.net
                     /\ posed[u.token].use = u.use
                     /\ \A v \in uses : v.token = u.token => v = u

\* A page that waits for an answer has a request on its way (submit, choose, finish).
NoPageWaitsForNothing ==
  \A t \in Tab :
    /\ tabs[t].at = "sending" =>
         \E c \in calls : c.tab = t /\ c.kind = "verify" /\ c.token = tabs[t].token /\ c.copy = 1
    /\ tabs[t].at = "using" => \E c \in calls : c.tab = t /\ c.kind = "use" /\ c.copy = 1

\* The rounds can be won by looking: while an answer is taken the one to press is in
\* range and nobody else is; whoever presses it when the arena lets him has the
\* server's yes; the relay ends with the target alone in range and begins with the
\* bait; and the radio always costs more work (buildSwitchRound, checkSwitchAnswer,
\* buildRadioRound, POW_BITS).
RoundsAreFair ==
  /\ \A d \in SwitchDraws : \A at \in Moments(d) :
       Sends(d, at) => /\ \A i \in 1 .. d.runners : InRange(KeysOf(d, i), at) <=> Verdict(d, i, at) = "ok"
                       /\ Verdict(d, 1, at) = "ok"
  /\ \A r \in RadioDraws : InRadioRange(r, 1) = {"bait"} /\ InRadioRange(r, 3) = {"target"}
  /\ \A f \in 0 .. 5, i \in 0 .. 15 : BitsFor(f, i, "radio") > BitsFor(f, i, "switch")

\* The check lets people through, and nobody twice.
ChecksHold == EachProofIsEarned /\ NoPageWaitsForNothing /\ RoundsAreFair

=============================================================================
