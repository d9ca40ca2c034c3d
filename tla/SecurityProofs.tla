--------------------------- MODULE SecurityProofs ---------------------------
(***************************************************************************)
(* Proofs about Security, for all sets of addresses and passwords, all     *)
(* lives of codes and links and all limits.                                *)
(*                                                                         *)
(* An operation is put together from a few kinds of changes: one that      *)
(* leaves the challenges alone (Kept), one of a single challenge (Edited), *)
(* a new challenge (Added) and a higher revision (Renewed). Each keeps     *)
(* Good; Apart holds between transactions only, because Tx notes a tie at  *)
(* the end of one.                                                         *)
(***************************************************************************)
EXTENDS Security, TLAPS

Buckets == ({"mail", "check"} \X CodePurposes) \cup ({"password"} \X Emails) \cup {Reauth}

Limits == UNION {[B -> [n : Nat, exp : Nat]] : B \in SUBSET Buckets}

Accounts == [email : Emails \cup {"none"}, password : Passwords \cup {"none"},
             verified : BOOLEAN, code : BOOLEAN, rev : Nat]

Chals == [purpose : Purposes, email : Emails, browser : BOOLEAN, rev : Nat, exp : Nat,
          sent : Nat, tries : Nat, sends : Nat, used : BOOLEAN, gen : Nat, uses : Nat,
          late : BOOLEAN]

SessionRows == [live : BOOLEAN, created : Nat, gen : Nat]

Dbs == [account : Accounts, chal : Seq(Chals), sessions : Seq(SessionRows), limits : Limits,
        gen : Nat, cancels : Nat, tied : SUBSET Purposes]

\* The challenge can still be accepted.
Live(d, c) == CheckChallenge(d, c, d.chal[c].purpose)

\* A challenge of an account with revision rev after g changes: one of the current
\* revision was made after the last change.
ChalOK(c, rev, g) ==
    /\ c.sends \in 1..SendsPerCode
    /\ c.tries \in 0..(IF c.used THEN TriesPerCode ELSE TriesPerCode - 1)
    /\ c.rev <= rev
    /\ c.sent <= clock
    /\ c.uses <= 1
    /\ c.uses = 1 => c.used
    /\ ~c.late
    /\ c.rev = rev => c.gen = g

ChalsOK(d) == \A c \in DOMAIN d.chal : ChalOK(d.chal[c], d.account.rev, d.gen + d.cancels)

AccountOK(d) ==
    \/ d.account = NoAccount /\ d.chal = <<>> /\ d.sessions = <<>>
    \/ d.account.email \in Emails /\ d.account.password \in Passwords

SessionsOK(d) == \A s \in DOMAIN d.sessions : d.sessions[s].live => d.sessions[s].gen = d.gen

LimitsOK(d) == \A b \in DOMAIN d.limits : d.limits[b].n <= BudgetOf(b)

\* A challenge that can be accepted was mailed last, where mails can be told apart.
OrderOK(d) ==
    \A c, e \in DOMAIN d.chal :
        (d.chal[c].purpose = d.chal[e].purpose /\ d.chal[c].purpose \notin d.tied /\ Live(d, c))
        => d.chal[e].sent <= d.chal[c].sent

\* Links of one purpose are mailed at different times; both links of a change of email
\* are mailed together.
LinksOK(d) ==
    /\ d.tied \cap Links = {}
    /\ \A c, e \in DOMAIN d.chal :
           (c # e /\ d.chal[c].purpose = d.chal[e].purpose /\ d.chal[c].purpose \in Links)
           => d.chal[e].sent # d.chal[c].sent
    /\ \A c \in DOMAIN d.chal : d.chal[c].purpose = "cancel_email" =>
           \E e \in DOMAIN d.chal :
               d.chal[e].purpose = "change_email" /\ d.chal[e].sent = d.chal[c].sent

Good(d) ==
    /\ d \in Dbs
    /\ ChalsOK(d)
    /\ AccountOK(d)
    /\ SessionsOK(d)
    /\ LimitsOK(d)
    /\ OrderOK(d)
    /\ LinksOK(d)

Apart(d) == Tied(d) \subseteq d.tied

\* The inductive invariant.
Inv ==
    /\ clock \in 0..MaxTime
    /\ Good(db)
    /\ Apart(db)

----------------------------------------------------------------------------
(* The kinds of changes *)

\* The limits of the configuration (newService's constants) are numbers.
LEMMA Numbers ==
    /\ CodeTTL \in Nat /\ LinkTTL \in Nat /\ VerifyTTL \in Nat /\ Window \in Nat
    /\ Cooldown \in Nat /\ AttemptLimit \in Nat /\ MailBudget \in Nat /\ CheckBudget \in Nat
    /\ MaxTime \in Nat
    /\ ResendDelay \in Nat /\ ResendDelay > 0
    /\ TriesPerCode \in Nat /\ TriesPerCode > 0
    /\ SendsPerCode \in Nat /\ SendsPerCode > 0
    /\ FirstEmail \in Emails /\ "none" \notin Emails
BY SecurityAssumption

\* Everything but the challenges, the revision and the counts of changes.
Kept(d, e) ==
    /\ e \in Dbs
    /\ e.chal = d.chal /\ e.gen = d.gen /\ e.cancels = d.cancels /\ e.tied = d.tied
    /\ e.account.rev = d.account.rev
    /\ AccountOK(e)
    /\ SessionsOK(e)
    /\ LimitsOK(e)

\* What is outside a challenge's table may change in any way its own condition allows
\* (Issue, RevokeSession, ReserveBudget, ResetAttempts): the challenges stay good.
LEMMA KeptGood ==
    ASSUME NEW d, NEW e, Good(d), Kept(d, e)
    PROVE  Good(e) /\ (Apart(d) => Apart(e))
<1>1. e.chal = d.chal /\ e.tied = d.tied /\ e.account.rev = d.account.rev
      /\ e.gen = d.gen /\ e.cancels = d.cancels
  BY DEF Kept
<1>2. \A c : Live(e, c) <=> Live(d, c)
  BY <1>1, Zenon DEF Live, CheckChallenge
<1>3. ChalsOK(e)
  BY <1>1 DEF Good, ChalsOK
<1>4. OrderOK(e)
  BY <1>1, <1>2 DEF Good, OrderOK
<1>5. LinksOK(e)
  BY <1>1 DEF Good, LinksOK
<1>6. Apart(d) => Apart(e)
  BY <1>1 DEF Apart, Tied
<1> QED
  BY <1>3, <1>4, <1>5, <1>6 DEF Good, Kept

\* A higher revision outdates every challenge, so the counts of changes may move with it.
Renewed(d, e) ==
    /\ e \in Dbs
    /\ e.chal = d.chal /\ e.tied = d.tied
    /\ e.account.rev > d.account.rev
    /\ AccountOK(e)
    /\ SessionsOK(e)
    /\ LimitsOK(e)

\* increment invalidates all outstanding challenges.
LEMMA RenewedGood ==
    ASSUME NEW d, NEW e, Good(d), Renewed(d, e)
    PROVE  Good(e) /\ (Apart(d) => Apart(e)) /\ \A c \in DOMAIN e.chal : ~Live(e, c)
<1>1. e.chal = d.chal /\ e.tied = d.tied /\ e.account.rev > d.account.rev
  BY DEF Renewed
<1>0. d \in Dbs /\ e \in Dbs
  BY DEF Good, Renewed
<1>2. ASSUME NEW c \in DOMAIN e.chal
      PROVE  e.chal[c].rev < e.account.rev /\ ChalOK(e.chal[c], e.account.rev, e.gen + e.cancels)
  <2>1. c \in DOMAIN d.chal /\ ChalOK(d.chal[c], d.account.rev, d.gen + d.cancels)
    BY <1>1 DEF Good, ChalsOK
  <2>2. d.chal[c] \in Chals
    BY <2>1, <1>0 DEF Dbs
  <2>3. d.account.rev \in Nat /\ e.account.rev \in Nat /\ d.chal[c].rev \in Nat
    BY <2>2, <1>0, Zenon DEF Dbs, Accounts, Chals
  <2>4. d.chal[c].rev < e.account.rev
    BY <2>1, <2>3, <1>1 DEF ChalOK
  <2> QED
    BY <2>1, <2>3, <2>4, <1>1 DEF ChalOK
<1>3. ASSUME NEW c \in DOMAIN e.chal PROVE ~Live(e, c)
  <2>1. e.chal[c].rev < e.account.rev
    BY <1>2
  <2>2. e.chal[c] \in Chals /\ e.account \in Accounts
    BY <1>0 DEF Dbs
  <2>3. e.chal[c].rev # e.account.rev
    BY <2>1, <2>2 DEF Chals, Accounts
  <2> QED
    BY <2>3 DEF Live, CheckChallenge
<1>4. ChalsOK(e)
  BY <1>2 DEF ChalsOK
<1>5. OrderOK(e)
  BY <1>3 DEF OrderOK
<1>6. LinksOK(e)
  BY <1>1 DEF Good, LinksOK
<1>7. Apart(d) => Apart(e)
  BY <1>1 DEF Apart, Tied
<1> QED
  BY <1>3, <1>4, <1>5, <1>6, <1>7 DEF Good, Renewed

\* One challenge c changes; it is mailed again only if it is a code that can be accepted.
Edited(d, e, c) ==
    /\ e \in Dbs
    /\ e.account = d.account /\ e.sessions = d.sessions
    /\ e.gen = d.gen /\ e.cancels = d.cancels /\ e.tied = d.tied
    /\ LimitsOK(e)
    /\ DOMAIN e.chal = DOMAIN d.chal
    /\ c \in DOMAIN d.chal
    /\ \A k \in DOMAIN d.chal : k # c => e.chal[k] = d.chal[k]
    /\ e.chal[c].purpose = d.chal[c].purpose
    /\ e.chal[c].rev = d.chal[c].rev
    /\ e.chal[c].exp = d.chal[c].exp
    /\ d.chal[c].used => e.chal[c].used
    /\ ChalOK(e.chal[c], d.account.rev, d.gen + d.cancels)
    /\ \/ e.chal[c].sent = d.chal[c].sent
       \/ e.chal[c].sent = clock /\ Live(d, c) /\ d.chal[c].purpose \notin Links

\* A challenge that can be accepted is the latest of its purpose, so another mail of it
\* keeps the order (replaceCode).
LEMMA EditedGood ==
    ASSUME NEW d, NEW e, NEW c, Good(d), Apart(d), Edited(d, e, c), clock \in Nat
    PROVE  Good(e)
<1>0. d \in Dbs /\ e \in Dbs
  BY DEF Good, Edited
<1>1. /\ DOMAIN e.chal = DOMAIN d.chal /\ e.tied = d.tied /\ e.account = d.account
      /\ e.sessions = d.sessions /\ e.gen = d.gen /\ e.cancels = d.cancels
      /\ c \in DOMAIN d.chal
  BY DEF Edited
<1>2. ASSUME NEW k \in DOMAIN d.chal
      PROVE  /\ e.chal[k].purpose = d.chal[k].purpose
             /\ Live(e, k) => Live(d, k)
             /\ d.chal[k].sent \in Nat /\ e.chal[k].sent \in Nat
             /\ d.chal[k].sent <= clock
  <2>1. d.chal[k] \in Chals /\ e.chal[k] \in Chals
    BY <1>0, <1>1 DEF Dbs
  <2>2. d.chal[k].sent <= clock
    BY DEF Good, ChalsOK, ChalOK
  <2>3. d.chal[k].sent \in Nat /\ e.chal[k].sent \in Nat
    BY <2>1 DEF Chals
  <2>4. CASE k = c
    <3>1. /\ e.chal[c].purpose = d.chal[c].purpose /\ e.chal[c].rev = d.chal[c].rev
          /\ e.chal[c].exp = d.chal[c].exp /\ (d.chal[c].used => e.chal[c].used)
      BY DEF Edited
    <3>2. Live(e, c) => Live(d, c)
      BY <3>1, <1>1, Zenon DEF Live, CheckChallenge
    <3> QED
      BY <2>2, <2>3, <2>4, <3>1, <3>2
  <2>5. CASE k # c
    <3>1. e.chal[k] = d.chal[k]
      BY <2>5 DEF Edited
    <3>2. Live(e, k) => Live(d, k)
      BY <3>1, <1>1, Zenon DEF Live, CheckChallenge
    <3> QED
      BY <2>2, <2>3, <3>1, <3>2
  <2> QED
    BY <2>4, <2>5
<1>3. ChalsOK(e)
  BY <1>1 DEF Good, ChalsOK, Edited
<1>4. OrderOK(e)
  <2> SUFFICES ASSUME NEW k \in DOMAIN d.chal, NEW j \in DOMAIN d.chal,
                      e.chal[k].purpose = e.chal[j].purpose, e.chal[k].purpose \notin d.tied,
                      Live(e, k)
               PROVE  e.chal[j].sent <= e.chal[k].sent
    BY <1>1 DEF OrderOK
  <2>1. /\ d.chal[k].purpose = d.chal[j].purpose /\ d.chal[k].purpose \notin d.tied
        /\ Live(d, k)
    BY <1>2
  <2>2. d.chal[j].sent <= d.chal[k].sent
    BY <2>1 DEF Good, OrderOK
  <2>3. CASE e.chal[c].sent = d.chal[c].sent
    <3>1. e.chal[j].sent = d.chal[j].sent /\ e.chal[k].sent = d.chal[k].sent
      BY <2>3 DEF Edited
    <3> QED
      BY <2>2, <3>1
  <2>4. CASE e.chal[c].sent = clock /\ Live(d, c)
    <3>1. CASE k = c
      <4>1. e.chal[j].sent <= clock
        BY <1>2, <1>3, <1>1 DEF ChalsOK, ChalOK
      <4> QED
        BY <4>1, <3>1, <2>4
    <3>2. CASE k # c /\ j # c
      BY <2>2, <3>2 DEF Edited
    <3>3. CASE k # c /\ j = c
      <4>1. d.chal[k].sent <= d.chal[c].sent
        BY <2>1, <2>4, <3>3 DEF Good, OrderOK
      <4>2. d.chal[k].sent = d.chal[c].sent
        BY <4>1, <2>2, <3>3, <1>2
      <4>0. d.chal[k] \in Chals
        BY <1>0 DEF Dbs
      <4>3. d.chal[k].purpose \in Purposes
        BY <4>0 DEF Chals
      <4>4. d.chal[k].purpose \in Tied(d)
        BY <4>2, <4>3, <2>1, <3>3 DEF Tied
      <4> QED
        BY <4>4, <2>1 DEF Apart
    <3> QED
      BY <3>1, <3>2, <3>3
  <2> QED
    BY <2>3, <2>4 DEF Edited
<1>5. LinksOK(e)
  <2>1. \A k \in DOMAIN d.chal : d.chal[k].purpose \in Links => e.chal[k].sent = d.chal[k].sent
    BY DEF Edited
  <2>2. "cancel_email" \in Links /\ "change_email" \in Links
    BY DEF Links
  <2>3. ASSUME NEW k \in DOMAIN e.chal, NEW j \in DOMAIN e.chal, k # j,
               e.chal[k].purpose = e.chal[j].purpose, e.chal[k].purpose \in Links
        PROVE  e.chal[j].sent # e.chal[k].sent
    BY <2>1, <2>3, <1>1, <1>2 DEF Good, LinksOK
  <2>4. ASSUME NEW k \in DOMAIN e.chal, e.chal[k].purpose = "cancel_email"
        PROVE  \E j \in DOMAIN e.chal :
                   e.chal[j].purpose = "change_email" /\ e.chal[j].sent = e.chal[k].sent
    <3>1. PICK j \in DOMAIN d.chal :
              d.chal[j].purpose = "change_email" /\ d.chal[j].sent = d.chal[k].sent
      BY <2>4, <1>1, <1>2 DEF Good, LinksOK
    <3> QED
      BY <3>1, <2>1, <2>2, <2>4, <1>1, <1>2
  <2>5. e.tied \cap Links = {}
    BY DEF Edited, Good, LinksOK
  <2> QED
    BY <2>3, <2>4, <2>5 DEF LinksOK
<1>6. AccountOK(e)
  <2>1. d.chal = <<>> => e.chal = <<>>
    <3> SUFFICES ASSUME d.chal = <<>> PROVE FALSE
      OBVIOUS
    <3> QED
      BY <1>1
  <2> QED
    BY <2>1, <1>1 DEF Good, AccountOK
<1>7. SessionsOK(e)
  BY <1>1 DEF Good, SessionsOK
<1> QED
  BY <1>0, <1>3, <1>4, <1>5, <1>6, <1>7 DEF Good, Edited

\* A new challenge n of a purpose of which none can be accepted, or whose order is lost.
Added(d, e, n) ==
    /\ n \in Chals
    /\ ChalOK(n, d.account.rev, d.gen + d.cancels)
    /\ n.sent = clock
    /\ n.purpose \in d.tied \/ \A c \in DOMAIN d.chal : d.chal[c].purpose = n.purpose => ~Live(d, c)
    /\ n.purpose \in Links =>
           \A c \in DOMAIN d.chal : d.chal[c].purpose = n.purpose => d.chal[c].sent < clock
    /\ n.purpose = "cancel_email" =>
           \E c \in DOMAIN d.chal : d.chal[c].purpose = "change_email" /\ d.chal[c].sent = clock
    /\ d.account # NoAccount
    /\ e \in Dbs
    /\ e.account = d.account /\ e.sessions = d.sessions
    /\ e.gen = d.gen /\ e.cancels = d.cancels /\ e.tied = d.tied
    /\ LimitsOK(e)
    /\ DOMAIN e.chal = 1..(Len(d.chal) + 1)
    /\ e.chal[Len(d.chal) + 1] = n
    /\ \A k \in DOMAIN d.chal : e.chal[k] = d.chal[k]

\* A challenge is added at the present time, after all others (createCode, tokenChallenge).
LEMMA AddedGood ==
    ASSUME NEW d, NEW e, NEW n, Good(d), Added(d, e, n), clock \in Nat
    PROVE  Good(e)
<1> DEFINE m == Len(d.chal) + 1
<1>0. d \in Dbs /\ e \in Dbs /\ n \in Chals
  BY DEF Good, Added
<1>1. /\ e.tied = d.tied /\ e.account = d.account /\ e.sessions = d.sessions
      /\ e.gen = d.gen /\ e.cancels = d.cancels
  BY DEF Added
<1>2. /\ d.chal \in Seq(Chals) /\ e.chal \in Seq(Chals)
      /\ DOMAIN d.chal = 1..Len(d.chal) /\ Len(d.chal) \in Nat
  BY <1>0 DEF Dbs
<1>3. /\ DOMAIN e.chal = 1..(Len(d.chal) + 1)
      /\ e.chal[Len(d.chal) + 1] = n
      /\ \A k \in DOMAIN d.chal : e.chal[k] = d.chal[k]
  BY DEF Added
<1>4. /\ DOMAIN e.chal = DOMAIN d.chal \cup {m}
      /\ m \notin DOMAIN d.chal
      /\ e.chal[m] = n
      /\ \A k \in DOMAIN d.chal : e.chal[k] = d.chal[k]
  BY <1>2, <1>3, <1>0
<1> HIDE DEF m
<1>5. \A k \in DOMAIN d.chal : Live(e, k) <=> Live(d, k)
  BY <1>1, <1>4, Zenon DEF Live, CheckChallenge
<1>6. ASSUME NEW k \in DOMAIN d.chal
      PROVE  d.chal[k].sent \in Nat /\ d.chal[k].sent <= clock
  <2>1. d.chal[k] \in Chals
    BY <1>2
  <2> QED
    BY <2>1 DEF Chals, Good, ChalsOK, ChalOK
<1>7. n.sent = clock
  BY DEF Added
<1>8. ChalsOK(e)
  BY <1>1, <1>4 DEF Good, ChalsOK, Added
<1>9. OrderOK(e)
  <2> SUFFICES ASSUME NEW k \in DOMAIN e.chal, NEW j \in DOMAIN e.chal,
                      e.chal[k].purpose = e.chal[j].purpose, e.chal[k].purpose \notin e.tied,
                      Live(e, k)
               PROVE  e.chal[j].sent <= e.chal[k].sent
    BY DEF OrderOK
  <2>1. CASE k = m
    BY <2>1, <1>4, <1>6, <1>7
  <2>2. CASE k # m /\ j = m
    <3>1. k \in DOMAIN d.chal /\ d.chal[k].purpose = n.purpose /\ n.purpose \notin d.tied /\ Live(d, k)
      BY <2>2, <1>1, <1>4, <1>5
    <3> QED
      BY <3>1 DEF Added
  <2>3. CASE k # m /\ j # m
    <3>1. k \in DOMAIN d.chal /\ j \in DOMAIN d.chal
      BY <2>3, <1>4
    <3> QED
      BY <3>1, <1>1, <1>4, <1>5 DEF Good, OrderOK
  <2> QED
    BY <2>1, <2>2, <2>3
<1>10. LinksOK(e)
  <2>1. ASSUME NEW k \in DOMAIN e.chal, NEW j \in DOMAIN e.chal, k # j,
               e.chal[k].purpose = e.chal[j].purpose, e.chal[k].purpose \in Links
        PROVE  e.chal[j].sent # e.chal[k].sent
    <3>0. n.purpose \in Links =>
              \A c \in DOMAIN d.chal : d.chal[c].purpose = n.purpose => d.chal[c].sent < clock
      BY DEF Added
    <3>1. CASE k = m
      <4>1. j \in DOMAIN d.chal /\ d.chal[j].purpose = n.purpose /\ n.purpose \in Links
        BY <2>1, <3>1, <1>4
      <4>2. d.chal[j].sent < clock
        BY <4>1, <3>0
      <4> QED
        BY <4>1, <4>2, <3>1, <1>4, <1>6, <1>7
    <3>2. CASE j = m
      <4>1. k \in DOMAIN d.chal /\ d.chal[k].purpose = n.purpose /\ n.purpose \in Links
        BY <2>1, <3>2, <1>4
      <4>2. d.chal[k].sent < clock
        BY <4>1, <3>0
      <4> QED
        BY <4>1, <4>2, <3>2, <1>4, <1>6, <1>7
    <3>3. CASE k # m /\ j # m
      <4>1. k \in DOMAIN d.chal /\ j \in DOMAIN d.chal
        BY <3>3, <1>4
      <4> QED
        BY <4>1, <2>1, <1>4 DEF Good, LinksOK
    <3> QED
      BY <3>1, <3>2, <3>3
  <2>2. ASSUME NEW k \in DOMAIN e.chal, e.chal[k].purpose = "cancel_email"
        PROVE  \E j \in DOMAIN e.chal :
                   e.chal[j].purpose = "change_email" /\ e.chal[j].sent = e.chal[k].sent
    <3>1. CASE k = m
      <4>1. PICK j \in DOMAIN d.chal : d.chal[j].purpose = "change_email" /\ d.chal[j].sent = clock
        BY <2>2, <3>1, <1>4 DEF Added
      <4> QED
        BY <4>1, <3>1, <1>4, <1>7
    <3>2. CASE k # m
      <4>1. PICK j \in DOMAIN d.chal :
                d.chal[j].purpose = "change_email" /\ d.chal[j].sent = d.chal[k].sent
        BY <2>2, <3>2, <1>4 DEF Good, LinksOK
      <4> QED
        BY <4>1, <3>2, <1>4
    <3> QED
      BY <3>1, <3>2
  <2>3. e.tied \cap Links = {}
    BY DEF Added, Good, LinksOK
  <2> QED
    BY <2>1, <2>2, <2>3 DEF LinksOK
<1>11. AccountOK(e)
  BY <1>1 DEF Good, AccountOK, Added
<1>12. SessionsOK(e)
  BY <1>1 DEF Good, SessionsOK
<1> QED
  BY <1>0, <1>8, <1>9, <1>10, <1>11, <1>12 DEF Good, Added

----------------------------------------------------------------------------
(* Counters *)

\* Only the counters differ.
SameRest(d, e) ==
    /\ e \in Dbs
    /\ e.account = d.account /\ e.chal = d.chal /\ e.sessions = d.sessions
    /\ e.gen = d.gen /\ e.cancels = d.cancels /\ e.tied = d.tied
    /\ LimitsOK(e)

\* Counters say nothing about the rest.
LEMMA SameRestGood ==
    ASSUME NEW d, NEW e, Good(d), SameRest(d, e)
    PROVE  Good(e) /\ (Apart(d) => Apart(e)) /\ \A c : Live(e, c) <=> Live(d, c)
<1>1. e.chal = d.chal /\ e.account = d.account /\ e.sessions = d.sessions /\ e.gen = d.gen
  BY DEF SameRest
<1>2. \A c : Live(e, c) <=> Live(d, c)
  BY <1>1, Zenon DEF Live, CheckChallenge
<1>3. AccountOK(e)
  BY <1>1 DEF Good, AccountOK
<1>4. SessionsOK(e)
  BY <1>1 DEF Good, SessionsOK
<1>5. Kept(d, e)
  BY <1>3, <1>4 DEF Kept, SameRest
<1> QED
  BY <1>2, <1>5, KeptGood

\* A counter has its own limit, whatever it is called.
LEMMA Budgets ==
    /\ \A p : BudgetOf(<<"mail", p>>) = MailBudget
    /\ \A p : BudgetOf(<<"check", p>>) = CheckBudget
    /\ \A e : BudgetOf(<<"password", e>>) = AttemptLimit
    /\ BudgetOf(Reauth) = AttemptLimit
BY DEF BudgetOf, Reauth

\* UPDATE auth.login_limits of one counter.
LEMMA SaveLimitKeeps ==
    ASSUME NEW d \in Dbs, LimitsOK(d), NEW b \in Buckets, NEW l \in [n : Nat, exp : Nat], l.n <= BudgetOf(b)
    PROVE  SameRest(d, SaveLimit(d, b, l))
<1> DEFINE f == [x \in DOMAIN d.limits \cup {b} |-> IF x = b THEN l ELSE d.limits[x]]
<1>1. d \in Dbs /\ d.limits \in Limits
  BY DEF Dbs
<1>2. PICK B \in SUBSET Buckets : d.limits \in [B -> [n : Nat, exp : Nat]]
  BY <1>1 DEF Limits
<1>3. f \in [B \cup {b} -> [n : Nat, exp : Nat]] /\ B \cup {b} \in SUBSET Buckets
  BY <1>2
<1>4. f \in Limits
  BY <1>3, Zenon DEF Limits
<1>5. \A x \in DOMAIN f : f[x].n <= BudgetOf(x)
  BY DEF LimitsOK
<1> HIDE DEF f
<1>6. SaveLimit(d, b, l) = [d EXCEPT !.limits = f]
  BY DEF SaveLimit, f
<1>7. [d EXCEPT !.limits = f] \in Dbs
  BY <1>1, <1>4 DEF Dbs
<1>8. LimitsOK([d EXCEPT !.limits = f])
  BY <1>1, <1>5 DEF LimitsOK, Dbs
<1>9. SameRest(d, [d EXCEPT !.limits = f])
  BY <1>1, <1>7, <1>8, Zenon DEF SameRest, Dbs
<1> QED
  BY <1>6, <1>9

\* ReserveBudget counts up to the limit of its counter and no further.
LEMMA ReserveKeeps ==
    ASSUME NEW d \in Dbs, LimitsOK(d), NEW b \in Buckets, NEW limit \in Nat, NEW window \in Nat,
           limit = BudgetOf(b), clock \in Nat
    PROVE  /\ SameRest(d, Reserve(d, b, limit, window).db)
           /\ Reserve(d, b, limit, window).n \in Nat
<1> DEFINE l == Limit(d, b)
           n == IF clock >= l.exp THEN 0 ELSE l.n
           exp == IF clock >= l.exp THEN clock + window ELSE l.exp
<1>1. PICK B \in SUBSET Buckets : d.limits \in [B -> [n : Nat, exp : Nat]]
  BY DEF Dbs, Limits
<1>2. l \in [n : Nat, exp : Nat]
  BY <1>1 DEF Limit
<1> HIDE DEF l
<1>3. n \in Nat /\ exp \in Nat
  BY <1>2
<1>4. Reserve(d, b, limit, window) =
          IF n >= limit THEN [n |-> limit + 1, db |-> d]
          ELSE [n |-> n + 1, db |-> SaveLimit(d, b, [n |-> n + 1, exp |-> exp])]
  BY Zenon DEF Reserve, l
<1> HIDE DEF n, exp
<1>5. SameRest(d, d)
  BY DEF SameRest
<1>6. CASE n >= limit
  BY <1>4, <1>5, <1>6
<1>7. CASE ~(n >= limit)
  <2>1. [n |-> n + 1, exp |-> exp] \in [n : Nat, exp : Nat] /\ n + 1 <= BudgetOf(b)
    BY <1>3, <1>7
  <2>2. SameRest(d, SaveLimit(d, b, [n |-> n + 1, exp |-> exp]))
    BY <2>1, SaveLimitKeeps
  <2> QED
    BY <1>3, <1>4, <1>7, <2>2
<1> QED
  BY <1>6, <1>7

\* ResetAttempts deletes one counter.
LEMMA ResetKeeps ==
    ASSUME NEW d \in Dbs, LimitsOK(d), NEW b
    PROVE  SameRest(d, ResetAttempts(d, b))
<1> DEFINE f == Restrict(d.limits, DOMAIN d.limits \ {b})
<1>1. d \in Dbs /\ d.limits \in Limits
  BY DEF Dbs
<1>2. PICK B \in SUBSET Buckets : d.limits \in [B -> [n : Nat, exp : Nat]]
  BY <1>1 DEF Limits
<1>3. f \in [B \ {b} -> [n : Nat, exp : Nat]] /\ B \ {b} \in SUBSET Buckets
  BY <1>2 DEF Restrict
<1>4. f \in Limits
  BY <1>3, Zenon DEF Limits
<1>5. \A x \in DOMAIN f : f[x].n <= BudgetOf(x)
  BY DEF LimitsOK, Restrict
<1> HIDE DEF f
<1>6. ResetAttempts(d, b) = [d EXCEPT !.limits = f]
  BY DEF ResetAttempts, f
<1>7. [d EXCEPT !.limits = f] \in Dbs
  BY <1>1, <1>4, Zenon DEF Dbs
<1>8. LimitsOK([d EXCEPT !.limits = f])
  BY <1>1, <1>5 DEF LimitsOK, Dbs
<1>9. SameRest(d, [d EXCEPT !.limits = f])
  BY <1>1, <1>7, <1>8, Zenon DEF SameRest, Dbs
<1> QED
  BY <1>6, <1>9

----------------------------------------------------------------------------
(* Challenges *)

\* LatestChallenge finds the challenge that can be accepted, if there is one and the
\* order of the mails tells.
LEMMA LatestIsLive ==
    ASSUME NEW d, Good(d), Apart(d), NEW p \in Purposes, NEW l \in Latest(d, p)
    PROVE  /\ l = 0 => \A c \in DOMAIN d.chal : d.chal[c].purpose # p
           /\ l # 0 => /\ l \in DOMAIN d.chal
                       /\ d.chal[l].purpose = p
                       /\ \A c \in DOMAIN d.chal :
                              d.chal[c].purpose = p => d.chal[c].sent <= d.chal[l].sent
           /\ \A c \in DOMAIN d.chal :
                  (d.chal[c].purpose = p /\ p \notin d.tied /\ Live(d, c)) => l = c
<1> DEFINE mine == {c \in DOMAIN d.chal : d.chal[c].purpose = p}
<1>1. d.chal \in Seq(Chals) /\ DOMAIN d.chal = 1..Len(d.chal)
  BY DEF Good, Dbs
<1>2. 0 \notin DOMAIN d.chal
  BY <1>1
<1>3. CASE mine = {}
  <2>1. l = 0
    BY <1>3 DEF Latest
  <2> QED
    BY <2>1, <1>3
<1>4. CASE mine # {}
  <2>1. /\ l \in DOMAIN d.chal /\ d.chal[l].purpose = p
        /\ \A c \in DOMAIN d.chal : d.chal[c].purpose = p => d.chal[c].sent <= d.chal[l].sent
    BY <1>4 DEF Latest
  <2>2. ASSUME NEW c \in DOMAIN d.chal, d.chal[c].purpose = p, p \notin d.tied, Live(d, c), l # c
        PROVE  FALSE
    <3>1. d.chal[l].sent <= d.chal[c].sent /\ d.chal[c].sent <= d.chal[l].sent
      BY <2>1, <2>2 DEF Good, OrderOK
    <3>2. d.chal[l] \in Chals /\ d.chal[c] \in Chals
      BY <1>1, <2>1, <2>2
    <3>3. d.chal[l].sent = d.chal[c].sent
      BY <3>1, <3>2 DEF Chals
    <3>4. p \in Tied(d)
      BY <2>1, <2>2, <3>3 DEF Tied
    <3> QED
      BY <3>4, <2>2 DEF Apart
  <2> QED
    BY <1>2, <2>1, <2>2
<1> QED
  BY <1>3, <1>4

\* A challenge of the account after a change of its row is one of the same account.
LEMMA ChalTyped ==
    ASSUME NEW d \in Dbs, NEW c \in DOMAIN d.chal
    PROVE  /\ d.chal \in Seq(Chals) /\ d.chal[c] \in Chals /\ c \in Nat
           /\ \A x \in Chals : /\ [d.chal EXCEPT ![c] = x] \in Seq(Chals)
                               /\ DOMAIN [d.chal EXCEPT ![c] = x] = DOMAIN d.chal
                               /\ [d.chal EXCEPT ![c] = x][c] = x
                               /\ \A k \in DOMAIN d.chal :
                                      k # c => [d.chal EXCEPT ![c] = x][k] = d.chal[k]
<1>1. d.chal \in Seq(Chals)
  BY DEF Dbs
<1>2. d.chal[c] \in Chals /\ c \in 1..Len(d.chal) /\ DOMAIN d.chal = 1..Len(d.chal)
  BY <1>1
<1>3. ASSUME NEW x \in Chals PROVE [d.chal EXCEPT ![c] = x] \in Seq(Chals)
  BY <1>1, <1>2
<1> QED
  BY <1>1, <1>2, <1>3

\* replaceCode mails another code unless the challenge or its purpose has had enough.
LEMMA ReplaceKeeps ==
    ASSUME NEW d \in Dbs, LimitsOK(d), NEW c \in DOMAIN d.chal,
           d.chal[c].purpose \in CodePurposes, clock \in Nat
    PROVE  /\ ReplaceCode(d, c).ok \in BOOLEAN
           /\ ReplaceCode(d, c).db \in Dbs
           /\ LimitsOK(ReplaceCode(d, c).db)
           /\ ReplaceCode(d, c).db.account = d.account
           /\ ReplaceCode(d, c).db.sessions = d.sessions
           /\ ReplaceCode(d, c).db.gen = d.gen
           /\ ReplaceCode(d, c).db.cancels = d.cancels
           /\ ReplaceCode(d, c).db.tied = d.tied
           /\ ~ReplaceCode(d, c).ok => ReplaceCode(d, c).db.chal = d.chal
           /\ ReplaceCode(d, c).ok =>
                  /\ d.chal[c].sends < SendsPerCode
                  /\ DOMAIN ReplaceCode(d, c).db.chal = DOMAIN d.chal
                  /\ ReplaceCode(d, c).db.chal[c] =
                         [d.chal[c] EXCEPT !.tries = 0, !.sends = d.chal[c].sends + 1,
                                           !.sent = clock]
                  /\ \A k \in DOMAIN d.chal :
                         k # c => ReplaceCode(d, c).db.chal[k] = d.chal[k]
<1> DEFINE b == <<"mail", d.chal[c].purpose>>
           r == Reserve(d, b, MailBudget, CodeTTL)
           x == [d.chal[c] EXCEPT !.tries = 0, !.sends = d.chal[c].sends + 1, !.sent = clock]
           f == [d.chal EXCEPT ![c] = x]
<1>1. b \in Buckets /\ BudgetOf(b) = MailBudget
  BY Budgets DEF Buckets
<1>2. SameRest(d, r.db) /\ r.n \in Nat
  BY <1>1, ReserveKeeps, Numbers
<1> HIDE DEF b, r
<1>3. d.chal[c] \in Chals
  BY ChalTyped
<1>6. d.chal[c].sends \in Nat /\ SendsPerCode \in Nat /\ MailBudget \in Nat
  BY <1>3, Numbers DEF Chals
<1>10. d.chal[c].sends + 1 \in Nat /\ 0 \in Nat
  BY <1>6
<1>4. x \in Chals
  BY <1>3, <1>10, Zenon DEF Chals
<1>5. f \in Seq(Chals)
  BY <1>4, ChalTyped
<1>7. CASE d.chal[c].sends >= SendsPerCode
  <2>1. ~(d.chal[c].sends < SendsPerCode)
    BY <1>6, <1>7
  <2>2. ReplaceCode(d, c) = [ok |-> FALSE, db |-> d]
    BY <2>1, <1>7, Zenon DEF ReplaceCode
  <2> QED
    BY <2>2
<1>8. CASE ~(d.chal[c].sends >= SendsPerCode) /\ r.n > MailBudget
  <2>1. d.chal[c].sends < SendsPerCode
    BY <1>6, <1>8
  <2>2. ReplaceCode(d, c) = [ok |-> FALSE, db |-> r.db]
    BY <2>1, <1>8, Zenon DEF ReplaceCode, r, b
  <2> QED
    BY <2>2, <1>2 DEF SameRest
<1>9. CASE ~(d.chal[c].sends >= SendsPerCode) /\ ~(r.n > MailBudget)
  <2>1. d.chal[c].sends < SendsPerCode
    BY <1>6, <1>9
  <2>2. ReplaceCode(d, c) =
            [ok |-> TRUE, db |-> [r.db EXCEPT !.chal[c].tries = 0, !.chal[c].sends = @ + 1,
                                              !.chal[c].sent = clock]]
    BY <1>9, Zenon DEF ReplaceCode, r, b
  <2>3. r.db \in Dbs /\ r.db.chal = d.chal
    BY <1>2 DEF SameRest
  <2>4. [r.db EXCEPT !.chal[c].tries = 0, !.chal[c].sends = @ + 1, !.chal[c].sent = clock]
            = [r.db EXCEPT !.chal = f]
    BY <2>3, <1>3, <1>5, Zenon DEF Dbs, Chals
  <2>5. [r.db EXCEPT !.chal = f] \in Dbs
    BY <2>3, <1>5, Zenon DEF Dbs
  <2>6. LimitsOK([r.db EXCEPT !.chal = f])
    BY <2>3, <1>2 DEF LimitsOK, SameRest, Dbs
  <2>7. ReplaceCode(d, c).ok = TRUE /\ ReplaceCode(d, c).db = [r.db EXCEPT !.chal = f]
    BY <2>2, <2>4
  <2>9. /\ DOMAIN f = DOMAIN d.chal /\ f[c] = x
        /\ \A k \in DOMAIN d.chal : k # c => f[k] = d.chal[k]
    BY <1>4, ChalTyped
  <2> HIDE DEF f
  <2>8. /\ [r.db EXCEPT !.chal = f].chal = f
        /\ [r.db EXCEPT !.chal = f].account = d.account
        /\ [r.db EXCEPT !.chal = f].sessions = d.sessions
        /\ [r.db EXCEPT !.chal = f].gen = d.gen
        /\ [r.db EXCEPT !.chal = f].cancels = d.cancels
        /\ [r.db EXCEPT !.chal = f].tied = d.tied
    BY <2>3, <1>2 DEF Dbs, SameRest
  <2> HIDE DEF x
  <2>10. /\ ReplaceCode(d, c).ok = TRUE
         /\ ReplaceCode(d, c).db \in Dbs /\ LimitsOK(ReplaceCode(d, c).db)
    BY <2>5, <2>6, <2>7
  <2>11. /\ ReplaceCode(d, c).db.chal = f
         /\ ReplaceCode(d, c).db.account = d.account
         /\ ReplaceCode(d, c).db.sessions = d.sessions
         /\ ReplaceCode(d, c).db.gen = d.gen
         /\ ReplaceCode(d, c).db.cancels = d.cancels
         /\ ReplaceCode(d, c).db.tied = d.tied
    BY <2>7, <2>8
  <2> QED
    BY <2>1, <2>5, <2>6, <2>9, <2>10, <2>11, Zenon DEF x
<1> QED
  BY <1>7, <1>8, <1>9

\* A code purpose is not one of a link.
LEMMA CodesAreNotLinks ==
    CodePurposes \cap Links = {} /\ CodePurposes \subseteq Purposes /\ Links \subseteq Purposes
BY DEF CodePurposes, Links, Purposes

\* replaceCode of a challenge that can be accepted (Login, ResendCode, StartCodeChange).
LEMMA ReplaceGood ==
    ASSUME NEW d, Good(d), Apart(d), NEW c \in DOMAIN d.chal, Live(d, c),
           d.chal[c].purpose \in CodePurposes, clock \in Nat
    PROVE  Good(ReplaceCode(d, c).db)
<1> DEFINE r == ReplaceCode(d, c)
           x == [d.chal[c] EXCEPT !.tries = 0, !.sends = d.chal[c].sends + 1, !.sent = clock]
<1>0. d \in Dbs /\ LimitsOK(d)
  BY DEF Good
<1>1. /\ r.db \in Dbs /\ LimitsOK(r.db) /\ r.ok \in BOOLEAN
      /\ r.db.account = d.account /\ r.db.sessions = d.sessions /\ r.db.gen = d.gen
      /\ r.db.cancels = d.cancels /\ r.db.tied = d.tied
      /\ ~r.ok => r.db.chal = d.chal
      /\ r.ok => /\ d.chal[c].sends < SendsPerCode
                 /\ DOMAIN r.db.chal = DOMAIN d.chal /\ r.db.chal[c] = x
                 /\ \A k \in DOMAIN d.chal : k # c => r.db.chal[k] = d.chal[k]
  BY <1>0, ReplaceKeeps, Zenon
<1> HIDE DEF r
<1>2. CASE ~r.ok
  <2>1. SameRest(d, r.db)
    BY <1>1, <1>2 DEF SameRest
  <2> QED
    BY <2>1, SameRestGood DEF r
<1>3. CASE r.ok
  <2>1. d.chal[c] \in Chals
    BY <1>0, ChalTyped
  <2>2. d.chal[c].sends \in Nat /\ d.chal[c].sends + 1 \in Nat /\ 0 \in Nat
    BY <2>1 DEF Chals
  <2>3. x \in Chals
    BY <2>1, <2>2, Zenon DEF Chals
  <2>4. /\ x.purpose = d.chal[c].purpose /\ x.rev = d.chal[c].rev /\ x.exp = d.chal[c].exp
        /\ x.used = d.chal[c].used /\ x.gen = d.chal[c].gen /\ x.uses = d.chal[c].uses
        /\ x.late = d.chal[c].late /\ x.sent = clock /\ x.tries = 0
        /\ x.sends = d.chal[c].sends + 1
    BY <2>1 DEF Chals
  <2> HIDE DEF x
  <2>5. /\ DOMAIN r.db.chal = DOMAIN d.chal /\ r.db.chal[c] = x
        /\ \A k \in DOMAIN d.chal : k # c => r.db.chal[k] = d.chal[k]
    BY <1>1, <1>3
  <2>6. ChalOK(d.chal[c], d.account.rev, d.gen + d.cancels)
    BY DEF Good, ChalsOK
  <2>7. x.tries \in 0..(IF x.used THEN TriesPerCode ELSE TriesPerCode - 1)
    BY <2>4, Numbers
  <2>8. x.sends \in 1..SendsPerCode
    BY <1>1, <1>3, <2>2, <2>4, Numbers
  <2>9. ChalOK(x, d.account.rev, d.gen + d.cancels)
    BY <2>4, <2>6, <2>7, <2>8 DEF ChalOK
  <2>10. Edited(d, r.db, c)
    BY <1>1, <2>4, <2>5, <2>9, CodesAreNotLinks, Zenon DEF Edited
  <2> QED
    BY <2>10, EditedGood DEF r
<1> QED
  BY <1>1, <1>2, <1>3

\* createCode, when no code of the purpose can be accepted.
LEMMA CreateGood ==
    ASSUME NEW d, Good(d), NEW p \in CodePurposes, clock \in Nat, d.account # NoAccount,
           p \in d.tied \/ \A c \in DOMAIN d.chal : d.chal[c].purpose = p => ~Live(d, c)
    PROVE  Good(CreateCode(d, p).db)
<1> DEFINE n == NewChallenge(d, p, d.account.email, CodeTTL, FALSE)
           m == Len(d.chal) + 1
           g == [d EXCEPT !.chal = Append(d.chal, n)]
           r == ReplaceCode(g, m)
           x == [n EXCEPT !.tries = 0, !.sends = n.sends + 1, !.sent = clock]
<1>0. d \in Dbs /\ LimitsOK(d)
  BY DEF Good
<1>1. /\ d.chal \in Seq(Chals) /\ d.account \in Accounts /\ d.gen \in Nat /\ d.cancels \in Nat
      /\ Len(d.chal) \in Nat /\ DOMAIN d.chal = 1..Len(d.chal)
  BY <1>0 DEF Dbs
<1>2. d.account.email \in Emails /\ d.account.rev \in Nat
  BY <1>1, Zenon DEF Good, AccountOK, Accounts
<1>3. p \in Purposes /\ clock + CodeTTL \in Nat /\ d.gen + d.cancels \in Nat
  BY <1>1, CodesAreNotLinks, Numbers
<1>4. n \in Chals
  BY <1>2, <1>3 DEF NewChallenge, Chals
<1>5. /\ n.purpose = p /\ n.rev = d.account.rev /\ n.sends = 0 /\ n.uses = 0 /\ n.late = FALSE
      /\ n.used = FALSE /\ n.gen = d.gen + d.cancels
  BY DEF NewChallenge
<1> HIDE DEF n
<1>14. n.sends + 1 \in Nat /\ 0 \in Nat
  BY <1>5
<1>15. x \in Chals
  BY <1>4, <1>14, Zenon DEF Chals
<1> HIDE DEF x
<1>6. /\ Append(d.chal, n) \in Seq(Chals) /\ m \in DOMAIN Append(d.chal, n)
      /\ Append(d.chal, n)[m] = n
  BY <1>1, <1>4
<1>16. /\ DOMAIN Append(d.chal, n) = 1..(Len(d.chal) + 1) /\ m \notin DOMAIN d.chal
       /\ \A k \in DOMAIN d.chal : Append(d.chal, n)[k] = d.chal[k]
  BY <1>1, <1>4
<1>19. m = Len(d.chal) + 1
  OBVIOUS
<1> HIDE DEF m
<1>7. g \in Dbs /\ LimitsOK(g) /\ g.chal = Append(d.chal, n)
  BY <1>0, <1>6, Zenon DEF Dbs, LimitsOK
<1>8. /\ g.account = d.account /\ g.sessions = d.sessions /\ g.gen = d.gen
      /\ g.cancels = d.cancels /\ g.tied = d.tied /\ g.limits = d.limits
  BY <1>0 DEF Dbs
<1> HIDE DEF g
<1>9. /\ r.ok \in BOOLEAN /\ r.db \in Dbs /\ LimitsOK(r.db)
      /\ r.db.account = d.account /\ r.db.sessions = d.sessions /\ r.db.gen = d.gen
      /\ r.db.cancels = d.cancels /\ r.db.tied = d.tied
      /\ r.ok => /\ DOMAIN r.db.chal = DOMAIN g.chal
                 /\ r.db.chal[m] = [g.chal[m] EXCEPT !.tries = 0,
                                        !.sends = g.chal[m].sends + 1, !.sent = clock]
                 /\ \A k \in DOMAIN g.chal : k # m => r.db.chal[k] = g.chal[k]
  BY <1>5, <1>6, <1>7, <1>8, ReplaceKeeps, Zenon
<1> HIDE DEF r
<1>17. g.chal[m] = n
  BY <1>6, <1>7
<1>18. r.ok => r.db.chal[m] = x
  BY <1>9, <1>17 DEF x
<1>20. \A k \in DOMAIN d.chal : k \in DOMAIN g.chal /\ k # m /\ g.chal[k] = d.chal[k]
  BY <1>1, <1>7, <1>16
<1>10. r.ok => /\ DOMAIN r.db.chal = 1..(Len(d.chal) + 1) /\ r.db.chal[m] = x
               /\ \A k \in DOMAIN d.chal : r.db.chal[k] = d.chal[k]
  BY <1>7, <1>9, <1>16, <1>18, <1>20
<1>11. CreateCode(d, p) = IF r.ok THEN r ELSE [ok |-> FALSE, db |-> [r.db EXCEPT !.chal = d.chal]]
  BY Zenon DEF CreateCode, r, g, m, n
<1>12. CASE r.ok
  <2>1. x \in Chals
    BY <1>15
  <2>2. /\ x.purpose = p /\ x.rev = d.account.rev /\ x.sends = 1 /\ x.uses = 0 /\ x.late = FALSE
        /\ x.used = FALSE /\ x.gen = d.gen + d.cancels /\ x.sent = clock /\ x.tries = 0
    BY <1>4, <1>5 DEF Chals, x
  <2>3. ChalOK(x, d.account.rev, d.gen + d.cancels)
    BY <2>2, <1>2, Numbers DEF ChalOK
  <2>4. x.purpose \notin Links /\ x.purpose # "cancel_email"
    BY <2>2, CodesAreNotLinks DEF Links
  <2>5. Added(d, r.db, x)
    BY <1>9, <1>10, <1>12, <1>19, <2>1, <2>2, <2>3, <2>4 DEF Added
  <2> QED
    BY <2>5, <1>11, <1>12, AddedGood
<1>13. CASE ~r.ok
  <2>1. [r.db EXCEPT !.chal = d.chal] \in Dbs /\ LimitsOK([r.db EXCEPT !.chal = d.chal])
    BY <1>1, <1>9, Zenon DEF Dbs, LimitsOK
  <2>2. SameRest(d, [r.db EXCEPT !.chal = d.chal])
    BY <1>9, <2>1, Zenon DEF SameRest, Dbs
  <2> QED
    BY <2>2, <1>11, <1>13, SameRestGood
<1> QED
  BY <1>9, <1>12, <1>13

\* A challenge's row is updated.
WithRow(e, c, x) == [e EXCEPT !.chal = [e.chal EXCEPT ![c] = x]]

\* SaveChallenge writes one row.
LEMMA WithRowKeeps ==
    ASSUME NEW e \in Dbs, NEW c \in DOMAIN e.chal, NEW x \in Chals
    PROVE  /\ WithRow(e, c, x) \in Dbs
           /\ WithRow(e, c, x).account = e.account
           /\ WithRow(e, c, x).sessions = e.sessions
           /\ WithRow(e, c, x).gen = e.gen
           /\ WithRow(e, c, x).cancels = e.cancels
           /\ WithRow(e, c, x).tied = e.tied
           /\ WithRow(e, c, x).limits = e.limits
           /\ DOMAIN WithRow(e, c, x).chal = DOMAIN e.chal
           /\ WithRow(e, c, x).chal[c] = x
           /\ \A k \in DOMAIN e.chal : k # c => WithRow(e, c, x).chal[k] = e.chal[k]
<1> DEFINE f == [e.chal EXCEPT ![c] = x]
<1>1. /\ f \in Seq(Chals) /\ DOMAIN f = DOMAIN e.chal /\ f[c] = x
      /\ \A k \in DOMAIN e.chal : k # c => f[k] = e.chal[k]
  BY ChalTyped
<1> HIDE DEF f
<1>2. WithRow(e, c, x) = [e EXCEPT !.chal = f]
  BY DEF WithRow, f
<1>3. [e EXCEPT !.chal = f] \in Dbs
  BY <1>1, Zenon DEF Dbs
<1>4. /\ [e EXCEPT !.chal = f].account = e.account
      /\ [e EXCEPT !.chal = f].sessions = e.sessions
      /\ [e EXCEPT !.chal = f].gen = e.gen
      /\ [e EXCEPT !.chal = f].cancels = e.cancels
      /\ [e EXCEPT !.chal = f].tied = e.tied
      /\ [e EXCEPT !.chal = f].limits = e.limits
      /\ [e EXCEPT !.chal = f].chal = f
  BY DEF Dbs
<1> QED
  BY <1>1, <1>2, <1>3, <1>4

\* The row of a challenge is changed in a database that differs from d in counters only.
LEMMA RowGood ==
    ASSUME NEW d, NEW g, NEW c \in DOMAIN d.chal, NEW x \in Chals, Good(d), Apart(d),
           SameRest(d, g), clock \in Nat,
           x.purpose = d.chal[c].purpose, x.rev = d.chal[c].rev, x.exp = d.chal[c].exp,
           d.chal[c].used => x.used, x.sent = d.chal[c].sent,
           ChalOK(x, d.account.rev, d.gen + d.cancels)
    PROVE  Good(WithRow(g, c, x)) /\ Edited(d, WithRow(g, c, x), c)
<1> DEFINE e == WithRow(g, c, x)
<1>1. /\ g \in Dbs /\ g.chal = d.chal /\ g.account = d.account /\ g.sessions = d.sessions
      /\ g.gen = d.gen /\ g.cancels = d.cancels /\ g.tied = d.tied /\ LimitsOK(g)
  BY DEF SameRest
<1>2. /\ e \in Dbs /\ e.account = g.account /\ e.sessions = g.sessions /\ e.gen = g.gen
      /\ e.cancels = g.cancels /\ e.tied = g.tied /\ e.limits = g.limits
      /\ DOMAIN e.chal = DOMAIN g.chal /\ e.chal[c] = x
      /\ \A k \in DOMAIN g.chal : k # c => e.chal[k] = g.chal[k]
  BY <1>1, WithRowKeeps
<1> HIDE DEF e
<1>3. LimitsOK(e)
  BY <1>1, <1>2 DEF LimitsOK
<1>4. Edited(d, e, c)
  BY <1>1, <1>2, <1>3, Zenon DEF Edited
<1> QED
  BY <1>4, EditedGood DEF e

\* Spend marks a challenge that can be accepted: it was never used, and no credential has
\* changed since it was mailed (UsedAt).
LEMMA SpendGood ==
    ASSUME NEW d, NEW c \in DOMAIN d.chal, Good(d), Apart(d), Live(d, c), clock \in Nat
    PROVE  Good(Spend(d, c)) /\ Edited(d, Spend(d, c), c) /\ Spend(d, c).limits = d.limits
<1> DEFINE x == [d.chal[c] EXCEPT !.used = TRUE, !.uses = d.chal[c].uses + 1,
                     !.late = d.chal[c].late \/ d.chal[c].gen # d.gen + d.cancels]
           y == [d.chal[c] EXCEPT !.used = TRUE, !.uses = 1, !.late = FALSE]
<1>0. d \in Dbs /\ LimitsOK(d)
  BY DEF Good
<1>1. d.chal[c] \in Chals
  BY <1>0, ChalTyped
<1>2. ChalOK(d.chal[c], d.account.rev, d.gen + d.cancels)
  BY DEF Good, ChalsOK
<1>3. ~d.chal[c].used /\ d.chal[c].rev = d.account.rev
  BY DEF Live, CheckChallenge
<1>4. d.chal[c].uses = 0
  BY <1>1, <1>2, <1>3 DEF ChalOK, Chals
<1>5. d.chal[c].gen = d.gen + d.cancels /\ ~d.chal[c].late
  BY <1>2, <1>3 DEF ChalOK
<1>6. d.chal[c].uses + 1 = 1
  BY <1>4
<1>7. (d.chal[c].late \/ d.chal[c].gen # d.gen + d.cancels) = FALSE
  BY <1>5
<1>8. x = y
  BY <1>6, <1>7, Zenon
<1>9. Spend(d, c) = WithRow(d, c, x)
  BY <1>0, <1>1 DEF Spend, WithRow, Dbs, Chals
<1>10. y \in Chals
  BY <1>1, Zenon DEF Chals
<1>11. /\ y.purpose = d.chal[c].purpose /\ y.rev = d.chal[c].rev /\ y.exp = d.chal[c].exp
       /\ y.sent = d.chal[c].sent /\ y.gen = d.chal[c].gen /\ y.tries = d.chal[c].tries
       /\ y.sends = d.chal[c].sends /\ y.uses = 1 /\ y.used = TRUE /\ y.late = FALSE
  BY <1>1 DEF Chals
<1> HIDE DEF x, y
<1>12. y.tries \in 0..(IF y.used THEN TriesPerCode ELSE TriesPerCode - 1)
  BY <1>2, <1>3, <1>11, Numbers DEF ChalOK
<1>13. ChalOK(y, d.account.rev, d.gen + d.cancels)
  BY <1>2, <1>11, <1>12 DEF ChalOK
<1>14. SameRest(d, d)
  BY <1>0 DEF SameRest
<1>15. Good(WithRow(d, c, y)) /\ Edited(d, WithRow(d, c, y), c)
  BY <1>3, <1>10, <1>11, <1>13, <1>14, RowGood, Zenon
<1>16. WithRow(d, c, y).limits = d.limits
  BY <1>0, <1>10, WithRowKeeps
<1> QED
  BY <1>8, <1>9, <1>15, <1>16

\* checkCode: a code is right, wrong, or replaced after the last wrong try; whichever it is,
\* the challenge stays within its limits.
LEMMA CheckGood ==
    ASSUME NEW d, NEW c \in DOMAIN d.chal, NEW p \in CodePurposes, NEW code, Good(d), Apart(d),
           d.chal[c].purpose = p, clock \in Nat
    PROVE  /\ Good(CheckCode(d, c, p, code).db)
           /\ CheckCode(d, c, p, code).ok \in BOOLEAN
           /\ CheckCode(d, c, p, code).ok =>
                  Live(d, c) /\ SameRest(d, CheckCode(d, c, p, code).db)
<1> DEFINE b == <<"check", p>>
           r == Reserve(d, b, CheckBudget, CodeTTL)
           tries == d.chal[c].tries + 1
           wrong == [r.db EXCEPT !.chal[c].tries = tries]
           again == ReplaceCode(wrong, c)
           res == CheckCode(d, c, p, code)
           w == [d.chal[c] EXCEPT !.tries = tries]
<1>0. d \in Dbs /\ LimitsOK(d)
  BY DEF Good
<1>1. b \in Buckets /\ BudgetOf(b) = CheckBudget
  BY Budgets DEF Buckets
<1>2. SameRest(d, r.db) /\ r.n \in Nat
  BY <1>0, <1>1, ReserveKeeps, Numbers
<1>3. Good(r.db)
  BY <1>2, SameRestGood
<1>4. CheckChallenge(d, c, p) <=> Live(d, c)
  BY DEF Live
<1>5. res =
        CASE ~CheckChallenge(d, c, p) -> [ok |-> FALSE, db |-> d]
          [] CheckChallenge(d, c, p) /\ r.n > CheckBudget -> [ok |-> FALSE, db |-> r.db]
          [] CheckChallenge(d, c, p) /\ r.n <= CheckBudget ->
             IF code = d.chal[c].sends THEN [ok |-> TRUE, db |-> r.db]
             ELSE [ok |-> FALSE,
                   db |-> IF tries < TriesPerCode THEN wrong
                          ELSE IF d.chal[c].sends >= SendsPerCode
                               THEN [wrong EXCEPT !.chal[c].used = TRUE]
                          ELSE IF again.ok THEN again.db
                          ELSE [again.db EXCEPT !.chal[c].tries = d.chal[c].tries]]
  BY Zenon DEF CheckCode
<1>6. d.chal[c] \in Chals
  BY <1>0, ChalTyped
<1>7. r.db \in Dbs /\ r.db.chal = d.chal
  BY <1>2 DEF SameRest
<1> HIDE DEF r, res, b
<1>8. wrong = WithRow(r.db, c, w)
  BY <1>6, <1>7 DEF WithRow, Dbs, Chals
<1> HIDE DEF wrong
<1>9. d.chal[c].tries \in Nat /\ d.chal[c].sends \in Nat /\ tries \in Nat
  BY <1>6 DEF Chals
<1>10. w \in Chals
  BY <1>6, <1>9 DEF Chals
<1>11. /\ w.purpose = d.chal[c].purpose /\ w.rev = d.chal[c].rev /\ w.exp = d.chal[c].exp
       /\ w.sent = d.chal[c].sent /\ w.gen = d.chal[c].gen /\ w.tries = tries
       /\ w.sends = d.chal[c].sends /\ w.uses = d.chal[c].uses /\ w.used = d.chal[c].used
       /\ w.late = d.chal[c].late
  BY <1>6 DEF Chals
<1>12. ChalOK(d.chal[c], d.account.rev, d.gen + d.cancels)
  BY DEF Good, ChalsOK
<1> HIDE DEF w, tries
<1>13. CASE ~CheckChallenge(d, c, p)
  <2>1. res = [ok |-> FALSE, db |-> d]
    BY <1>5, <1>13, Zenon
  <2> QED
    BY <2>1 DEF res
<1>14. CASE CheckChallenge(d, c, p) /\ r.n > CheckBudget
  <2>0. ~(r.n <= CheckBudget)
    BY <1>2, <1>14, Numbers
  <2>1. res = [ok |-> FALSE, db |-> r.db]
    BY <1>5, <1>14, <2>0, Zenon
  <2> QED
    BY <2>1, <1>3 DEF res
<1>15. CASE CheckChallenge(d, c, p) /\ r.n <= CheckBudget
  <2>0. ~(r.n > CheckBudget) /\ Live(d, c)
    BY <1>2, <1>4, <1>15, Numbers
  <2>1. res = IF code = d.chal[c].sends THEN [ok |-> TRUE, db |-> r.db]
              ELSE [ok |-> FALSE,
                    db |-> IF tries < TriesPerCode THEN wrong
                           ELSE IF d.chal[c].sends >= SendsPerCode
                                THEN [wrong EXCEPT !.chal[c].used = TRUE]
                           ELSE IF again.ok THEN again.db
                           ELSE [again.db EXCEPT !.chal[c].tries = d.chal[c].tries]]
    BY <1>5, <1>15, <2>0, Zenon
  <2>2. ~d.chal[c].used
    BY <2>0 DEF Live, CheckChallenge
  <2>3. d.chal[c].tries <= TriesPerCode - 1
    BY <1>12, <1>9, <2>2, Numbers DEF ChalOK
  <2>4. CASE code = d.chal[c].sends
    <3>1. res = [ok |-> TRUE, db |-> r.db]
      BY <2>1, <2>4, Zenon
    <3> QED
      BY <3>1, <1>2, <1>3, <2>0 DEF res
  <2>5. CASE code # d.chal[c].sends /\ tries < TriesPerCode
    <3>1. res = [ok |-> FALSE, db |-> wrong]
      BY <2>1, <2>5, Zenon
    <3>2. w.tries \in 0..(IF w.used THEN TriesPerCode ELSE TriesPerCode - 1)
      BY <1>9, <1>11, <2>2, <2>5, Numbers
    <3>3. ChalOK(w, d.account.rev, d.gen + d.cancels)
      BY <1>11, <1>12, <3>2, Zenon DEF ChalOK
    <3>4. Good(WithRow(r.db, c, w))
      BY <1>2, <1>10, <1>11, <3>3, RowGood, Zenon
    <3> QED
      BY <3>1, <3>4, <1>8 DEF res
  <2>6. CASE code # d.chal[c].sends /\ ~(tries < TriesPerCode) /\ d.chal[c].sends >= SendsPerCode
    <3> DEFINE u == [w EXCEPT !.used = TRUE]
    <3>1. res = [ok |-> FALSE, db |-> [wrong EXCEPT !.chal[c].used = TRUE]]
      BY <2>1, <2>6, Zenon
    <3>2. u \in Chals
      BY <1>10, Zenon DEF Chals
    <3>3. /\ u.purpose = w.purpose /\ u.rev = w.rev /\ u.exp = w.exp
          /\ u.sent = w.sent /\ u.gen = w.gen /\ u.tries = w.tries
          /\ u.sends = w.sends /\ u.uses = w.uses /\ u.used = TRUE /\ u.late = w.late
      BY <1>10 DEF Chals
    <3>4. [wrong EXCEPT !.chal[c].used = TRUE] = WithRow(r.db, c, u)
      <4>1. /\ wrong = [r.db EXCEPT !.chal = [r.db.chal EXCEPT ![c] = w]]
            /\ r.db.chal \in Seq(Chals) /\ c \in DOMAIN r.db.chal
        BY <1>7, <1>8 DEF WithRow, Dbs
      <4>2. wrong.chal = [r.db.chal EXCEPT ![c] = w]
        BY <4>1, <1>7 DEF Dbs
      <4>3. [wrong.chal EXCEPT ![c].used = TRUE] = [r.db.chal EXCEPT ![c] = u]
        <5>1. wrong.chal[c] = w
          BY <4>1, <4>2
        <5>2. [wrong.chal EXCEPT ![c].used = TRUE] = [wrong.chal EXCEPT ![c] = u]
          BY <5>1
        <5> HIDE DEF u
        <5>3. [[r.db.chal EXCEPT ![c] = w] EXCEPT ![c] = u] = [r.db.chal EXCEPT ![c] = u]
          BY <4>1
        <5> QED
          BY <4>2, <5>2, <5>3
      <4>4. [wrong EXCEPT !.chal[c].used = TRUE] = [wrong EXCEPT !.chal = [r.db.chal EXCEPT ![c] = u]]
        BY <4>3, Zenon
      <4> DEFINE X == [r.db.chal EXCEPT ![c] = u]
                 Y == [r.db.chal EXCEPT ![c] = w]
      <4>5. wrong = [r.db EXCEPT !.chal = Y] /\ [wrong EXCEPT !.chal[c].used = TRUE] = [wrong EXCEPT !.chal = X]
        BY <4>1, <4>4
      <4>6. WithRow(r.db, c, u) = [r.db EXCEPT !.chal = X]
        BY DEF WithRow
      <4> HIDE DEF X, Y
      <4>7. [[r.db EXCEPT !.chal = Y] EXCEPT !.chal = X] = [r.db EXCEPT !.chal = X]
        BY <1>7, Zenon DEF Dbs
      <4> QED
        BY <4>5, <4>6, <4>7
    <3> HIDE DEF u
    <3>5. u.tries \in 0..(IF u.used THEN TriesPerCode ELSE TriesPerCode - 1)
      BY <1>9, <1>11, <2>3, <3>3, Numbers DEF tries
    <3>6. ChalOK(u, d.account.rev, d.gen + d.cancels)
      BY <1>11, <1>12, <3>3, <3>5, Zenon DEF ChalOK
    <3>7. Good(WithRow(r.db, c, u))
      BY <1>2, <1>11, <3>2, <3>3, <3>6, RowGood, Zenon
    <3> QED
      BY <3>1, <3>4, <3>7 DEF res
  <2>7. CASE code # d.chal[c].sends /\ ~(tries < TriesPerCode) /\ ~(d.chal[c].sends >= SendsPerCode)
    <3> DEFINE a == again.db
    <3>1. /\ wrong \in Dbs /\ wrong.account = d.account /\ wrong.sessions = d.sessions
          /\ wrong.gen = d.gen /\ wrong.cancels = d.cancels /\ wrong.tied = d.tied
          /\ wrong.limits = r.db.limits
          /\ DOMAIN wrong.chal = DOMAIN d.chal /\ wrong.chal[c] = w
          /\ \A k \in DOMAIN d.chal : k # c => wrong.chal[k] = d.chal[k]
      BY <1>2, <1>7, <1>8, <1>10, WithRowKeeps DEF SameRest
    <3>2. LimitsOK(wrong)
      BY <3>1, <1>2 DEF LimitsOK, SameRest
    <3>3. /\ again.ok \in BOOLEAN
          /\ a \in Dbs /\ LimitsOK(a) /\ a.account = d.account /\ a.sessions = d.sessions
          /\ a.gen = d.gen /\ a.cancels = d.cancels /\ a.tied = d.tied
          /\ ~again.ok => a.chal = wrong.chal
          /\ again.ok =>
                 /\ w.sends < SendsPerCode
                 /\ DOMAIN a.chal = DOMAIN d.chal
                 /\ a.chal[c] = [w EXCEPT !.tries = 0, !.sends = w.sends + 1, !.sent = clock]
                 /\ \A k \in DOMAIN d.chal : k # c => a.chal[k] = wrong.chal[k]
      <4>1. c \in DOMAIN wrong.chal /\ wrong.chal[c].purpose \in CodePurposes
        BY <1>11, <3>1
      <4>2. wrong \in Dbs
        BY <3>1
      <4>3. /\ again.ok \in BOOLEAN
            /\ a \in Dbs /\ LimitsOK(a) /\ a.account = wrong.account
            /\ a.sessions = wrong.sessions
            /\ a.gen = wrong.gen /\ a.cancels = wrong.cancels /\ a.tied = wrong.tied
            /\ ~again.ok => a.chal = wrong.chal
            /\ again.ok =>
                 /\ wrong.chal[c].sends < SendsPerCode
                 /\ DOMAIN a.chal = DOMAIN wrong.chal
                 /\ a.chal[c] = [wrong.chal[c] EXCEPT !.tries = 0,
                                    !.sends = wrong.chal[c].sends + 1, !.sent = clock]
                 /\ \A k \in DOMAIN wrong.chal : k # c => a.chal[k] = wrong.chal[k]
        BY <3>2, <4>1, <4>2, ReplaceKeeps, Zenon
      <4> HIDE DEF a, again
      <4> QED
        BY <3>1, <4>3
    <3> HIDE DEF again
    <3>4. CASE again.ok
      <4> DEFINE x == [w EXCEPT !.tries = 0, !.sends = w.sends + 1, !.sent = clock]
      <4>1. res = [ok |-> FALSE, db |-> a]
        BY <2>1, <2>7, <3>4, Zenon
      <4>2. w.sends + 1 \in Nat /\ 0 \in Nat
        BY <1>9, <1>11
      <4>3. x \in Chals
        BY <1>10, <4>2, Zenon DEF Chals
      <4>4. /\ x.purpose = w.purpose /\ x.rev = w.rev /\ x.exp = w.exp
            /\ x.gen = w.gen /\ x.uses = w.uses /\ x.used = w.used /\ x.late = w.late
            /\ x.tries = 0 /\ x.sends = w.sends + 1 /\ x.sent = clock
        BY <1>10 DEF Chals
      <4>5. /\ a.chal[c] = x /\ \A k \in DOMAIN d.chal : k # c => a.chal[k] = d.chal[k]
        BY <3>1, <3>3, <3>4
      <4> HIDE DEF x
      <4>6. x.tries \in 0..(IF x.used THEN TriesPerCode ELSE TriesPerCode - 1)
        BY <4>4, Numbers
      <4>7. x.sends \in 1..SendsPerCode
        BY <1>9, <1>11, <3>3, <3>4, <4>4, Numbers
      <4>8. ChalOK(x, d.account.rev, d.gen + d.cancels)
        BY <1>11, <1>12, <4>4, <4>6, <4>7 DEF ChalOK
      <4>9. Edited(d, a, c)
        BY <1>11, <2>0, <3>3, <3>4, <4>4, <4>5, <4>8, CodesAreNotLinks DEF Edited
      <4>10. Good(a)
        BY <4>9, EditedGood
      <4> QED
        BY <4>1, <4>10 DEF res
    <3>5. CASE ~again.ok
      <4> DEFINE v == [w EXCEPT !.tries = d.chal[c].tries]
      <4>1. res = [ok |-> FALSE, db |-> [a EXCEPT !.chal[c].tries = d.chal[c].tries]]
        BY <2>1, <2>7, <3>5, Zenon
      <4>2. v \in Chals
        BY <1>9, <1>10 DEF Chals
      <4>3. /\ v.purpose = w.purpose /\ v.rev = w.rev /\ v.exp = w.exp /\ v.sent = w.sent
            /\ v.gen = w.gen /\ v.uses = w.uses /\ v.used = w.used /\ v.late = w.late
            /\ v.sends = w.sends /\ v.tries = d.chal[c].tries
        BY <1>10 DEF Chals
      <4>4. a.chal = wrong.chal /\ a.chal[c] = w
        BY <3>1, <3>3, <3>5
      <4>5. [a EXCEPT !.chal[c].tries = d.chal[c].tries] = WithRow(a, c, v)
        BY <4>4 DEF WithRow
      <4> HIDE DEF v
      <4>6. ChalOK(v, d.account.rev, d.gen + d.cancels)
        BY <1>11, <1>12, <4>3, Zenon DEF ChalOK
      <4> DEFINE e == WithRow(a, c, v)
      <4>7. /\ e \in Dbs /\ e.account = a.account /\ e.sessions = a.sessions /\ e.gen = a.gen
            /\ e.cancels = a.cancels /\ e.tied = a.tied /\ e.limits = a.limits
            /\ DOMAIN e.chal = DOMAIN a.chal /\ e.chal[c] = v
            /\ \A k \in DOMAIN a.chal : k # c => e.chal[k] = a.chal[k]
        BY <3>1, <3>3, <4>2, <4>4, WithRowKeeps
      <4> HIDE DEF e
      <4>8. LimitsOK(e)
        BY <3>3, <4>7 DEF LimitsOK
      <4>9. Edited(d, e, c)
        BY <1>11, <3>1, <3>3, <4>3, <4>4, <4>6, <4>7, <4>8 DEF Edited
      <4>10. Good(e)
        BY <4>9, EditedGood
      <4> QED
        BY <4>1, <4>5, <4>10 DEF res, e
    <3> QED
      BY <3>3, <3>4, <3>5
  <2> QED
    BY <2>4, <2>5, <2>6, <2>7, Zenon
<1>16. r.n > CheckBudget \/ r.n <= CheckBudget
  BY <1>2, Numbers
<1> QED
  BY <1>13, <1>14, <1>15, <1>16, Zenon

----------------------------------------------------------------------------
(* Sessions, changes of credentials and links *)

\* Rows of sessions stay rows.
LEMMA SessionsTyped ==
    ASSUME NEW d \in Dbs, clock \in Nat
    PROVE  /\ [s \in DOMAIN d.sessions |-> Closed] \in Seq(SessionRows)
           /\ \A s \in DOMAIN d.sessions : [d.sessions EXCEPT ![s] = Closed] \in Seq(SessionRows)
           /\ Append(d.sessions, [live |-> TRUE, created |-> clock, gen |-> d.gen])
                  \in Seq(SessionRows)
<1>1. /\ d.sessions \in Seq(SessionRows) /\ DOMAIN d.sessions = 1..Len(d.sessions)
      /\ Len(d.sessions) \in Nat /\ d.gen \in Nat
  BY DEF Dbs
<1>2. Closed \in SessionRows
  BY DEF Closed, SessionRows
<1>3. [live |-> TRUE, created |-> clock, gen |-> d.gen] \in SessionRows
  BY <1>1 DEF SessionRows
<1> QED
  BY <1>1, <1>2, <1>3

\* Only the sessions change, to ones that are closed or of the present credentials.
LEMMA SessionsGood ==
    ASSUME NEW d, Good(d), NEW S \in Seq(SessionRows), d.account # NoAccount,
           \A s \in DOMAIN S : S[s].live => S[s].gen = d.gen
    PROVE  Good([d EXCEPT !.sessions = S])
<1> DEFINE e == [d EXCEPT !.sessions = S]
<1>0. d \in Dbs /\ LimitsOK(d) /\ AccountOK(d)
  BY DEF Good
<1>1. /\ e.account = d.account /\ e.chal = d.chal /\ e.gen = d.gen /\ e.cancels = d.cancels
      /\ e.tied = d.tied /\ e.limits = d.limits /\ e.sessions = S
  BY <1>0 DEF Dbs
<1>2. e \in Dbs
  BY <1>0, Zenon DEF Dbs
<1> HIDE DEF e
<1>3. AccountOK(e) /\ SessionsOK(e) /\ LimitsOK(e)
  BY <1>0, <1>1 DEF AccountOK, SessionsOK, LimitsOK
<1>4. Kept(d, e)
  BY <1>1, <1>2, <1>3 DEF Kept
<1> QED
  BY <1>4, KeptGood DEF e

\* A session opened now was opened under the present credentials (issue).
LEMMA IssueGood ==
    ASSUME NEW d, Good(d), d.account # NoAccount, clock \in Nat
    PROVE  Good(Issue(d))
<1> DEFINE n == [live |-> TRUE, created |-> clock, gen |-> d.gen]
           S == Append(d.sessions, n)
<1>0. d \in Dbs /\ SessionsOK(d)
  BY DEF Good
<1>1. S \in Seq(SessionRows)
  BY <1>0, SessionsTyped, Zenon
<1>2. ASSUME NEW s \in DOMAIN S, S[s].live PROVE S[s].gen = d.gen
  <2>1. d.sessions \in Seq(SessionRows) /\ Len(d.sessions) \in Nat
    BY <1>0 DEF Dbs
  <2>2. (s \in DOMAIN d.sessions /\ S[s] = d.sessions[s]) \/ S[s] = n
    BY <2>1
  <2> QED
    BY <2>2, <1>0, <1>2 DEF SessionsOK
<1> HIDE DEF S
<1>3. Good([d EXCEPT !.sessions = S])
  BY <1>1, <1>2, SessionsGood
<1> QED
  BY <1>3 DEF Issue, S

\* A closed session is closed (RevokeSessions, RevokeSession).
LEMMA RevokeGood ==
    ASSUME NEW d, Good(d), d.account # NoAccount, clock \in Nat
    PROVE  /\ Good(RevokeSessions(d))
           /\ \A s \in DOMAIN d.sessions : Good([d EXCEPT !.sessions[s] = Closed])
<1>0. d \in Dbs /\ SessionsOK(d)
  BY DEF Good
<1>1. ~Closed.live
  BY DEF Closed
<1>2. Good(RevokeSessions(d))
  <2> DEFINE S == [s \in DOMAIN d.sessions |-> Closed]
  <2>1. S \in Seq(SessionRows)
    BY <1>0, SessionsTyped, Zenon
  <2>2. \A s \in DOMAIN S : S[s].live => S[s].gen = d.gen
    BY <1>1
  <2> HIDE DEF S
  <2>3. Good([d EXCEPT !.sessions = S])
    BY <2>1, <2>2, SessionsGood
  <2> QED
    BY <2>3 DEF RevokeSessions, S
<1>3. ASSUME NEW s \in DOMAIN d.sessions PROVE Good([d EXCEPT !.sessions[s] = Closed])
  <2> DEFINE S == [d.sessions EXCEPT ![s] = Closed]
  <2>1. S \in Seq(SessionRows)
    BY <1>0, SessionsTyped, Zenon
  <2>2. \A k \in DOMAIN S : S[k].live => S[k].gen = d.gen
    BY <1>0, <1>1 DEF SessionsOK
  <2> HIDE DEF S
  <2>3. Good([d EXCEPT !.sessions = S])
    BY <2>1, <2>2, SessionsGood
  <2> QED
    BY <2>3 DEF S
<1> QED
  BY <1>2, <1>3

\* New credentials: the account's next revision, and every session closed.
Changed(d, a) ==
    [d EXCEPT !.account = a, !.gen = d.gen + 1, !.sessions = [s \in DOMAIN d.sessions |-> Closed]]

\* A change of credentials outdates the challenges and ends the sessions in one transaction.
LEMMA ChangedGood ==
    ASSUME NEW d, Good(d), NEW a \in Accounts, a.rev = d.account.rev + 1, a.email \in Emails,
           a.password \in Passwords, clock \in Nat
    PROVE  Good(Changed(d, a))
<1> DEFINE S == [s \in DOMAIN d.sessions |-> Closed]
           e == Changed(d, a)
<1>0. d \in Dbs /\ LimitsOK(d)
  BY DEF Good
<1>1. S \in Seq(SessionRows) /\ \A s \in DOMAIN S : ~S[s].live
  BY <1>0, SessionsTyped, Zenon DEF Closed
<1> HIDE DEF S
<1>2. e = [d EXCEPT !.account = a, !.gen = d.gen + 1, !.sessions = S]
  BY DEF Changed, S
<1>3. d.gen \in Nat /\ d.gen + 1 \in Nat /\ d.account.rev \in Nat
  BY <1>0 DEF Dbs, Accounts
<1>4. e \in Dbs
  BY <1>0, <1>1, <1>2, <1>3, Zenon DEF Dbs
<1>5. /\ e.account = a /\ e.chal = d.chal /\ e.tied = d.tied /\ e.limits = d.limits
      /\ e.sessions = S
  BY <1>0, <1>2 DEF Dbs
<1> HIDE DEF e
<1>6. AccountOK(e) /\ SessionsOK(e) /\ LimitsOK(e)
  BY <1>0, <1>1, <1>5 DEF AccountOK, SessionsOK, LimitsOK
<1>7. e.account.rev > d.account.rev
  BY <1>3, <1>5
<1>8. Renewed(d, e)
  BY <1>4, <1>5, <1>6, <1>7 DEF Renewed
<1> QED
  BY <1>8, RenewedGood DEF e

\* increment alone (StartEmailChange) outdates the challenges and keeps the sessions.
LEMMA IncrementGood ==
    ASSUME NEW d, Good(d), Apart(d), d.account # NoAccount
    PROVE  /\ Good(Increment(d)) /\ Apart(Increment(d))
           /\ \A c \in DOMAIN d.chal : ~Live(Increment(d), c)
           /\ Increment(d) \in Dbs
           /\ Increment(d).chal = d.chal
           /\ Increment(d).account = [d.account EXCEPT !.rev = d.account.rev + 1]
           /\ Increment(d).sessions = d.sessions
           /\ Increment(d).gen = d.gen /\ Increment(d).cancels = d.cancels
           /\ Increment(d).tied = d.tied /\ Increment(d).limits = d.limits
<1> DEFINE a == [d.account EXCEPT !.rev = d.account.rev + 1]
           e == Increment(d)
<1>0. d \in Dbs /\ LimitsOK(d) /\ AccountOK(d) /\ SessionsOK(d)
  BY DEF Good
<1>1. d.account \in Accounts /\ d.account.rev \in Nat
  BY <1>0 DEF Dbs, Accounts
<1>2. a \in Accounts /\ a.email = d.account.email /\ a.password = d.account.password
      /\ a.rev = d.account.rev + 1
  BY <1>1 DEF Accounts
<1> HIDE DEF a
<1>3. e = [d EXCEPT !.account = a]
  BY DEF Increment, a
<1>4. e \in Dbs
  BY <1>0, <1>2, <1>3 DEF Dbs
<1>5. /\ e.account = a /\ e.chal = d.chal /\ e.tied = d.tied /\ e.limits = d.limits
      /\ e.sessions = d.sessions /\ e.gen = d.gen /\ e.cancels = d.cancels
  BY <1>0, <1>3 DEF Dbs
<1> HIDE DEF e
<1>6. AccountOK(e) /\ SessionsOK(e) /\ LimitsOK(e)
  BY <1>0, <1>2, <1>5 DEF AccountOK, SessionsOK, LimitsOK
<1>7. e.account.rev > d.account.rev
  BY <1>1, <1>2, <1>5
<1>8. Renewed(d, e)
  BY <1>4, <1>5, <1>6, <1>7 DEF Renewed
<1>9. Good(e) /\ Apart(e) /\ \A c \in DOMAIN e.chal : ~Live(e, c)
  BY <1>8, RenewedGood
<1> QED
  BY <1>4, <1>5, <1>9 DEF e, a

\* A challenge c for account d that was made now and not used.
Fresh(d, c) ==
    /\ c \in Chals
    /\ c.rev = d.account.rev /\ c.gen = d.gen + d.cancels
    /\ c.sent = clock /\ c.tries = 0 /\ c.used = FALSE /\ c.uses = 0 /\ c.late = FALSE

\* tokenChallenge makes such a challenge.
LEMMA NewFresh ==
    ASSUME NEW d \in Dbs, NEW p \in Purposes, NEW email \in Emails, NEW ttl \in Nat,
           NEW browser \in BOOLEAN, clock \in Nat
    PROVE  /\ Fresh(d, NewChallenge(d, p, email, ttl, browser))
           /\ NewChallenge(d, p, email, ttl, browser).purpose = p
<1>1. d.account.rev \in Nat /\ d.gen + d.cancels \in Nat /\ clock + ttl \in Nat
  BY DEF Dbs, Accounts
<1>2. NewChallenge(d, p, email, ttl, browser) \in Chals
  BY <1>1 DEF NewChallenge, Chals
<1> QED
  BY <1>2 DEF NewChallenge, Fresh

\* A link is mailed when none of its purpose can be accepted and the last was mailed
\* before (RequestToken, StartEmailChange).
LEMMA SendGood ==
    ASSUME NEW d, NEW c, Good(d), Fresh(d, c), c.purpose \in Links, d.account # NoAccount,
           clock \in Nat,
           \A k \in DOMAIN d.chal :
               d.chal[k].purpose = c.purpose => ~Live(d, k) /\ d.chal[k].sent < clock,
           c.purpose = "cancel_email" =>
               \E k \in DOMAIN d.chal : d.chal[k].purpose = "change_email" /\ d.chal[k].sent = clock
    PROVE  /\ Good(SendLink(d, c))
           /\ SendLink(d, c).account = d.account
           /\ SendLink(d, c).gen = d.gen /\ SendLink(d, c).cancels = d.cancels
           /\ DOMAIN SendLink(d, c).chal = DOMAIN d.chal \cup {Len(d.chal) + 1}
           /\ \A k \in DOMAIN d.chal : SendLink(d, c).chal[k] = d.chal[k]
           /\ SendLink(d, c).chal[Len(d.chal) + 1].purpose = c.purpose
           /\ SendLink(d, c).chal[Len(d.chal) + 1].sent = clock
<1> DEFINE n == [c EXCEPT !.sends = 1]
           f == Append(d.chal, n)
           e == SendLink(d, c)
<1>0. d \in Dbs /\ LimitsOK(d)
  BY Zenon DEF Good
<1>1. c \in Chals /\ 1 \in Nat
  BY DEF Fresh
<1>2. n \in Chals
  BY <1>1 DEF Chals
<1>3. /\ n.purpose = c.purpose /\ n.rev = c.rev /\ n.gen = c.gen /\ n.sent = c.sent
      /\ n.tries = c.tries /\ n.used = c.used /\ n.uses = c.uses /\ n.late = c.late
      /\ n.sends = 1
  BY <1>1 DEF Chals
<1> HIDE DEF n
<1>4. d.chal \in Seq(Chals) /\ Len(d.chal) \in Nat /\ DOMAIN d.chal = 1..Len(d.chal)
  BY <1>0 DEF Dbs
<1>5. /\ f \in Seq(Chals) /\ DOMAIN f = 1..(Len(d.chal) + 1) /\ f[Len(d.chal) + 1] = n
      /\ \A k \in DOMAIN d.chal : f[k] = d.chal[k]
  BY <1>2, <1>4
<1> HIDE DEF f
<1>6. e = [d EXCEPT !.chal = f]
  BY DEF SendLink, f, n
<1>7. e \in Dbs
  BY <1>0, <1>5, <1>6, Zenon DEF Dbs
<1>8. /\ e.account = d.account /\ e.chal = f /\ e.tied = d.tied /\ e.limits = d.limits
      /\ e.sessions = d.sessions /\ e.gen = d.gen /\ e.cancels = d.cancels
  BY <1>0, <1>6 DEF Dbs
<1> HIDE DEF e
<1>9. d.account.rev \in Nat
  BY <1>0 DEF Dbs, Accounts
<1>10. n.sends \in 1..SendsPerCode
       /\ n.tries \in 0..(IF n.used THEN TriesPerCode ELSE TriesPerCode - 1)
  BY <1>3, Numbers DEF Fresh
<1>11. ChalOK(n, d.account.rev, d.gen + d.cancels)
  BY <1>3, <1>9, <1>10 DEF ChalOK, Fresh
<1>12. LimitsOK(e)
  BY <1>0, <1>8 DEF LimitsOK
<1>13. Added(d, e, n)
  BY <1>2, <1>3, <1>5, <1>7, <1>8, <1>11, <1>12, Zenon DEF Added, Fresh
<1>14. Good(e)
  BY <1>13, AddedGood, Zenon
<1>15. 1..(Len(d.chal) + 1) = DOMAIN d.chal \cup {Len(d.chal) + 1}
  BY <1>4
<1>16. f[Len(d.chal) + 1].purpose = c.purpose /\ f[Len(d.chal) + 1].sent = clock
  BY <1>3, <1>5 DEF Fresh
<1> QED
  BY <1>5, <1>8, <1>14, <1>15, <1>16, Zenon DEF e

\* A link is not mailed again within resendDelay of the last one of its purpose, so the
\* next one has a later time.
LEMMA SentBefore ==
    ASSUME NEW d, Good(d), Apart(d), NEW p \in Purposes, NEW l \in Latest(d, p),
           ~RecentlySent(d, l), clock \in Nat
    PROVE  \A k \in DOMAIN d.chal : d.chal[k].purpose = p => d.chal[k].sent < clock
<1> SUFFICES ASSUME NEW k \in DOMAIN d.chal, d.chal[k].purpose = p
             PROVE  d.chal[k].sent < clock
  OBVIOUS
<1>1. l # 0 /\ l \in DOMAIN d.chal /\ d.chal[k].sent <= d.chal[l].sent
  BY LatestIsLive
<1>2. d.chal[k] \in Chals /\ d.chal[l] \in Chals
  BY <1>1, ChalTyped DEF Good
<1>3. d.chal[k].sent \in Nat /\ d.chal[l].sent \in Nat
  BY <1>2 DEF Chals
<1>4. ~(clock - d.chal[l].sent < ResendDelay)
  BY <1>1 DEF RecentlySent
<1> QED
  BY <1>1, <1>3, <1>4, Numbers

----------------------------------------------------------------------------
(* Operations *)

\* A challenge or a session exists only of an account.
LEMMA AccountExists ==
    ASSUME NEW d, Good(d), (DOMAIN d.chal # {} \/ DOMAIN d.sessions # {} \/ d.account # NoAccount)
    PROVE  /\ d.account # NoAccount /\ d.account.email \in Emails
           /\ d.account.password \in Passwords /\ d.account \in Accounts
           /\ d \in Dbs
<1>1. d \in Dbs /\ d.account \in Accounts
  BY DEF Good, Dbs
<1>2. DOMAIN <<>> = {}
  OBVIOUS
<1>3. NoAccount.email = "none"
  BY DEF NoAccount
<1> QED
  BY <1>1, <1>2, <1>3, Numbers DEF Good, AccountOK

\* Service.RegisterBrowser.
LEMMA RegisterGood ==
    ASSUME NEW d, Good(d), NEW p \in Passwords, clock \in Nat
    PROVE  Good(Register(d, p))
<1> DEFINE a == [email |-> FirstEmail, password |-> p, verified |-> FALSE, code |-> TRUE, rev |-> 1]
           e == [d EXCEPT !.account = a]
           c == NewChallenge(e, "verify", FirstEmail, VerifyTTL, TRUE)
<1>1. CASE Exists(d)
  BY <1>1 DEF Register
<1>2. CASE ~Exists(d)
  <2>0. d \in Dbs /\ LimitsOK(d) /\ d.account = NoAccount
    BY <1>2 DEF Good, Exists
  <2>1. d.chal = <<>> /\ d.sessions = <<>>
    BY <2>0, Numbers DEF Good, AccountOK, NoAccount
  <2>2. a \in Accounts /\ a.email \in Emails /\ a.password \in Passwords /\ a.rev = 1
    BY Numbers DEF Accounts
  <2>3. a # NoAccount
    BY Numbers DEF NoAccount
  <2> HIDE DEF a
  <2>4. e \in Dbs
    BY <2>0, <2>2, Zenon DEF Dbs
  <2>5. /\ e.account = a /\ e.chal = <<>> /\ e.tied = d.tied /\ e.limits = d.limits
        /\ e.sessions = <<>> /\ e.gen = d.gen /\ e.cancels = d.cancels /\ e.chal = d.chal
    BY <2>0, <2>1 DEF Dbs
  <2> HIDE DEF e
  <2>6. AccountOK(e) /\ SessionsOK(e) /\ LimitsOK(e)
    BY <2>0, <2>2, <2>5 DEF AccountOK, SessionsOK, LimitsOK
  <2>7. e.account.rev > d.account.rev
    BY <2>0, <2>2, <2>5 DEF NoAccount
  <2>8. Good(e)
    BY <2>4, <2>5, <2>6, <2>7, RenewedGood DEF Renewed
  <2>9. "verify" \in Purposes /\ "verify" \in Links /\ "verify" # "cancel_email"
    BY DEF Purposes, Links
  <2>10. Fresh(e, c) /\ c.purpose = "verify"
    <3>1. FirstEmail \in Emails /\ VerifyTTL \in Nat
      BY Numbers
    <3> QED
      BY <2>4, <2>9, <3>1, NewFresh, Zenon
  <2> HIDE DEF c
  <2>12. DOMAIN e.chal = {}
    <3>1. DOMAIN <<>> = {}
      OBVIOUS
    <3> QED
      BY <2>5, <3>1, Zenon
  <2>13. e.account # NoAccount /\ c.purpose \in Links /\ c.purpose # "cancel_email"
    BY <2>3, <2>5, <2>9, <2>10
  <2>11. Good(SendLink(e, c))
    BY <2>8, <2>10, <2>12, <2>13, SendGood, Zenon
  <2> QED
    BY <2>11, <1>2, Zenon DEF Register, e, c, a
<1> QED
  BY <1>1, <1>2

\* Counters of counters.
LEMMA SameRestTransitive ==
    ASSUME NEW d, NEW e, NEW f, SameRest(d, e), SameRest(e, f)
    PROVE  SameRest(d, f)
BY DEF SameRest

\* A code is mailed again, or a first one when none can be accepted (Login and
\* StartCodeChange after LatestChallenge).
LEMMA AnotherCodeGood ==
    ASSUME NEW d, NEW e, NEW p \in CodePurposes, NEW l \in Latest(d, p), Good(d), Apart(d),
           SameRest(d, e), d.account # NoAccount, clock \in Nat
    PROVE  /\ (l # 0 /\ Live(d, l)) => Good(ReplaceCode(e, l).db)
           /\ ~(l # 0 /\ Live(d, l)) => Good(CreateCode(e, p).db)
           /\ l # 0 => l \in DOMAIN d.chal /\ d.chal[l].purpose = p
<1>0. p \in Purposes
  BY CodesAreNotLinks
<1>1. l # 0 => l \in DOMAIN d.chal /\ d.chal[l].purpose = p
  BY <1>0, LatestIsLive
<1>2. \A c \in DOMAIN d.chal : (d.chal[c].purpose = p /\ p \notin d.tied /\ Live(d, c)) => l = c
  BY <1>0, LatestIsLive, Zenon
<1>3. Good(e) /\ Apart(e) /\ \A c : Live(e, c) <=> Live(d, c)
  BY SameRestGood
<1>4. e.chal = d.chal /\ e.account = d.account /\ e.tied = d.tied
  BY DEF SameRest
<1>5. (l # 0 /\ Live(d, l)) => Good(ReplaceCode(e, l).db)
  BY <1>1, <1>3, <1>4, ReplaceGood
<1>6. ASSUME ~(l # 0 /\ Live(d, l)) PROVE Good(CreateCode(e, p).db)
  <2>1. 0 \notin DOMAIN d.chal
    <3>1. d.chal \in Seq(Chals)
      BY DEF Good, Dbs
    <3> QED
      BY <3>1
  <2>2. p \in e.tied \/ \A c \in DOMAIN e.chal : e.chal[c].purpose = p => ~Live(e, c)
    BY <1>2, <1>3, <1>4, <1>6, <2>1
  <2> QED
    BY <1>3, <1>4, <2>2, CreateGood
<1> QED
  BY <1>1, <1>5, <1>6

\* Service.Login, with any password and whichever challenge is found.
LEMMA LoginGood ==
    ASSUME NEW d, Good(d), Apart(d), NEW e \in Emails, NEW p, NEW allow \in BOOLEAN,
           NEW l \in Latest(d, "login"), clock \in Nat
    PROVE  Good(Login(d, e, p, allow, l))
<1> DEFINE b == <<"password", e>>
           r == Reserve(d, b, AttemptLimit, Window)
           in == ResetAttempts(r.db, b)
           fresh == CreateCode(in, "login")
           res == Login(d, e, p, allow, l)
           valid == e = d.account.email /\ p = d.account.password
           opened == IF ~d.account.verified \/ (d.account.code /\ ~allow) THEN in
                     ELSE IF ~d.account.code THEN Issue(in)
                     ELSE IF l # 0 /\ CheckChallenge(in, l, "login")
                          THEN IF RecentlySent(in, l) THEN in ELSE ReplaceCode(in, l).db
                     ELSE IF fresh.ok THEN fresh.db ELSE d
<1>0. d \in Dbs /\ LimitsOK(d) /\ "login" \in CodePurposes
  BY DEF Good, CodePurposes
<1>1. b \in Buckets /\ BudgetOf(b) = AttemptLimit
  BY Budgets DEF Buckets
<1>2. SameRest(d, r.db) /\ r.n \in Nat
  BY <1>0, <1>1, ReserveKeeps, Numbers
<1>3. SameRest(r.db, in)
  BY <1>2, ResetKeeps, Zenon DEF SameRest
<1>4. SameRest(d, in)
  BY <1>2, <1>3, SameRestTransitive
<1>5. res = CASE r.n > AttemptLimit -> r.db
              [] r.n <= AttemptLimit /\ ~valid -> r.db
              [] r.n <= AttemptLimit /\ valid -> opened
  BY Zenon DEF Login
<1>6. Good(r.db) /\ Good(in) /\ \A c : Live(in, c) <=> Live(d, c)
  BY <1>2, <1>4, SameRestGood
<1> HIDE DEF r, b, in, fresh, res
<1>7. CASE r.n > AttemptLimit
  <2>1. ~(r.n <= AttemptLimit)
    BY <1>2, <1>7, Numbers
  <2>2. res = r.db
    BY <1>5, <1>7, <2>1, Zenon
  <2> QED
    BY <2>2, <1>6 DEF res
<1>8. CASE r.n <= AttemptLimit
  <2>1. ~(r.n > AttemptLimit)
    BY <1>2, <1>8, Numbers
  <2>2. CASE ~valid
    <3>1. res = r.db
      BY <1>5, <1>8, <2>1, <2>2, Zenon
    <3> QED
      BY <3>1, <1>6 DEF res
  <2>3. CASE valid
    <3>0. d.account # NoAccount
      <4>1. NoAccount.email = "none"
        BY DEF NoAccount
      <4> QED
        BY <2>3, <4>1, Numbers
    <3>1. res = opened
      BY <1>5, <1>8, <2>1, <2>3, Zenon
    <3>2. in.account = d.account /\ in.chal = d.chal
      BY <1>4 DEF SameRest
    <3>3. Good(Issue(in))
      BY <1>6, <3>0, <3>2, IssueGood
    <3>4. /\ (l # 0 /\ Live(d, l)) => Good(ReplaceCode(in, l).db)
          /\ ~(l # 0 /\ Live(d, l)) => Good(fresh.db)
          /\ l # 0 => l \in DOMAIN d.chal /\ d.chal[l].purpose = "login"
      BY <1>0, <1>4, <3>0, AnotherCodeGood, Zenon DEF fresh
    <3>5. l # 0 => (CheckChallenge(in, l, "login") <=> Live(d, l))
      <4>1. l # 0 => in.chal[l].purpose = "login"
        BY <3>2, <3>4
      <4>2. l # 0 => (Live(in, l) <=> CheckChallenge(in, l, "login"))
        BY <4>1, Zenon DEF Live
      <4> QED
        BY <4>2, <1>6
    <3>6. Good(opened)
      BY <1>6, <3>3, <3>4, <3>5, Zenon
    <3> QED
      BY <3>1, <3>6, Zenon DEF res
  <2> QED
    BY <2>2, <2>3
<1>9. r.n > AttemptLimit \/ r.n <= AttemptLimit
  BY <1>2, Numbers
<1> QED
  BY <1>7, <1>8, <1>9

\* Service.CompleteLogin: the code is accepted once, and opens a session of now.
LEMMA CompleteLoginGood ==
    ASSUME NEW d, NEW c \in DOMAIN d.chal, NEW code, Good(d), Apart(d),
           d.chal[c].purpose = "login", clock \in Nat
    PROVE  Good(CompleteLogin(d, c, code))
<1> DEFINE r == CheckCode(d, c, "login", code)
<1>0. "login" \in CodePurposes
  BY DEF CodePurposes
<1>1. Good(r.db) /\ r.ok \in BOOLEAN /\ (r.ok => Live(d, c) /\ SameRest(d, r.db))
  BY <1>0, CheckGood, Zenon
<1> HIDE DEF r
<1>2. ASSUME r.ok PROVE Good(Issue(Spend(r.db, c)))
  <2>1. Apart(r.db) /\ Live(r.db, c)
    BY <1>1, <1>2, SameRestGood, Zenon
  <2>2. c \in DOMAIN r.db.chal /\ r.db.account = d.account
    BY <1>1, <1>2 DEF SameRest
  <2>3. Good(Spend(r.db, c)) /\ Edited(r.db, Spend(r.db, c), c)
    BY <1>1, <2>1, <2>2, SpendGood
  <2>4. Spend(r.db, c).account = d.account
    BY <2>2, <2>3, Zenon DEF Edited
  <2>5. d.account # NoAccount
    BY AccountExists
  <2> QED
    BY <2>3, <2>4, <2>5, IssueGood
<1>3. CompleteLogin(d, c, code) =
          IF r.ok /\ d.account.verified /\ d.account.code THEN Issue(Spend(r.db, c)) ELSE r.db
  BY Zenon DEF CompleteLogin, r
<1> QED
  BY <1>1, <1>2, <1>3, Zenon

\* Service.ResendCode.
LEMMA ResendGood ==
    ASSUME NEW d, NEW c \in DOMAIN d.chal, Good(d), Apart(d), d.chal[c].purpose = "login",
           clock \in Nat
    PROVE  Good(ResendCode(d, c))
<1>0. "login" \in CodePurposes
  BY DEF CodePurposes
<1>1. CheckChallenge(d, c, "login") <=> Live(d, c)
  BY DEF Live
<1>2. Live(d, c) => Good(ReplaceCode(d, c).db)
  BY <1>0, ReplaceGood
<1> QED
  BY <1>1, <1>2, Zenon DEF ResendCode

\* Service.RequestToken: the link before is spent, the new one is later.
LEMMA RequestGood ==
    ASSUME NEW d, Good(d), Apart(d), NEW p \in {"verify", "reset"},
           NEW l \in Latest(d, p), clock \in Nat
    PROVE  Good(RequestToken(d, p, l))
<1> DEFINE ttl == IF p = "reset" THEN LinkTTL ELSE VerifyTTL
           bound == l # 0 /\ p = "verify" /\ CheckChallenge(d, l, p) /\ d.chal[l].browser
           e == IF l = 0 THEN d ELSE [d EXCEPT !.chal[l].used = TRUE]
           c == NewChallenge(d, p, d.account.email, ttl, bound)
           n == IF bound THEN [c EXCEPT !.exp = d.chal[l].exp] ELSE c
           refused == ~Exists(d) \/ (p = "verify" /\ d.account.verified) \/ RecentlySent(d, l)
<1>1. RequestToken(d, p, l) = IF refused THEN d ELSE SendLink(e, n)
  BY Zenon DEF RequestToken
<1>2. CASE refused
  <2>1. RequestToken(d, p, l) = d
    BY <1>1, <1>2, Zenon
  <2> QED
    BY <2>1
<1>3. CASE ~refused
  <2>1. RequestToken(d, p, l) = SendLink(e, n)
    BY <1>1, <1>3, Zenon
  <2>2. d.account # NoAccount /\ ~RecentlySent(d, l)
    BY <1>3 DEF Exists
  <2>3. d \in Dbs /\ d.account.email \in Emails
    BY <2>2, AccountExists
  <2>4. p \in Purposes /\ p \in Links /\ p # "cancel_email" /\ p \notin d.tied
    BY Zenon DEF Purposes, Links, Good, LinksOK
  <2>5. /\ l # 0 => l \in DOMAIN d.chal /\ d.chal[l].purpose = p
        /\ l = 0 => \A k \in DOMAIN d.chal : d.chal[k].purpose # p
        /\ \A k \in DOMAIN d.chal : (d.chal[k].purpose = p /\ Live(d, k)) => l = k
    BY <2>4, LatestIsLive
  <2>6. \A k \in DOMAIN d.chal : d.chal[k].purpose = p => d.chal[k].sent < clock
    BY <2>2, <2>4, SentBefore
  <2>7. Fresh(d, n) /\ n.purpose = p
    <3>1. ttl \in Nat /\ bound \in BOOLEAN
      BY Numbers
    <3> HIDE DEF ttl, bound
    <3>2. Fresh(d, c) /\ c.purpose = p
      BY <2>3, <2>4, <3>1, NewFresh
    <3> HIDE DEF c
    <3>3. ASSUME bound
          PROVE  Fresh(d, [c EXCEPT !.exp = d.chal[l].exp])
                 /\ [c EXCEPT !.exp = d.chal[l].exp].purpose = p
      <4>1. d.chal[l] \in Chals
        BY <2>3, <2>5, <3>3, ChalTyped DEF bound
      <4>2. d.chal[l].exp \in Nat
        BY <4>1 DEF Chals
      <4>3. c \in Chals
        BY <3>2 DEF Fresh
      <4>4. [c EXCEPT !.exp = d.chal[l].exp] \in Chals
        BY <4>2, <4>3 DEF Chals
      <4> QED
        BY <3>2, <4>3, <4>4 DEF Fresh, Chals
    <3> QED
      BY <3>2, <3>3
  <2> HIDE DEF n, ttl, bound, c, refused
  <2>8. /\ Good(e) /\ e.account = d.account /\ e.gen = d.gen /\ e.cancels = d.cancels
        /\ DOMAIN e.chal = DOMAIN d.chal
        /\ \A k \in DOMAIN d.chal :
               /\ e.chal[k].purpose = d.chal[k].purpose /\ e.chal[k].sent = d.chal[k].sent
               /\ e.chal[k].purpose = p => ~Live(e, k)
    <3>1. CASE l = 0
      BY <2>5, <3>1
    <3>2. CASE l # 0
      <4> DEFINE x == [d.chal[l] EXCEPT !.used = TRUE]
      <4>1. l \in DOMAIN d.chal /\ d.chal[l] \in Chals
        BY <2>3, <2>5, <3>2, ChalTyped, Zenon
      <4>2. x \in Chals
        BY <4>1, Zenon DEF Chals
      <4>3. /\ x.purpose = d.chal[l].purpose /\ x.rev = d.chal[l].rev /\ x.exp = d.chal[l].exp
            /\ x.sent = d.chal[l].sent /\ x.gen = d.chal[l].gen /\ x.tries = d.chal[l].tries
            /\ x.sends = d.chal[l].sends /\ x.uses = d.chal[l].uses /\ x.used = TRUE
            /\ x.late = d.chal[l].late
        BY <4>1 DEF Chals
      <4>4. e = WithRow(d, l, x)
        BY <3>2 DEF WithRow
      <4> HIDE DEF x, e
      <4>5. ChalOK(d.chal[l], d.account.rev, d.gen + d.cancels)
        BY <4>1 DEF Good, ChalsOK
      <4>6. d.chal[l].tries \in Nat
        BY <4>1 DEF Chals
      <4>7. x.tries \in 0..(IF x.used THEN TriesPerCode ELSE TriesPerCode - 1)
        <5>1. d.chal[l].tries \in
                  0..(IF d.chal[l].used THEN TriesPerCode ELSE TriesPerCode - 1)
          BY <4>5, Zenon DEF ChalOK
        <5>2. d.chal[l].tries \in 0..TriesPerCode
          BY <5>1, Numbers
        <5> QED
          BY <4>3, <5>2
      <4>8. ChalOK(x, d.account.rev, d.gen + d.cancels)
        BY <4>3, <4>5, <4>7, Zenon DEF ChalOK
      <4>9. SameRest(d, d)
        BY <2>3 DEF SameRest, Good
      <4>10. Good(e) /\ Edited(d, e, l)
        BY <4>1, <4>2, <4>3, <4>4, <4>8, <4>9, RowGood, Zenon
      <4>11. e.chal[l] = x /\ \A k \in DOMAIN d.chal : k # l => e.chal[k] = d.chal[k]
        BY <2>3, <4>1, <4>2, <4>4, WithRowKeeps
      <4>12. ASSUME NEW k \in DOMAIN d.chal, e.chal[k].purpose = p PROVE ~Live(e, k)
        <5>1. CASE k = l
          BY <5>1, <4>3, <4>11 DEF Live, CheckChallenge
        <5>2. CASE k # l
          <6>1. e.chal[k] = d.chal[k] /\ ~Live(d, k)
            BY <5>2, <4>11, <4>12, <2>5
          <6>2. e.account = d.account
            BY <4>10, Zenon DEF Edited
          <6> QED
            BY <6>1, <6>2, Zenon DEF Live, CheckChallenge
        <5> QED
          BY <5>1, <5>2
      <4> QED
        BY <4>3, <4>10, <4>11, <4>12, Zenon DEF Edited
    <3> QED
      BY <3>1, <3>2, Zenon
  <2> HIDE DEF e
  <2>9. Fresh(e, n)
    BY <2>7, <2>8, Zenon DEF Fresh
  <2>10. \A k \in DOMAIN e.chal : e.chal[k].purpose = n.purpose => ~Live(e, k) /\ e.chal[k].sent < clock
    BY <2>6, <2>7, <2>8, Zenon
  <2>11. Good(SendLink(e, n))
    BY <2>2, <2>4, <2>7, <2>8, <2>9, <2>10, SendGood, Zenon
  <2> QED
    BY <2>1, <2>11
<1> QED
  BY <1>2, <1>3

\* Service.ConfirmRegistration: the account is verified, and the browser that registered
\* gets a session.
LEMMA ConfirmRegistrationGood ==
    ASSUME NEW d, NEW c \in DOMAIN d.chal, NEW secret, NEW browser, Good(d), Apart(d), clock \in Nat
    PROVE  Good(ConfirmRegistration(d, c, secret, browser))
<1> DEFINE a == [d.account EXCEPT !.verified = TRUE]
           g == [d EXCEPT !.account.verified = TRUE]
           ok == Confirms(d, c, "verify", secret) /\ d.account.email = d.chal[c].email
                 /\ ~d.account.verified
<1>1. CASE ~ok
  <2>1. ConfirmRegistration(d, c, secret, browser) = d
    BY <1>1, Zenon DEF ConfirmRegistration
  <2> QED
    BY <2>1
<1>2. CASE ok
  <2>1. ConfirmRegistration(d, c, secret, browser) =
            IF browser /\ d.chal[c].browser THEN Issue(Spend(g, c)) ELSE Spend(g, c)
    BY <1>2, Zenon DEF ConfirmRegistration
  <2>2. CheckChallenge(d, c, "verify")
    BY <1>2 DEF Confirms
  <2>3. Live(d, c)
    BY <2>2, Zenon DEF Live, CheckChallenge
  <2>4. /\ d.account # NoAccount /\ d.account \in Accounts /\ d.account.email \in Emails
        /\ d.account.password \in Passwords /\ d \in Dbs
    BY AccountExists
  <2>5. /\ a \in Accounts /\ a.email = d.account.email /\ a.password = d.account.password
        /\ a.rev = d.account.rev
    BY <2>4, Zenon DEF Accounts
  <2>6. g = [d EXCEPT !.account = a]
    OBVIOUS
  <2> HIDE DEF a
  <2>7. g \in Dbs
    BY <2>4, <2>5, <2>6, Zenon DEF Dbs
  <2>8. /\ g.account = a /\ g.chal = d.chal /\ g.tied = d.tied /\ g.limits = d.limits
        /\ g.sessions = d.sessions /\ g.gen = d.gen /\ g.cancels = d.cancels
    BY <2>4, <2>6 DEF Dbs
  <2> HIDE DEF g, ok
  <2>9. AccountOK(g) /\ SessionsOK(g) /\ LimitsOK(g)
    BY <2>4, <2>5, <2>8, Zenon DEF AccountOK, SessionsOK, LimitsOK, Good
  <2>10. Kept(d, g)
    BY <2>5, <2>7, <2>8, <2>9 DEF Kept
  <2>11. Good(g) /\ Apart(g)
    BY <2>10, KeptGood
  <2>12. Live(g, c)
    BY <2>3, <2>5, <2>8, Zenon DEF Live, CheckChallenge
  <2>13. Good(Spend(g, c)) /\ Edited(g, Spend(g, c), c)
    BY <2>8, <2>11, <2>12, SpendGood
  <2>14. Spend(g, c).account = a
    BY <2>8, <2>13, Zenon DEF Edited
  <2>15. a # NoAccount
    BY <2>4, <2>5, Numbers DEF NoAccount
  <2>16. Good(Issue(Spend(g, c)))
    BY <2>13, <2>14, <2>15, IssueGood
  <2> QED
    BY <2>1, <2>13, <2>16, Zenon
<1> QED
  BY <1>1, <1>2, Zenon

\* verifyPassword counts an attempt or clears the counter, and touches nothing else.
LEMMA VerifyKeeps ==
    ASSUME NEW d, Good(d), NEW p, clock \in Nat
    PROVE  /\ VerifyPassword(d, p).ok \in BOOLEAN
           /\ SameRest(d, VerifyPassword(d, p).db)
<1> DEFINE r == Reserve(d, Reauth, AttemptLimit, Window)
           no == r.n > AttemptLimit \/ p # d.account.password
<1>0. d \in Dbs /\ LimitsOK(d)
  BY DEF Good
<1>1. Reauth \in Buckets /\ AttemptLimit = BudgetOf(Reauth)
  BY Budgets DEF Buckets
<1>2. SameRest(d, r.db)
  BY <1>0, <1>1, Numbers, ReserveKeeps
<1>3. VerifyPassword(d, p) = IF no THEN [ok |-> FALSE, db |-> r.db]
                             ELSE [ok |-> TRUE, db |-> ResetAttempts(r.db, Reauth)]
  BY Zenon DEF VerifyPassword
<1> HIDE DEF r, no
<1>4. r.db \in Dbs /\ LimitsOK(r.db)
  BY <1>2 DEF SameRest
<1>5. SameRest(d, ResetAttempts(r.db, Reauth))
  BY <1>2, <1>4, ResetKeeps, SameRestTransitive
<1> HIDE DEF r
<1> QED
  BY <1>2, <1>3, <1>5

\* A new revision, a new generation and no sessions, with one part of the account changed.
LEMMA ChangeIsChanged ==
    ASSUME NEW e \in Dbs, NEW a
    PROVE  /\ NextGen(Increment(e)).account = [e.account EXCEPT !.rev = e.account.rev + 1]
           /\ RevokeSessions([NextGen(Increment(e)) EXCEPT !.account = a]) = Changed(e, a)
<1> DEFINE b == [e.account EXCEPT !.rev = e.account.rev + 1]
<1>1. Increment(e) = [e EXCEPT !.account = b]
  BY DEF Increment
<1> HIDE DEF b
<1>2. NextGen(Increment(e)) = [e EXCEPT !.account = b, !.gen = e.gen + 1]
  BY <1>1 DEF NextGen, Dbs
<1>3. [NextGen(Increment(e)) EXCEPT !.account = a] = [e EXCEPT !.account = a, !.gen = e.gen + 1]
  BY <1>2, Zenon DEF Dbs
<1>4. RevokeSessions([e EXCEPT !.account = a, !.gen = e.gen + 1]) = Changed(e, a)
  BY DEF RevokeSessions, Changed, Dbs
<1>5. NextGen(Increment(e)).account = b
  BY <1>2 DEF Dbs
<1> QED
  BY <1>3, <1>4, <1>5 DEF b

\* Each of the four changes of credentials.
LEMMA CredentialsGood ==
    ASSUME NEW e, Good(e), e.account # NoAccount, clock \in Nat,
           NEW p \in Passwords, NEW m \in Emails, NEW b \in BOOLEAN
    PROVE  /\ Good(RevokeSessions([NextGen(Increment(e)) EXCEPT !.account.password = p]))
           /\ Good(RevokeSessions([NextGen(Increment(e)) EXCEPT !.account.password = p,
                                                                !.account.verified = TRUE]))
           /\ Good(RevokeSessions([NextGen(Increment(e)) EXCEPT !.account.email = m,
                                                                !.account.verified = TRUE]))
           /\ Good(RevokeSessions([NextGen(Increment(e)) EXCEPT !.account.code = b]))
<1> DEFINE x == NextGen(Increment(e))
           g == [e.account EXCEPT !.rev = e.account.rev + 1]
           a1 == [g EXCEPT !.password = p]
           a2 == [g EXCEPT !.password = p, !.verified = TRUE]
           a3 == [g EXCEPT !.email = m, !.verified = TRUE]
           a4 == [g EXCEPT !.code = b]
<1>1. /\ e \in Dbs /\ e.account \in Accounts /\ e.account.email \in Emails
      /\ e.account.password \in Passwords
  BY AccountExists
<1>2. /\ g \in Accounts /\ g.rev = e.account.rev + 1 /\ g.email = e.account.email
      /\ g.password = e.account.password
  BY <1>1 DEF Accounts
<1>3. x.account = g /\ \A a : RevokeSessions([x EXCEPT !.account = a]) = Changed(e, a)
  BY <1>1, ChangeIsChanged, Zenon
<1> HIDE DEF g, x
<1>4. /\ [x EXCEPT !.account.password = p] = [x EXCEPT !.account = a1]
      /\ [x EXCEPT !.account.password = p, !.account.verified = TRUE] = [x EXCEPT !.account = a2]
      /\ [x EXCEPT !.account.email = m, !.account.verified = TRUE] = [x EXCEPT !.account = a3]
      /\ [x EXCEPT !.account.code = b] = [x EXCEPT !.account = a4]
  BY <1>3, Zenon
<1>5. \A a \in {a1, a2, a3, a4} :
          a \in Accounts /\ a.rev = g.rev /\ a.email \in Emails /\ a.password \in Passwords
  BY <1>1, <1>2, Zenon DEF Accounts
<1> HIDE DEF a1, a2, a3, a4
<1>6. Good(Changed(e, a1)) /\ Good(Changed(e, a2)) /\ Good(Changed(e, a3)) /\ Good(Changed(e, a4))
  BY <1>2, <1>5, ChangedGood
<1> QED
  BY <1>3, <1>4, <1>6 DEF x

\* The challenge a confirmation spends was one that could be accepted.
LEMMA ConfirmSpends ==
    ASSUME NEW d, NEW c \in DOMAIN d.chal, NEW p, NEW secret, Good(d), Apart(d), clock \in Nat,
           Confirms(d, c, p, secret)
    PROVE  /\ Good(Spend(d, c)) /\ Spend(d, c).account # NoAccount
           /\ Spend(d, c).account = d.account
<1>1. CheckChallenge(d, c, p)
  BY DEF Confirms
<1>2. Live(d, c)
  BY <1>1, Zenon DEF Live, CheckChallenge
<1>3. Good(Spend(d, c)) /\ Edited(d, Spend(d, c), c)
  BY <1>2, SpendGood
<1>4. d.account # NoAccount
  BY AccountExists
<1> QED
  BY <1>3, <1>4, Zenon DEF Edited

\* Service.ResetPassword.
LEMMA ResetPasswordGood ==
    ASSUME NEW d, NEW c \in DOMAIN d.chal, NEW secret, NEW p \in Passwords, Good(d), Apart(d),
           clock \in Nat
    PROVE  Good(ResetPassword(d, c, secret, p))
<1>1. CASE Confirms(d, c, "reset", secret) /\ d.account.email = d.chal[c].email
  <2>1. Good(Spend(d, c)) /\ Spend(d, c).account # NoAccount
    BY <1>1, ConfirmSpends
  <2>2. FirstEmail \in Emails /\ TRUE \in BOOLEAN
    BY Numbers
  <2>3. Good(RevokeSessions([NextGen(Increment(Spend(d, c))) EXCEPT !.account.password = p,
                                                                     !.account.verified = TRUE]))
    BY <2>1, <2>2, CredentialsGood, Zenon
  <2> QED
    BY <1>1, <2>3, Zenon DEF ResetPassword
<1>2. CASE ~(Confirms(d, c, "reset", secret) /\ d.account.email = d.chal[c].email)
  <2>1. ResetPassword(d, c, secret, p) = d
    BY <1>2, Zenon DEF ResetPassword
  <2> QED
    BY <2>1
<1> QED
  BY <1>1, <1>2

\* Service.ConfirmEmailChange.
LEMMA ConfirmEmailGood ==
    ASSUME NEW d, NEW c \in DOMAIN d.chal, NEW secret, Good(d), Apart(d), clock \in Nat
    PROVE  Good(ConfirmEmailChange(d, c, secret))
<1>1. CASE Confirms(d, c, "change_email", secret)
  <2>1. Good(Spend(d, c)) /\ Spend(d, c).account # NoAccount
    BY <1>1, ConfirmSpends
  <2>2. d \in Dbs /\ d.account.password \in Passwords
    BY AccountExists
  <2>3. d.chal[c] \in Chals
    BY <2>2, ChalTyped
  <2>4. d.chal[c].email \in Emails /\ TRUE \in BOOLEAN
    BY <2>3 DEF Chals
  <2>5. Good(RevokeSessions([NextGen(Increment(Spend(d, c))) EXCEPT
                                 !.account.email = d.chal[c].email, !.account.verified = TRUE]))
    BY <2>1, <2>2, <2>4, CredentialsGood, Zenon
  <2> QED
    BY <1>1, <2>5, Zenon DEF ConfirmEmailChange
<1>2. CASE ~Confirms(d, c, "change_email", secret)
  <2>1. ConfirmEmailChange(d, c, secret) = d
    BY <1>2, Zenon DEF ConfirmEmailChange
  <2> QED
    BY <2>1
<1> QED
  BY <1>1, <1>2

\* Service.CancelEmailChange: the link that would confirm the change is outdated.
LEMMA CancelEmailGood ==
    ASSUME NEW d, NEW c \in DOMAIN d.chal, NEW secret, Good(d), Apart(d), clock \in Nat
    PROVE  Good(CancelEmailChange(d, c, secret))
<1>1. CASE Confirms(d, c, "cancel_email", secret)
  <2> DEFINE e == Spend(d, c)
             a == [e.account EXCEPT !.rev = e.account.rev + 1]
             f == [Increment(e) EXCEPT !.cancels = @ + 1]
  <2>1. Good(e) /\ e.account # NoAccount
    BY <1>1, ConfirmSpends
  <2> HIDE DEF e
  <2>2. /\ e \in Dbs /\ e.account \in Accounts /\ e.account.email \in Emails
        /\ e.account.password \in Passwords
    BY <2>1, AccountExists
  <2>3. /\ a \in Accounts /\ a.rev = e.account.rev + 1 /\ a.email = e.account.email
        /\ a.password = e.account.password
    BY <2>2 DEF Accounts
  <2>4. Increment(e) = [e EXCEPT !.account = a]
    BY DEF Increment
  <2> HIDE DEF a
  <2> DEFINE n == e.cancels + 1
  <2>5. f = [e EXCEPT !.account = a, !.cancels = n]
    BY <2>2, <2>4 DEF Dbs
  <2>0. n \in Nat
    BY <2>2 DEF Dbs
  <2> HIDE DEF f, n
  <2>6. /\ f \in Dbs /\ f.account = a /\ f.chal = e.chal /\ f.tied = e.tied /\ f.gen = e.gen
        /\ f.sessions = e.sessions /\ f.limits = e.limits
    BY <2>0, <2>2, <2>3, <2>5, Zenon DEF Dbs
  <2>7. f.account.rev > e.account.rev
    BY <2>2, <2>3, <2>6 DEF Accounts
  <2>8. AccountOK(f) /\ SessionsOK(f) /\ LimitsOK(f)
    BY <2>1, <2>2, <2>3, <2>6, Zenon DEF Good, AccountOK, SessionsOK, LimitsOK
  <2>9. Good(f)
    BY <2>1, <2>6, <2>7, <2>8, RenewedGood, Zenon DEF Renewed
  <2>10. CancelEmailChange(d, c, secret) = f
    BY <1>1, Zenon DEF CancelEmailChange, f, e
  <2> QED
    BY <2>9, <2>10
<1>2. CASE ~Confirms(d, c, "cancel_email", secret)
  <2>1. CancelEmailChange(d, c, secret) = d
    BY <1>2, Zenon DEF CancelEmailChange
  <2> QED
    BY <2>1
<1> QED
  BY <1>1, <1>2

\* Service.ChangePassword.
LEMMA ChangePasswordGood ==
    ASSUME NEW d, NEW s \in DOMAIN d.sessions, NEW old, NEW new \in Passwords, Good(d), Apart(d),
           clock \in Nat
    PROVE  Good(ChangePassword(d, s, old, new))
<1> DEFINE r == VerifyPassword(d, old)
           g == RevokeSessions([NextGen(Increment(r.db)) EXCEPT !.account.password = new])
<1>1. r.ok \in BOOLEAN /\ SameRest(d, r.db)
  BY VerifyKeeps
<1>2. ChangePassword(d, s, old, new) = IF ~Owns(d, s) THEN d ELSE IF ~r.ok THEN r.db ELSE g
  BY Zenon DEF ChangePassword
<1> HIDE DEF r
<1>3. Good(r.db)
  BY <1>1, SameRestGood
<1>4. r.db.account # NoAccount
  BY <1>1, AccountExists DEF SameRest
<1>5. Good(g)
  BY <1>3, <1>4, Numbers, CredentialsGood, Zenon
<1> HIDE DEF g
<1> QED
  BY <1>2, <1>3, <1>5, Zenon

\* Service.StartEmailChange: increment outdates the links before, and the two new ones are
\* later than they are.
LEMMA StartEmailGood ==
    ASSUME NEW d, NEW s \in DOMAIN d.sessions, NEW e \in Emails, NEW p,
           NEW l \in Latest(d, "change_email"), Good(d), Apart(d), clock \in Nat
    PROVE  Good(StartEmailChange(d, s, e, p, l))
<1> DEFINE r == VerifyPassword(d, p)
           i == Increment(r.db)
           confirm == NewChallenge(i, "change_email", e, LinkTTL, FALSE)
           cancel == NewChallenge(i, "cancel_email", d.account.email, LinkTTL, FALSE)
           no == ~r.ok \/ e = d.account.email \/ ~d.account.verified \/ RecentlySent(d, l)
           one == SendLink(i, confirm)
           two == SendLink(one, cancel)
<1>1. SameRest(d, r.db)
  BY VerifyKeeps
<1>2. StartEmailChange(d, s, e, p, l) = IF ~Owns(d, s) THEN d ELSE IF no THEN r.db ELSE two
  BY Zenon DEF StartEmailChange
<1> HIDE DEF r
<1>3. Good(r.db) /\ Apart(r.db)
  BY <1>1, SameRestGood
<1>4. /\ d.account # NoAccount /\ d \in Dbs /\ d.account.email \in Emails
      /\ r.db.account = d.account /\ r.db.chal = d.chal
  BY <1>1, AccountExists DEF SameRest
<1>5. ASSUME ~no PROVE Good(two)
  <2>1. ~RecentlySent(d, l)
    BY <1>5
  <2>2. "change_email" \in Purposes /\ "change_email" \in Links
        /\ "cancel_email" \in Purposes /\ "cancel_email" \in Links
    BY DEF Purposes, Links
  <2>3. \A k \in DOMAIN d.chal : d.chal[k].purpose = "change_email" => d.chal[k].sent < clock
    BY <2>1, <2>2, SentBefore
  <2>4. \A k \in DOMAIN d.chal : d.chal[k].purpose = "cancel_email" => d.chal[k].sent < clock
    BY <2>3, Zenon DEF Good, LinksOK
  <2>5. /\ Good(i) /\ \A c \in DOMAIN d.chal : ~Live(i, c)
        /\ i \in Dbs /\ i.chal = d.chal
    BY <1>3, <1>4, IncrementGood, Zenon
  <2>6. i.account # NoAccount
    <3>1. i.account = [d.account EXCEPT !.rev = d.account.rev + 1]
      BY <1>3, <1>4, IncrementGood
    <3>2. d.account \in Accounts
      BY <1>4 DEF Dbs
    <3>3. i.account.email = d.account.email
      BY <3>1, <3>2 DEF Accounts
    <3> QED
      BY <1>4, <3>3, Numbers DEF NoAccount
  <2> HIDE DEF i, no
  <2>15. LinkTTL \in Nat /\ FALSE \in BOOLEAN
    BY Numbers
  <2>16. i \in Dbs /\ d.account.email \in Emails /\ "cancel_email" \in Purposes
    BY <1>4, <2>2, <2>5
  <2>7. Fresh(i, confirm) /\ confirm.purpose = "change_email"
    BY <2>2, <2>5, <2>15, NewFresh, Zenon
  <2>8. Fresh(i, cancel) /\ cancel.purpose = "cancel_email"
    BY <2>15, <2>16, NewFresh, Zenon
  <2> HIDE DEF confirm, cancel
  <2>9. \A k \in DOMAIN i.chal :
            i.chal[k].purpose = confirm.purpose => ~Live(i, k) /\ i.chal[k].sent < clock
    BY <2>3, <2>5, <2>7
  <2>10. /\ Good(one) /\ one.account = i.account /\ one.gen = i.gen /\ one.cancels = i.cancels
         /\ DOMAIN one.chal = DOMAIN i.chal \cup {Len(i.chal) + 1}
         /\ \A k \in DOMAIN i.chal : one.chal[k] = i.chal[k]
         /\ one.chal[Len(i.chal) + 1].purpose = "change_email"
         /\ one.chal[Len(i.chal) + 1].sent = clock
    BY <2>2, <2>5, <2>6, <2>7, <2>9, SendGood, Zenon
  <2> HIDE DEF one
  <2>11. Fresh(one, cancel)
    BY <2>8, <2>10, Zenon DEF Fresh
  <2>12. ASSUME NEW k \in DOMAIN one.chal, one.chal[k].purpose = "cancel_email"
         PROVE  ~Live(one, k) /\ one.chal[k].sent < clock
    <3>1. k \in DOMAIN i.chal /\ one.chal[k] = i.chal[k]
      BY <2>10, <2>12
    <3>2. ~Live(i, k)
      BY <2>5, <3>1
    <3>3. ~Live(one, k)
      BY <2>10, <3>1, <3>2, Zenon DEF Live, CheckChallenge
    <3> QED
      BY <2>4, <2>5, <2>12, <3>1, <3>3, Zenon
  <2>13. \E k \in DOMAIN one.chal : one.chal[k].purpose = "change_email" /\ one.chal[k].sent = clock
    BY <2>10
  <2>14. one.account # NoAccount /\ cancel.purpose \in Links
    BY <2>2, <2>6, <2>8, <2>10, Zenon
  <2> QED
    BY <2>8, <2>10, <2>11, <2>12, <2>13, <2>14, SendGood, Zenon
<1> HIDE DEF no, two
<1> QED
  BY <1>2, <1>3, <1>5, Zenon

\* The challenge of a switch of the login code.
LEMMA Toggles ==
    ASSUME NEW on \in BOOLEAN
    PROVE  TogglePurpose(on) \in CodePurposes /\ TogglePurpose(on) \in Purposes
BY DEF TogglePurpose, CodePurposes, Purposes

\* Service.StartCodeChange.
LEMMA StartCodeGood ==
    ASSUME NEW d, NEW s \in DOMAIN d.sessions, NEW p, NEW on \in BOOLEAN,
           NEW l \in Latest(d, TogglePurpose(on)), Good(d), Apart(d), clock \in Nat
    PROVE  Good(StartCodeChange(d, s, p, on, l))
<1> DEFINE r == VerifyPassword(d, p)
           q == TogglePurpose(on)
           no == ~r.ok \/ ~d.account.verified \/ d.account.code = on
           live == l # 0 /\ CheckChallenge(d, l, q)
<1>1. SameRest(d, r.db)
  BY VerifyKeeps
<1>2. StartCodeChange(d, s, p, on, l) =
          IF ~Owns(d, s) THEN d
          ELSE IF no THEN r.db
          ELSE IF live THEN IF RecentlySent(d, l) THEN r.db ELSE ReplaceCode(r.db, l).db
          ELSE CreateCode(r.db, q).db
  BY Zenon DEF StartCodeChange
<1> HIDE DEF r, no
<1>3. Good(r.db)
  BY <1>1, SameRestGood
<1>4. q \in CodePurposes
  BY Toggles
<1> HIDE DEF q
<1>5. l \in Latest(d, q)
  BY DEF q
<1>6. d.account # NoAccount
  BY AccountExists
<1>7. /\ (l # 0 /\ Live(d, l)) => Good(ReplaceCode(r.db, l).db)
      /\ ~(l # 0 /\ Live(d, l)) => Good(CreateCode(r.db, q).db)
      /\ l # 0 => d.chal[l].purpose = q
  BY <1>1, <1>4, <1>5, <1>6, AnotherCodeGood, Zenon
<1>8. live <=> (l # 0 /\ Live(d, l))
  BY <1>7, Zenon DEF Live
<1> HIDE DEF live
<1> QED
  BY <1>2, <1>3, <1>7, <1>8, Zenon

\* Service.CompleteCodeChange.
LEMMA CompleteCodeGood ==
    ASSUME NEW d, NEW s \in DOMAIN d.sessions, NEW c \in DOMAIN d.chal, NEW code,
           NEW on \in BOOLEAN, d.chal[c].purpose = TogglePurpose(on), Good(d), Apart(d),
           clock \in Nat
    PROVE  Good(CompleteCodeChange(d, s, c, code, on))
<1> DEFINE q == TogglePurpose(on)
           r == CheckCode(d, c, q, code)
           g == RevokeSessions([NextGen(Increment(Spend(r.db, c))) EXCEPT !.account.code = on])
<1>0. CompleteCodeChange(d, s, c, code, on) = IF ~Owns(d, s) THEN d ELSE IF ~r.ok THEN r.db ELSE g
  BY Zenon DEF CompleteCodeChange
<1>1. q \in CodePurposes /\ d.chal[c].purpose = q
  BY Toggles
<1> HIDE DEF q
<1>2. Good(r.db) /\ r.ok \in BOOLEAN /\ (r.ok => Live(d, c) /\ SameRest(d, r.db))
  BY <1>1, CheckGood, Zenon
<1> HIDE DEF r
<1>3. ASSUME r.ok PROVE Good(g)
  <2>1. Apart(r.db) /\ Live(r.db, c)
    BY <1>2, <1>3, SameRestGood
  <2>2. c \in DOMAIN r.db.chal /\ r.db.account = d.account
    BY <1>2, <1>3 DEF SameRest
  <2>3. Good(Spend(r.db, c)) /\ Edited(r.db, Spend(r.db, c), c)
    BY <1>2, <2>1, <2>2, SpendGood, Zenon
  <2>4. /\ Spend(r.db, c).account = d.account /\ d.account # NoAccount
        /\ d.account.password \in Passwords
    BY <2>2, <2>3, AccountExists, Zenon DEF Edited
  <2> QED
    BY <2>3, <2>4, Numbers, CredentialsGood, Zenon
<1> HIDE DEF g
<1> QED
  BY <1>0, <1>2, <1>3, Zenon

\* Service.RevokeSession and Service.LogoutAll.
LEMMA LogoutGood ==
    ASSUME NEW d, NEW s \in DOMAIN d.sessions, NEW o \in DOMAIN d.sessions, Good(d), clock \in Nat
    PROVE  Good(RevokeSession(d, s, o)) /\ Good(LogoutAll(d, s))
<1>1. d.account # NoAccount
  BY AccountExists
<1>2. Good(RevokeSessions(d)) /\ Good([d EXCEPT !.sessions[o] = Closed])
  BY <1>1, RevokeGood
<1>3. RevokeSession(d, s, o) = d \/ RevokeSession(d, s, o) = [d EXCEPT !.sessions[o] = Closed]
  BY Zenon DEF RevokeSession
<1>4. LogoutAll(d, s) = d \/ LogoutAll(d, s) = RevokeSessions(d)
  BY Zenon DEF LogoutAll
<1> QED
  BY <1>2, <1>3, <1>4

----------------------------------------------------------------------------
(* The steps *)

\* Links of one purpose are never mailed in the same second.
LEMMA LinksNeverTie ==
    ASSUME NEW d, Good(d)
    PROVE  Tied(d) \cap Links = {} /\ Tied(d) \subseteq Purposes
<1>1. Tied(d) \subseteq Purposes
  BY DEF Tied
<1>2. Tied(d) \cap Links = {}
  BY DEF Good, LinksOK, Tied
<1> QED
  BY <1>1, <1>2

\* What Tx notes at the end of a transaction makes the times of the mails comparable again.
LEMMA TxKeeps ==
    ASSUME Inv, NEW d, Good(d), Tx(d)
    PROVE  Inv'
<1> DEFINE t == d.tied \cup Tied(d)
           e == [d EXCEPT !.tied = t]
<1>1. d \in Dbs /\ db' = e /\ clock' = clock
  BY DEF Tx, Good
<1>2. Tied(d) \cap Links = {} /\ Tied(d) \subseteq Purposes
  BY LinksNeverTie
<1>3. t \in SUBSET Purposes /\ t \cap Links = {} /\ d.tied \subseteq t
  BY <1>1, <1>2 DEF Dbs, Good, LinksOK
<1>4. Tied(d) \subseteq t
  OBVIOUS
<1> HIDE DEF t
<1>5. /\ e \in Dbs /\ e.account = d.account /\ e.chal = d.chal /\ e.sessions = d.sessions
      /\ e.limits = d.limits /\ e.gen = d.gen /\ e.cancels = d.cancels /\ e.tied = t
  BY <1>1, <1>3 DEF Dbs
<1> HIDE DEF e
<1>6. ChalsOK(e) /\ AccountOK(e) /\ SessionsOK(e) /\ LimitsOK(e) /\ LinksOK(e)
  <2>1. ChalsOK(e)
    BY <1>5, Zenon DEF Good, ChalsOK
  <2>2. AccountOK(e)
    BY <1>5, Zenon DEF Good, AccountOK
  <2>3. SessionsOK(e)
    BY <1>5, Zenon DEF Good, SessionsOK
  <2>4. LimitsOK(e)
    BY <1>5, Zenon DEF Good, LimitsOK
  <2>5. LinksOK(e)
    BY <1>3, <1>5 DEF Good, LinksOK
  <2> QED
    BY <2>1, <2>2, <2>3, <2>4, <2>5
<1>7. \A c : Live(e, c) <=> Live(d, c)
  BY <1>5, Zenon DEF Live, CheckChallenge
<1>8. OrderOK(e)
  BY <1>3, <1>5, <1>7, Zenon DEF Good, OrderOK
<1>9. Good(e) /\ Apart(e)
  <2>1. Good(e)
    BY <1>5, <1>6, <1>8, Zenon DEF Good
  <2>2. Tied(e) = Tied(d)
    BY <1>5 DEF Tied
  <2> QED
    BY <1>4, <1>5, <2>1, <2>2, Zenon DEF Apart
<1>10. Good(db)' /\ Apart(db)'
  <2>1. \A k : Live(db, k)' <=> Live(e, k)
    BY <1>1, Zenon DEF Live, CheckChallenge
  <2>2. OrderOK(db)'
    BY <1>1, <1>9, <2>1, Zenon DEF Good, OrderOK
  <2>3. ChalsOK(db)'
    BY <1>1, <1>9, Zenon DEF Good, ChalsOK, ChalOK
  <2>4. AccountOK(db)' /\ SessionsOK(db)' /\ LimitsOK(db)' /\ LinksOK(db)' /\ (db \in Dbs)'
    <3>1. AccountOK(db)'
      BY <1>1, <1>6, Zenon DEF AccountOK
    <3>2. SessionsOK(db)'
      BY <1>1, <1>6, Zenon DEF SessionsOK
    <3>3. LimitsOK(db)'
      BY <1>1, <1>6, Zenon DEF LimitsOK
    <3>4. LinksOK(db)'
      BY <1>1, <1>6, Zenon DEF LinksOK
    <3>5. (db \in Dbs)'
      BY <1>1, <1>5, Zenon
    <3> QED
      BY <3>1, <3>2, <3>3, <3>4, <3>5
  <2>5. Apart(db)'
    BY <1>1, <1>9 DEF Apart, Tied
  <2> QED
    BY <2>2, <2>3, <2>4, <2>5, Zenon DEF Good
<1> QED
  BY <1>1, <1>10 DEF Inv

\* No account, no challenge, no session.
LEMMA InitKeeps == Init => Inv
<1> SUFFICES ASSUME Init PROVE Inv
  OBVIOUS
<1>1. NoAccount \in Accounts
  BY DEF NoAccount, Accounts
<1>2. DOMAIN <<>> = {}
  OBVIOUS
<1>3. <<>> \in Limits
  <2>1. <<>> \in [{} -> [n : Nat, exp : Nat]]
    BY <1>2
  <2>2. {} \in SUBSET Buckets
    OBVIOUS
  <2> QED
    BY <2>1, <2>2 DEF Limits
<1>4. /\ db.account = NoAccount /\ db.chal = <<>> /\ db.sessions = <<>> /\ db.limits = <<>>
      /\ db.tied = {} /\ clock = 0
  BY DEF Init
<1>5. db \in Dbs
  BY <1>1, <1>3 DEF Init, Dbs
<1>6. Good(db) /\ Apart(db)
  BY <1>2, <1>4, <1>5, Zenon DEF Good, ChalsOK, AccountOK, SessionsOK, LimitsOK, OrderOK, LinksOK,
                          Apart, Tied
<1> QED
  BY <1>4, <1>6, Numbers DEF Inv

\* Time outdates challenges and never revives one; ClaimMail only deletes counters.
LEMMA TickKeeps ==
    ASSUME Inv, Tick
    PROVE  Inv'
<1> DEFINE B == {b \in DOMAIN db.limits : db.limits[b].exp > clock'}
           L == [b \in B |-> db.limits[b]]
           e == [db EXCEPT !.limits = L]
<1>1. db \in Dbs /\ Good(db) /\ clock \in Nat /\ clock < MaxTime /\ clock' = clock + 1
  BY Numbers DEF Inv, Good, Tick
<1>2. db' = e
  BY DEF Tick, Restrict
<1>3. DOMAIN L = B /\ B \subseteq DOMAIN db.limits /\ \A b \in B : L[b] = db.limits[b]
  OBVIOUS
<1>4. L \in Limits
  <2>1. PICK S \in SUBSET Buckets : db.limits \in [S -> [n : Nat, exp : Nat]]
    BY <1>1 DEF Dbs, Limits
  <2>2. B \in SUBSET Buckets /\ L \in [B -> [n : Nat, exp : Nat]]
    BY <2>1
  <2> HIDE DEF L, B
  <2> QED
    BY <2>2 DEF Limits
<1> HIDE DEF L, B
<1>5. /\ e \in Dbs /\ e.account = db.account /\ e.chal = db.chal /\ e.sessions = db.sessions
      /\ e.limits = L /\ e.gen = db.gen /\ e.cancels = db.cancels /\ e.tied = db.tied
  BY <1>1, <1>4, Zenon DEF Dbs
<1>6. LimitsOK(e)
  BY <1>1, <1>3, <1>5 DEF Good, LimitsOK
<1>7. SameRest(db, e)
  BY <1>5, <1>6 DEF SameRest
<1> HIDE DEF e
<1>8. Good(e) /\ Apart(e)
  BY <1>1, <1>7, SameRestGood DEF Inv
<1>9. \A c \in DOMAIN e.chal : e.chal[c] \in Chals
  BY <1>5 DEF Dbs
<1>10. ChalsOK(db)'
  <2> SUFFICES ASSUME NEW c \in DOMAIN db'.chal
               PROVE  ChalOK(db.chal[c], db.account.rev, db.gen + db.cancels)'
    BY DEF ChalsOK
  <2>1. c \in DOMAIN e.chal /\ ChalOK(e.chal[c], e.account.rev, e.gen + e.cancels)
    BY <1>2, <1>8 DEF Good, ChalsOK
  <2>2. e.chal[c].sent \in Nat
    BY <1>9, <2>1, Zenon DEF Chals
  <2>3. e.chal[c].sent <= clock'
    BY <1>1, <2>1, <2>2 DEF ChalOK
  <2> QED
    BY <1>2, <2>1, <2>3, Zenon DEF ChalOK
<1>11. OrderOK(db)'
  <2>1. ASSUME NEW c \in DOMAIN e.chal, Live(db, c)' PROVE Live(e, c)
    <3>1. e.chal[c].exp \in Nat
      BY <1>9 DEF Chals
    <3>2. clock' < e.chal[c].exp /\ e.chal[c].rev = e.account.rev /\ ~e.chal[c].used
      BY <1>2, <2>1 DEF Live, CheckChallenge
    <3>3. clock < e.chal[c].exp
      BY <1>1, <3>1, <3>2
    <3> QED
      BY <3>2, <3>3 DEF Live, CheckChallenge
  <2> QED
    BY <1>2, <1>8, <2>1, Zenon DEF Good, OrderOK
<1>12. Good(db)' /\ Apart(db)'
  <2>1. AccountOK(db)' /\ SessionsOK(db)' /\ LimitsOK(db)' /\ LinksOK(db)' /\ (db \in Dbs)'
    <3>1. AccountOK(db)'
      BY <1>2, <1>5, <1>8 DEF Good, AccountOK
    <3>2. SessionsOK(db)'
      BY <1>2, <1>5, <1>8 DEF Good, SessionsOK
    <3>3. LimitsOK(db)'
      BY <1>2, <1>5, <1>8 DEF Good, LimitsOK
    <3>4. LinksOK(db)'
      BY <1>2, <1>5, <1>8 DEF Good, LinksOK
    <3>5. (db \in Dbs)'
      BY <1>2, <1>5, <1>8 DEF Good
    <3> QED
      BY <3>1, <3>2, <3>3, <3>4, <3>5
  <2>2. Apart(db)'
    BY <1>2, <1>5, <1>8 DEF Apart, Tied
  <2> QED
    BY <1>10, <1>11, <2>1, <2>2, Zenon DEF Good
<1>13. clock' \in 0..MaxTime
  BY <1>1, Numbers
<1> QED
  BY <1>12, <1>13 DEF Inv

\* Every operation of the service, and time, keep the invariant.
LEMMA StepKeeps == Inv /\ [Next]_vars => Inv'
<1> SUFFICES ASSUME Inv, [Next]_vars PROVE Inv'
  OBVIOUS
<1>0. Good(db) /\ Apart(db) /\ clock \in Nat
  BY Numbers DEF Inv
<1>1. CASE Tick
  BY <1>1, TickKeeps
<1>2. CASE RegisterTx
  BY <1>0, <1>2, RegisterGood, TxKeeps DEF RegisterTx
<1>3. CASE LoginTx
  <2> DEFINE email == IF Exists(db) THEN db.account.email ELSE FirstEmail
  <2>1. email \in Emails
    BY <1>0, AccountExists, Numbers, Zenon DEF Exists
  <2>2. PICK p \in Entered, a \in BOOLEAN, l \in Latest(db, "login") :
            Tx(Login(db, email, p, a, l))
    BY <1>3 DEF LoginTx
  <2> HIDE DEF email
  <2>3. Good(Login(db, email, p, a, l))
    BY <1>0, <2>1, LoginGood
  <2> QED
    BY <2>2, <2>3, TxKeeps
<1>4. CASE CompleteLoginTx
  <2>1. PICK c \in Of("login") : \E k \in Sent(c) : Tx(CompleteLogin(db, c, k))
    BY <1>4 DEF CompleteLoginTx
  <2>2. PICK k \in Sent(c) : Tx(CompleteLogin(db, c, k))
    BY <2>1
  <2>3. c \in DOMAIN db.chal /\ db.chal[c].purpose = "login"
    BY DEF Of, Challenges
  <2>4. Good(CompleteLogin(db, c, k))
    BY <1>0, <2>3, CompleteLoginGood
  <2> QED
    BY <2>2, <2>4, TxKeeps
<1>5. CASE ResendCodeTx
  <2>1. PICK c \in Of("login") : Tx(ResendCode(db, c))
    BY <1>5 DEF ResendCodeTx
  <2>2. c \in DOMAIN db.chal /\ db.chal[c].purpose = "login"
    BY DEF Of, Challenges
  <2>3. Good(ResendCode(db, c))
    BY <1>0, <2>2, ResendGood
  <2> QED
    BY <2>1, <2>3, TxKeeps
<1>6. CASE RequestTokenTx
  <2>1. PICK p \in {"verify", "reset"} : \E l \in Latest(db, p) : Tx(RequestToken(db, p, l))
    BY <1>6 DEF RequestTokenTx
  <2>2. PICK l \in Latest(db, p) : Tx(RequestToken(db, p, l))
    BY <2>1
  <2>3. Good(RequestToken(db, p, l))
    BY <1>0, RequestGood
  <2> QED
    BY <2>2, <2>3, TxKeeps
<1>7. CASE ConfirmRegistrationTx
  <2>1. PICK c \in Of("verify"), b \in BOOLEAN : \E k \in Sent(c) :
            Tx(ConfirmRegistration(db, c, k, b))
    BY <1>7 DEF ConfirmRegistrationTx
  <2>2. PICK k \in Sent(c) : Tx(ConfirmRegistration(db, c, k, b))
    BY <2>1
  <2>3. c \in DOMAIN db.chal
    BY DEF Of, Challenges
  <2>4. Good(ConfirmRegistration(db, c, k, b))
    BY <1>0, <2>3, ConfirmRegistrationGood
  <2> QED
    BY <2>2, <2>4, TxKeeps
<1>8. CASE ResetPasswordTx
  <2>1. PICK c \in Of("reset"), p \in Passwords : \E k \in Sent(c) : Tx(ResetPassword(db, c, k, p))
    BY <1>8 DEF ResetPasswordTx
  <2>2. PICK k \in Sent(c) : Tx(ResetPassword(db, c, k, p))
    BY <2>1
  <2>3. c \in DOMAIN db.chal
    BY DEF Of, Challenges
  <2>4. Good(ResetPassword(db, c, k, p))
    BY <1>0, <2>3, ResetPasswordGood
  <2> QED
    BY <2>2, <2>4, TxKeeps
<1>9. CASE ConfirmEmailChangeTx
  <2>1. PICK c \in Of("change_email") : \E k \in Sent(c) : Tx(ConfirmEmailChange(db, c, k))
    BY <1>9 DEF ConfirmEmailChangeTx
  <2>2. PICK k \in Sent(c) : Tx(ConfirmEmailChange(db, c, k))
    BY <2>1
  <2>3. c \in DOMAIN db.chal
    BY DEF Of, Challenges
  <2>4. Good(ConfirmEmailChange(db, c, k))
    BY <1>0, <2>3, ConfirmEmailGood
  <2> QED
    BY <2>2, <2>4, TxKeeps
<1>10. CASE CancelEmailChangeTx
  <2>1. PICK c \in Of("cancel_email") : \E k \in Sent(c) : Tx(CancelEmailChange(db, c, k))
    BY <1>10 DEF CancelEmailChangeTx
  <2>2. PICK k \in Sent(c) : Tx(CancelEmailChange(db, c, k))
    BY <2>1
  <2>3. c \in DOMAIN db.chal
    BY DEF Of, Challenges
  <2>4. Good(CancelEmailChange(db, c, k))
    BY <1>0, <2>3, CancelEmailGood
  <2> QED
    BY <2>2, <2>4, TxKeeps
<1>11. CASE ChangePasswordTx
  <2>1. PICK s \in Sessions, p \in Entered, q \in Passwords : Tx(ChangePassword(db, s, p, q))
    BY <1>11 DEF ChangePasswordTx
  <2>2. s \in DOMAIN db.sessions
    BY DEF Sessions
  <2>3. Good(ChangePassword(db, s, p, q))
    BY <1>0, <2>2, ChangePasswordGood
  <2> QED
    BY <2>1, <2>3, TxKeeps
<1>12. CASE StartEmailChangeTx
  <2>1. PICK s \in Sessions, e \in Emails, p \in Entered, l \in Latest(db, "change_email") :
            Tx(StartEmailChange(db, s, e, p, l))
    BY <1>12 DEF StartEmailChangeTx
  <2>2. s \in DOMAIN db.sessions
    BY DEF Sessions
  <2>3. Good(StartEmailChange(db, s, e, p, l))
    BY <1>0, <2>2, StartEmailGood
  <2> QED
    BY <2>1, <2>3, TxKeeps
<1>13. CASE StartCodeChangeTx
  <2>1. PICK s \in Sessions, p \in Entered, on \in BOOLEAN :
            \E l \in Latest(db, TogglePurpose(on)) : Tx(StartCodeChange(db, s, p, on, l))
    BY <1>13 DEF StartCodeChangeTx
  <2>2. PICK l \in Latest(db, TogglePurpose(on)) : Tx(StartCodeChange(db, s, p, on, l))
    BY <2>1
  <2>3. s \in DOMAIN db.sessions
    BY DEF Sessions
  <2>4. Good(StartCodeChange(db, s, p, on, l))
    BY <1>0, <2>3, StartCodeGood
  <2> QED
    BY <2>2, <2>4, TxKeeps
<1>14. CASE CompleteCodeChangeTx
  <2>1. PICK s \in Sessions, on \in BOOLEAN : \E c \in Of(TogglePurpose(on)) : \E k \in Sent(c) :
            Tx(CompleteCodeChange(db, s, c, k, on))
    BY <1>14 DEF CompleteCodeChangeTx
  <2>2. PICK c \in Of(TogglePurpose(on)) : \E k \in Sent(c) : Tx(CompleteCodeChange(db, s, c, k, on))
    BY <2>1
  <2>3. PICK k \in Sent(c) : Tx(CompleteCodeChange(db, s, c, k, on))
    BY <2>2
  <2>4. s \in DOMAIN db.sessions /\ c \in DOMAIN db.chal /\ db.chal[c].purpose = TogglePurpose(on)
    BY DEF Of, Challenges, Sessions
  <2>5. Good(CompleteCodeChange(db, s, c, k, on))
    BY <1>0, <2>4, CompleteCodeGood
  <2> QED
    BY <2>3, <2>5, TxKeeps
<1>15. CASE RevokeSessionTx \/ LogoutAllTx
  <2>1. Sessions = DOMAIN db.sessions
    BY DEF Sessions
  <2>2. \A s, o \in Sessions : Good(RevokeSession(db, s, o)) /\ Good(LogoutAll(db, s))
    BY <1>0, <2>1, LogoutGood
  <2> QED
    BY <1>15, <2>2, TxKeeps DEF RevokeSessionTx, LogoutAllTx
<1>16. CASE UNCHANGED vars
  <2>1. db' = db /\ clock' = clock
    BY <1>16 DEF vars
  <2>2. \A k : Live(db, k)' <=> Live(db, k)
    BY <2>1, Zenon DEF Live, CheckChallenge
  <2>3. OrderOK(db)' /\ ChalsOK(db)'
    BY <2>1, <2>2, Zenon DEF Inv, Good, OrderOK, ChalsOK, ChalOK
  <2>4. AccountOK(db)' /\ SessionsOK(db)' /\ LimitsOK(db)' /\ LinksOK(db)' /\ (db \in Dbs)'
    <3>1. AccountOK(db)'
      BY <2>1 DEF Inv, Good, AccountOK
    <3>2. SessionsOK(db)'
      BY <2>1 DEF Inv, Good, SessionsOK
    <3>3. LimitsOK(db)'
      BY <2>1 DEF Inv, Good, LimitsOK
    <3>4. LinksOK(db)'
      BY <2>1 DEF Inv, Good, LinksOK
    <3>5. (db \in Dbs)'
      BY <2>1 DEF Inv, Good
    <3> QED
      BY <3>1, <3>2, <3>3, <3>4, <3>5
  <2>5. Apart(db)'
    BY <2>1 DEF Inv, Apart, Tied
  <2> QED
    BY <2>1, <2>3, <2>4, <2>5 DEF Inv, Good
<1> QED
  BY <1>1, <1>2, <1>3, <1>4, <1>5, <1>6, <1>7, <1>8, <1>9, <1>10, <1>11, <1>12, <1>13, <1>14,
     <1>15, <1>16, Zenon DEF Next

\* The invariant of the account security database holds in every reachable state.
THEOREM InvariantHolds == Spec => []Inv
<1> QED
  BY InitKeeps, StepKeeps, PTL DEF Spec

----------------------------------------------------------------------------
(* The properties *)

\* The database keeps its shape and every counter its limit (replaceCode, checkCode,
\* ReserveBudget), whatever the limits are.
THEOREM SecurityTypeCorrect == Spec => []TypeOK
<1>1. ASSUME Inv PROVE TypeOK
  <2>1. Good(db) /\ db \in Dbs /\ clock \in 0..MaxTime
    BY <1>1 DEF Inv, Good
  <2>2. ASSUME NEW c \in Challenges
        PROVE  /\ db.chal[c].purpose \in Purposes
               /\ db.chal[c].sends \in 1..SendsPerCode
               /\ db.chal[c].tries \in 0..(IF db.chal[c].used THEN TriesPerCode ELSE TriesPerCode - 1)
               /\ db.chal[c].rev <= db.account.rev
    <3>1. c \in DOMAIN db.chal
      BY DEF Challenges
    <3>2. db.chal[c] \in Chals /\ ChalOK(db.chal[c], db.account.rev, db.gen + db.cancels)
      BY <2>1, <3>1, ChalTyped, Zenon DEF Good, ChalsOK
    <3> QED
      BY <3>2, Zenon DEF Chals, ChalOK
  <2> QED
    BY <2>1, <2>2, Zenon DEF TypeOK, Good, AccountOK, LimitsOK
<1> QED
  BY <1>1, InvariantHolds, PTL

\* No session opened under credentials that no longer hold stays open (ResetPassword,
\* ChangePassword, ConfirmEmailChange, CompleteCodeChange with RevokeSessions), however
\* logins and changes interleave.
THEOREM CredentialChangesClose == Spec => []CredentialChangeEndsSessions
<1>1. Inv => CredentialChangeEndsSessions
  BY Zenon DEF Inv, Good, SessionsOK, CredentialChangeEndsSessions, Sessions
<1> QED
  BY <1>1, InvariantHolds, PTL

\* A code or a link is accepted at most once, and never after the credentials changed or
\* the change of email was cancelled (Challenge.Check, increment, UsedAt).
THEOREM SpentOnce == Spec => []SpentOnceInTime
<1>1. Inv => SpentOnceInTime
  BY Zenon DEF Inv, Good, ChalsOK, ChalOK, SpentOnceInTime, Challenges
<1> QED
  BY <1>1, InvariantHolds, PTL

\* At most one challenge of a purpose can be accepted, unless LatestChallenge once had to
\* choose between two of one second; links never bring it there.
THEOREM OneIsLive == Spec => []OneLiveChallenge
<1>1. ASSUME Inv PROVE OneLiveChallenge
  <2>1. Good(db) /\ Apart(db) /\ db \in Dbs
    BY <1>1 DEF Inv, Good
  <2>2. ASSUME NEW p \in Purposes \ db.tied, NEW c \in Challenges, NEW e \in Challenges,
               CheckChallenge(db, c, p), CheckChallenge(db, e, p)
        PROVE  c = e
    <3>1. /\ c \in DOMAIN db.chal /\ e \in DOMAIN db.chal
          /\ db.chal[c].purpose = p /\ db.chal[e].purpose = p
      BY <2>2 DEF Challenges, CheckChallenge
    <3>2. Live(db, c) /\ Live(db, e)
      BY <2>2, <3>1 DEF Live
    <3>3. db.chal[c].sent \in Nat /\ db.chal[e].sent \in Nat
      <4>1. db.chal[c] \in Chals /\ db.chal[e] \in Chals
        BY <2>1, <3>1, ChalTyped, Zenon
      <4> QED
        BY <4>1 DEF Chals
    <3>4. db.chal[e].sent <= db.chal[c].sent /\ db.chal[c].sent <= db.chal[e].sent
      BY <2>1, <2>2, <3>1, <3>2, Zenon DEF Good, OrderOK
    <3>5. db.chal[e].sent = db.chal[c].sent
      BY <3>3, <3>4
    <3>6. p \notin Tied(db)
      BY <2>1, <2>2 DEF Apart
    <3> QED
      BY <2>2, <3>1, <3>5, <3>6 DEF Tied
  <2> QED
    BY <2>1, <2>2, Zenon DEF OneLiveChallenge, Good, LinksOK
<1> QED
  BY <1>1, InvariantHolds, PTL

----------------------------------------------------------------------------
=============================================================================
