---------------------------- MODULE LegacyProofs ----------------------------
(***************************************************************************)
(* What holds of a replay on the demo application for any members, any     *)
(* numbers, any store, any scenario and any timing of the answers.         *)
(***************************************************************************)
EXTENDS LegacyReplay, ReplayProofs

Documents ==
  [page : PageKinds, number : Number \cup {Nothing}, query : Query, rows : Nat,
   dialog : BOOLEAN, ack : Requests \cup {Nothing}]

CoreTypeOK ==
  /\ created \in [Member -> {0, 1}]
  /\ scenarioCookie \in Query
  /\ shell \in Query
  /\ doc \in Documents
  /\ wire \in Requests \cup {Nothing}
  /\ number \in Number
  /\ page = doc.page
  /\ dialog = doc.dialog

\* What a document shows.
DisplayInv ==
  /\ doc.dialog => doc.page = "profile"
  /\ doc.page = "profile" =>
       /\ doc.number \in Member
       /\ doc.ack \in Requests
       /\ doc.ack.route \in {"ack", "profile"}
       /\ pc # "start" => doc.rows = created[doc.number]
  /\ doc.page \in {"form", "rejected"} => doc.number \in Member
  /\ wire # Nothing /\ wire.route \in Answers => wire.number \in Member

\* The store at the number the caller asked for.
StoreInv ==
  /\ HasSubAccount(number) <=> foreign \/ applied > 0
  /\ applied <= 1
  /\ foreign => applied = 0
  /\ pc = "start" => baseline = "unknown" /\ effectState = "not_dispatched"
  /\ baseline = "absent" => ~foreign
  /\ pc \in {"extract", "checkpoint"} => applied > 0 /\ baseline = "absent"
  /\ ~inflight

\* Nobody but the session writes once it has started, and an answer to a write is
\* there only after its dispatch.
AnswerInv ==
  pc # "start" =>
    /\ wire # Nothing => wire.route # "open"
    /\ effectState \in {"not_dispatched", "dispatching"} =>
         /\ doc.page \notin {"rejected", "created", "pending"}
         /\ wire # Nothing => wire.route \notin Answers
    /\ doc.page = "rejected" \/ (wire # Nothing /\ wire.route = "rejected") => applied = 0

OnInquiry == wire = Nothing /\ doc.page = "inquiry"

Coming(route) == wire # Nothing /\ wire.route = route

\* The number was searched for, and what the search shows is on its way or there.
Searched ==
  \/ doc.page = "inquiry" /\ (Coming("search") \/ Coming("profile")) /\ wire.number = number
  \/ wire = Nothing /\ doc.number = number

\* Where the run is on the application.
RunInv ==
  /\ cursor = 1 /\ pc \in Before \cup After /\ pc # "start" =>
       /\ pc # "scope" => OnInquiry
       /\ OnInquiry \/ Coming("shell") \/ (Coming("inquiry") /\ doc.page = "blank")
  /\ cursor = 2 /\ pc \in Before => OnInquiry
  /\ cursor = 2 /\ pc \in After => Searched
  /\ cursor = 3 /\ HasRecipe /\ pc \in After =>
       \/ pc = "rescope" /\ Coming("form")
       \/ wire = Nothing /\ doc.page \in {"form", "not_found"}
  /\ Blocked => cursor >= 3
  /\ pc = "start" => cursor = 1
  /\ pc \in {"baseline_effect", "effect"} => HasRecipe /\ doc.page = "profile"

\* Where the recipe is.
RecipeInv ==
  /\ pc = "navigate" /\ nav \in {2, 3} => OnInquiry
  /\ pc = "navigated" /\ nav = 1 => OnInquiry \/ Coming("inquiry")
  /\ pc = "navigated" /\ nav = 2 => OnInquiry
  /\ pc = "navigated" /\ nav = 3 => Searched
  /\ pc = "navigate" /\ nav = 4 => Searched
  /\ pc \in {"view", "effect"} => Searched

\* What the result of a write claims.
WriteClaims ==
  pc = "idle" /\ Writes =>
    /\ result.status = "Success" => applied = 1
    /\ result.code = "declared" => applied = 0
    /\ result.code = "MUTATION_NOT_COMMITTED" => applied = 0 /\ ~foreign

-----------------------------------------------------------------------------
(* The two capabilities *)

\* What the look-up is, and what the write is.
LEMMA TheCapabilities ==
  ASSUME setup \in Setups
  PROVE  /\ ~HasRecipe =>
              /\ N = 3
              /\ Steps = {1, 2, 3}
              /\ \A i \in Steps : Kind[i] = "read"
              /\ Checked = {2}
              /\ Post[2] = {"profile"}
              /\ Outcome[1] = {} /\ Outcome[2] = {"not_found"} /\ Outcome[3] = {}
              /\ EffectView = {}
              /\ setup.capability = Lookup
         /\ HasRecipe =>
              /\ N = 4
              /\ Steps = {1, 2, 3, 4}
              /\ Kind[1] = "read" /\ Kind[2] = "read" /\ Kind[3] = "read"
              /\ Kind[4] = "verified"
              /\ SoleWrite
              /\ Checked = {2, 3}
              /\ Post[2] = {"profile"} /\ Post[3] = {"form", "rejected"}
              /\ Outcome[1] = {} /\ Outcome[2] = {} /\ Outcome[3] = {}
              /\ Outcome[4] = {"rejected"}
              /\ EffectView = {"profile"}
              /\ NavLen = 3
              /\ setup.capability = Open
<1>1. setup.capability \in {Lookup, Open}
  BY ReplayAssumption DEF Setups
<1>2. CASE setup.capability = Lookup
  BY <1>2 DEF Lookup, HasRecipe, N, Steps, Kind, Checked, Post, Outcome, EffectView
<1>3. CASE setup.capability = Open
  <2>1. /\ N = 4 /\ Steps = {1, 2, 3, 4}
        /\ Kind = << "read", "read", "read", "verified" >>
    BY <1>3 DEF Open, N, Kind, Steps
  <2>2. HasRecipe /\ SoleWrite
    BY <2>1 DEF HasRecipe, SoleWrite
  <2> QED
    BY <1>3, <2>1, <2>2 DEF Open, Checked, Post, Outcome, EffectView, NavLen
<1> QED
  BY <1>1, <1>2, <1>3

-----------------------------------------------------------------------------
(* The session's own invariant *)

\* Whatever a step of the session does to the application, it is one of the steps
\* a replay takes on any application.
LEMMA SessionStep ==
  IInv /\ (StartOnShell \/ Session \/ OperateOnCore) => IInv'
<1>1. StartOnShell => Start
  BY DEF StartOnShell
<1>2. OperateOnCore => TakeControl \/ Perform \/ ResumeAmbiguous \/ ResumeBlocked
  BY DEF OperateOnCore
<1>3. ExecuteOnCore \/ NavigateOnCore \/ CommitOnCore => Execute \/ VerifyNavigate \/ Commit
  BY DEF ExecuteOnCore, NavigateOnCore, CommitOnCore
<1>4. Look => CheckScope \/ CheckDialog \/ RecheckScope \/ Resolve \/ BaselineView
              \/ BaselineEffect \/ FinishScope \/ FinishSuccess \/ Respond \/ VerifyScope
              \/ VerifyDialog \/ VerifyView \/ VerifyEffect \/ VerifyExtract
              \/ VerifySuccess \/ AssessScope \/ PollDialog \/ PollCheckpoint
  BY DEF Look, Reconcile
<1> QED
  BY <1>1, <1>2, <1>3, <1>4,
     StartStep, CheckScopeStep, CheckDialogStep, ExecuteStep, RecheckScopeStep, ResolveStep,
     BaselineViewStep, BaselineEffectStep, FinishScopeStep, FinishSuccessStep, CommitStep,
     RespondStep, VerifyNavigateStep, VerifyScopeStep, VerifyDialogStep, VerifyViewStep,
     VerifyEffectStep, VerifyExtractStep, VerifySuccessStep, AssessScopeStep,
     PollDialogStep, PollCheckpointStep, TakeControlStep, PerformStep, ResumeAmbiguousStep,
     ResumeBlockedStep
  DEF Session

-----------------------------------------------------------------------------
(* The application's steps *)

\* Requests and documents are records, and no request is Nothing.
LEMMA RequestFacts ==
  ASSUME NEW route \in Routes, NEW n \in Number \cup {Nothing}, NEW q \in Query
  PROVE  /\ Request(route, n, q) \in Requests
         /\ Request(route, n, q) # Nothing
         /\ Request(route, n, q).route = route
         /\ Request(route, n, q).number = n
         /\ Request(route, n, q).query = q
  BY CoreAssumption DEF Request, Requests

\* A rendered document is about what it was rendered for.
LEMMA DocumentFacts ==
  ASSUME NEW kind \in PageKinds, NEW n \in Number \cup {Nothing}, NEW q \in Query
  PROVE  /\ Document(kind, n, q) \in Documents
         /\ Document(kind, n, q).page = kind
         /\ Document(kind, n, q).number = n
         /\ Document(kind, n, q).query = q
         /\ ~Document(kind, n, q).dialog
  BY DEF Document, Documents

\* Whatever the query and the cookie, the scenario is one of the twelve.
LEMMA ScenarioFacts ==
  ASSUME NEW q \in Query, NEW c \in Query
  PROVE  /\ ResolveScenario(q, c) \in Scenario
         /\ Suffix(ResolveScenario(q, c)) \in Query
  BY DEF ResolveScenario, Suffix, Query, Scenario

\* What the documents' controls ask for.
LEMMA ControlsFacts ==
  ASSUME CoreTypeOK, DisplayInv, NEW r \in Controls
  PROVE  /\ r \in Requests
         /\ r.route \in {"inquiry", "search", "form", "open", "verify", "verify_wrong", "ack",
                         "profile"}
         /\ r.route = "inquiry" => r.query = shell
         /\ r.route \in {"search", "form"} => r.query = doc.query
         /\ r.route = "search" => doc.page \in {"inquiry", "not_found"}
         /\ r.route = "form" => r.number = doc.number /\ doc.page = "profile"
         /\ r.route = "open" =>
              /\ doc.page \in {"form", "rejected"}
              /\ r = Request("open", doc.number, doc.query)
<1>1. /\ doc.page \in PageKinds /\ doc.number \in Number \cup {Nothing} /\ doc.query \in Query
      /\ shell \in Query
  BY DEF CoreTypeOK, Documents
<1>2. r = Request("inquiry", Nothing, shell)
      \/ (doc.page \in {"inquiry", "not_found"} /\ \E n \in Number : r = Request("search", n, doc.query))
      \/ (doc.page = "profile" /\ r = doc.ack)
      \/ (doc.page = "profile" /\ r = Request("form", doc.number, doc.query))
      \/ (doc.page \in {"form", "rejected"} /\ r = Request("open", doc.number, doc.query))
      \/ (r \in {Request("verify", doc.number, doc.query), Request("verify_wrong", doc.number, doc.query)})
  BY <1>1 DEF Controls, PageKinds
<1>3. CASE r = Request("inquiry", Nothing, shell)
  <2>1. r \in Requests /\ r.route = "inquiry" /\ r.query = shell
    BY <1>1, <1>3, RequestFacts DEF Routes
  <2> QED
    BY <2>1
<1>4. CASE doc.page \in {"inquiry", "not_found"} /\ \E n \in Number : r = Request("search", n, doc.query)
  BY <1>1, <1>4, RequestFacts DEF Routes
<1>5. CASE doc.page = "profile" /\ r = doc.ack
  BY <1>5 DEF DisplayInv
<1>6. CASE doc.page = "profile" /\ r = Request("form", doc.number, doc.query)
  <2>1. r \in Requests /\ r.route = "form" /\ r.number = doc.number /\ r.query = doc.query
    BY <1>1, <1>6, RequestFacts DEF Routes
  <2> QED
    BY <1>6, <2>1
<1>7. CASE doc.page \in {"form", "rejected"} /\ r = Request("open", doc.number, doc.query)
  BY <1>1, <1>7, RequestFacts DEF Routes
<1>8. CASE r \in {Request("verify", doc.number, doc.query), Request("verify_wrong", doc.number, doc.query)}
  BY <1>1, <1>8, RequestFacts DEF Routes
<1> QED
  BY <1>2, <1>3, <1>4, <1>5, <1>6, <1>7, <1>8

\* Which handler answers which request.
LEMMA Handlers ==
  ASSUME Serve, wire \in Requests
  PROVE  /\ wire.route = "shell" => Shell(wire)
         /\ wire.route = "inquiry" => Inquiry(wire)
         /\ wire.route = "search" => SubmitInquiry(wire)
         /\ wire.route = "profile" => MemberProfile(wire)
         /\ wire.route = "ack" => AcknowledgeVerification(wire)
         /\ wire.route = "form" => SubAccountForm(wire)
         /\ wire.route = "open" => OpenSubAccount(wire)
         /\ wire.route \in Answers => DeliverAnswer(wire)
         /\ wire.route \in {"verify", "verify_wrong"} => VerifyMember(wire)
<1>1. wire.route = "shell" => Shell(wire)
  BY DEF Serve, Answers
<1>2. wire.route = "inquiry" => Inquiry(wire)
  BY DEF Serve, Answers
<1>3. wire.route = "search" => SubmitInquiry(wire)
  BY DEF Serve, Answers
<1>4. wire.route = "profile" => MemberProfile(wire)
  BY DEF Serve, Answers
<1>5. wire.route = "ack" => AcknowledgeVerification(wire)
  BY DEF Serve, Answers
<1>6. wire.route = "form" => SubAccountForm(wire)
  BY DEF Serve, Answers
<1>7. wire.route = "open" => OpenSubAccount(wire)
  BY DEF Serve, Answers
<1>8. wire.route \in Answers => DeliverAnswer(wire)
  BY DEF Serve, Answers
<1>9. wire.route \in {"verify", "verify_wrong"} => VerifyMember(wire)
  BY DEF Serve, Answers
<1> QED
  BY <1>1, <1>2, <1>3, <1>4, <1>5, <1>6, <1>7, <1>8, <1>9

\* A redirect that makes the browser ask for the profile of member n.
Forwards(n, s) ==
  /\ doc' = doc
  /\ wire' \in Requests
  /\ wire' # Nothing
  /\ wire'.route = "profile"
  /\ wire'.number = n
  /\ wire'.query = Suffix(s)

\* A document other than a profile, rendered about n.
Renders(kind, n, s) ==
  /\ wire' = Nothing
  /\ doc' \in Documents
  /\ doc'.page = kind
  /\ doc'.number = n
  /\ doc'.query = Suffix(s)
  /\ ~doc'.dialog

\* What member_profile renders.
ShowsProfile(n, s) ==
  /\ wire' = Nothing
  /\ doc' \in Documents
  /\ doc'.page = ProfilePage(n, s)
  /\ doc'.page \in {"expired", "denied", "not_found", "verification", "interrupted", "profile"}
  /\ doc'.number = n
  /\ doc'.query = Suffix(s)
  /\ doc'.dialog <=> doc'.page = "profile" /\ (s = "unexpected_dialog" \/ VerificationDialog(n, s))
  /\ doc'.page = "profile" =>
       /\ n \in Member
       /\ doc'.rows = created[n]
       /\ doc'.ack \in Requests
       /\ doc'.ack.number = n
       /\ doc'.ack.route = IF VerificationDialog(n, s) THEN "ack" ELSE "profile"
       /\ doc'.ack.query = IF VerificationDialog(n, s) THEN Suffix(s) ELSE "normal"

\* A redirect and a plain document, from the handlers' own operators.
LEMMA RendersFacts ==
  ASSUME NEW kind \in PageKinds, NEW n \in Number \cup {Nothing}, NEW s,
         Suffix(s) \in Query, Render(Document(kind, n, Suffix(s)))
  PROVE  Renders(kind, n, s)
  BY DocumentFacts DEF Render, Renders

LEMMA ForwardsFacts ==
  ASSUME NEW n \in Number \cup {Nothing}, NEW s, Suffix(s) \in Query,
         Redirect(Request("profile", n, Suffix(s)))
  PROVE  Forwards(n, s)
  BY RequestFacts DEF Redirect, Forwards, Routes

\* What member_profile shows of a member.
LEMMA ProfileServed ==
  ASSUME CoreTypeOK, wire \in Requests, MemberProfile(wire)
  PROVE  ShowsProfile(wire.number, RequestScenario(wire))
<1> DEFINE s == RequestScenario(wire)
           n == wire.number
           barred == VerificationDialog(n, s)
           plain == Document(ProfilePage(n, s), n, Suffix(s))
           ack == IF barred THEN Request("ack", n, Suffix(s)) ELSE Request("profile", n, "normal")
<1>1. n \in Number \cup {Nothing} /\ Suffix(s) \in Query /\ s \in Scenario
  BY ScenarioFacts DEF CoreTypeOK, Requests, RequestScenario
<1>2. /\ ProfilePage(n, s) \in {"expired", "denied", "not_found", "verification",
                                "interrupted", "profile"}
      /\ ProfilePage(n, s) = "profile" => n \in Member
  BY DEF ProfilePage, Found
<1>3. /\ ack \in Requests
      /\ ack.number = n
      /\ ack.route = IF barred THEN "ack" ELSE "profile"
      /\ ack.query = IF barred THEN Suffix(s) ELSE "normal"
  <2> HIDE DEF n, s, barred
  <2>1. "ack" \in Routes /\ "profile" \in Routes /\ "normal" \in Query
    BY DEF Routes, Query, Scenario
  <2>2. CASE barred
    BY <1>1, <2>1, <2>2, RequestFacts
  <2>3. CASE ~barred
    BY <1>1, <2>1, <2>3, RequestFacts
  <2> QED
    BY <2>2, <2>3
<1>4. plain \in Documents /\ plain.page = ProfilePage(n, s) /\ plain.number = n
      /\ plain.query = Suffix(s) /\ ~plain.dialog
  BY <1>1, <1>2, DocumentFacts DEF PageKinds
<1>5. doc' = IF plain.page # "profile" THEN plain
             ELSE [plain EXCEPT !.rows = created[n],
                                !.dialog = s = "unexpected_dialog" \/ barred,
                                !.ack = ack]
  BY DEF MemberProfile, Render
<1>6. wire' = Nothing
  BY DEF MemberProfile, Render
<1> HIDE DEF plain, ack, barred, s, n
<1>7. CASE plain.page # "profile"
  BY <1>2, <1>4, <1>5, <1>6, <1>7 DEF ShowsProfile, s, n
<1>8. CASE plain.page = "profile"
  <2>1. created[n] \in Nat
    BY <1>2, <1>4, <1>8 DEF CoreTypeOK
  <2>2. doc' = [plain EXCEPT !.rows = created[n],
                             !.dialog = s = "unexpected_dialog" \/ barred,
                             !.ack = ack]
    BY <1>5, <1>8
  <2>3. /\ doc' \in Documents
        /\ doc'.page = "profile" /\ doc'.number = n /\ doc'.query = Suffix(s)
        /\ doc'.rows = created[n]
        /\ doc'.ack = ack
        /\ doc'.dialog = (s = "unexpected_dialog" \/ barred)
    BY <1>3, <1>4, <1>8, <2>1, <2>2 DEF Documents
  <2> QED
    BY <1>2, <1>3, <1>4, <1>6, <1>8, <2>3 DEF ShowsProfile, s, n, barred
<1> QED
  BY <1>7, <1>8

\* What each answer does to the browser, and that none but that of open_sub_account
\* changes the sub-accounts.
ServedAs(n, s) ==
  /\ created' = created
  /\ wire.route # "shell" => scenarioCookie' = scenarioCookie /\ shell' = shell
  /\ wire.route # "ack" => acknowledged' = acknowledged
  /\ wire.route \notin {"verify", "verify_wrong"} => verifiedCookie' = verifiedCookie
  /\ wire.route = "shell" =>
       /\ scenarioCookie' = IF wire.query # Nothing THEN s ELSE scenarioCookie
       /\ shell' = Suffix(s)
       /\ doc' = Document("blank", Nothing, Nothing)
       /\ wire' = Request("inquiry", Nothing, Suffix(s))
  /\ wire.route = "inquiry" => Renders("inquiry", Nothing, s)
  /\ wire.route = "search" => IF Found(n, s) THEN Forwards(n, s) ELSE Renders("not_found", n, s)
  /\ wire.route = "profile" => ShowsProfile(n, s)
  /\ wire.route = "ack" => Forwards(n, s)
  /\ wire.route = "form" => IF n \in Member THEN Renders("form", n, s)
                                            ELSE Renders("not_found", n, s)
  /\ wire.route \in Answers =>
       /\ wire' = Nothing
       /\ doc' \in Documents
       /\ doc'.page = IF wire.route = "held" THEN "pending" ELSE wire.route
       /\ doc'.number = n
       /\ doc'.query = wire.query
       /\ ~doc'.dialog
  /\ wire.route \in {"verify", "verify_wrong"} =>
       Forwards(n, s) \/ Renders("verification", n, s) \/ Renders("not_found", n, s)

LEMMA Served ==
  ASSUME CoreTypeOK, wire # Nothing, wire.route # "open", Serve
  PROVE  ServedAs(wire.number, RequestScenario(wire))
<1> DEFINE n == wire.number
           s == RequestScenario(wire)
<1>1. wire \in Requests
  BY DEF CoreTypeOK
<1>2. /\ n \in Number \cup {Nothing} /\ wire.query \in Query /\ wire.route \in Routes
      /\ Suffix(s) \in Query
  BY <1>1, ScenarioFacts DEF CoreTypeOK, Requests, RequestScenario
<1>3. wire.route \in {"shell", "inquiry", "search", "profile", "ack", "form", "verify",
                      "verify_wrong"} \cup Answers
  BY <1>2 DEF Routes
<1> USE DEF store
<1>4. CASE wire.route = "shell"
  BY <1>1, <1>4, Handlers DEF Shell, ServedAs, Answers
<1>5. CASE wire.route = "inquiry"
  <2>1. Inquiry(wire)
    BY <1>1, <1>5, Handlers
  <2>2. Renders("inquiry", Nothing, s)
    BY <1>2, <2>1, RendersFacts DEF Inquiry, PageKinds
  <2> QED
    BY <1>5, <2>1, <2>2 DEF Inquiry, Render, ServedAs, Answers
<1>6. CASE wire.route = "search"
  <2>1. SubmitInquiry(wire)
    BY <1>1, <1>6, Handlers
  <2>2. IF Found(n, s) THEN Forwards(n, s) ELSE Renders("not_found", n, s)
    BY <1>2, <2>1, RendersFacts, ForwardsFacts DEF SubmitInquiry, NotFoundPage, PageKinds
  <2> QED
    BY <1>6, <2>1, <2>2 DEF SubmitInquiry, NotFoundPage, Render, Redirect, ServedAs, Answers
<1>7. CASE wire.route = "profile"
  <2>1. MemberProfile(wire)
    BY <1>1, <1>7, Handlers
  <2>2. ShowsProfile(n, s)
    BY <1>1, <2>1, ProfileServed
  <2> QED
    BY <1>7, <2>1, <2>2 DEF MemberProfile, Render, ServedAs, Answers
<1>8. CASE wire.route = "ack"
  <2>1. AcknowledgeVerification(wire)
    BY <1>1, <1>8, Handlers
  <2>2. Forwards(n, s)
    BY <1>2, <2>1, ForwardsFacts DEF AcknowledgeVerification
  <2> QED
    BY <1>8, <2>1, <2>2 DEF AcknowledgeVerification, Redirect, ServedAs, Answers
<1>9. CASE wire.route = "form"
  <2>1. SubAccountForm(wire)
    BY <1>1, <1>9, Handlers
  <2>2. IF n \in Member THEN Renders("form", n, s) ELSE Renders("not_found", n, s)
    BY <1>2, <2>1, RendersFacts DEF SubAccountForm, NotFoundPage, PageKinds
  <2> QED
    BY <1>9, <2>1, <2>2 DEF SubAccountForm, NotFoundPage, Render, ServedAs, Answers
<1>10. CASE wire.route \in Answers
  <2>1. DeliverAnswer(wire)
    BY <1>1, <1>10, Handlers
  <2> DEFINE kind == IF wire.route = "held" THEN "pending" ELSE wire.route
  <2>2. kind \in PageKinds /\ doc' = Document(kind, n, wire.query) /\ wire' = Nothing
    BY <1>10, <2>1 DEF Answers, PageKinds, DeliverAnswer, Render
  <2>3. /\ doc' \in Documents
        /\ doc'.page = kind
        /\ doc'.number = n
        /\ doc'.query = wire.query
        /\ ~doc'.dialog
    <3> HIDE DEF kind, n
    <3> QED
      BY <1>2, <2>2, DocumentFacts DEF n
  <2> QED
    BY <1>10, <2>1, <2>2, <2>3 DEF DeliverAnswer, Render, ServedAs, Answers
<1>11. CASE wire.route \in {"verify", "verify_wrong"}
  <2>1. VerifyMember(wire)
    BY <1>1, <1>11, Handlers
  <2>2. Forwards(n, s) \/ Renders("verification", n, s) \/ Renders("not_found", n, s)
    BY <1>2, <2>1, RendersFacts, ForwardsFacts DEF VerifyMember, NotFoundPage, PageKinds
  <2> QED
    BY <1>11, <2>1, <2>2 DEF VerifyMember, NotFoundPage, Render, Redirect, ServedAs, Answers
<1> QED
  BY <1>3, <1>4, <1>5, <1>6, <1>7, <1>8, <1>9, <1>10, <1>11

-----------------------------------------------------------------------------
(* The application's invariants *)

\* A click that asks for no write, or nothing at all; the application itself rests.
Calm ==
  /\ UNCHANGED << number, applied, foreign, inflight, setup >>
  /\ Displays
  /\ \/ UNCHANGED core
     \/ \E r \in Controls : r.route # "open" /\ Click(r)

\* A step other than the consequential one asks for a search, a form or nothing.
LEMMA ExecuteAsks ==
  ASSUME IInv, pc = "execute"
  PROVE  setup.capability.click[cursor] \in {None, "search", "form"}
<1>1. setup \in Setups /\ cursor \in Steps /\ Kind[cursor] # "verified"
  BY DEF IInv, TypeOK, PlaceInv
<1>2. CASE HasRecipe
  <2>1. cursor \in {1, 2, 3}
    BY <1>1, <1>2, TheCapabilities
  <2> QED
    BY <1>1, <1>2, <2>1, TheCapabilities DEF Open
<1>3. CASE ~HasRecipe
  BY <1>1, <1>3, TheCapabilities DEF Lookup
<1> QED
  BY <1>2, <1>3

\* Every step of a run but the consequential one is calm.
LEMMA CalmSteps ==
  ASSUME IInv, Look \/ ExecuteOnCore \/ NavigateOnCore \/ OperateOnCore
  PROVE  Calm
<1>1. setup \in Setups
  BY DEF IInv, TypeOK
<1>2. \A route : route # "open" /\ Makes(route) =>
        UNCHANGED core \/ \E r \in Controls : r.route # "open" /\ Click(r)
  BY DEF Makes
<1>3. CASE Look
  <2>1. UNCHANGED application
    <3>1. CheckScope \/ CheckDialog \/ RecheckScope \/ Resolve => UNCHANGED application
      BY DEF CheckScope, CheckDialog, RecheckScope, Resolve
    <3>2. BaselineView \/ BaselineEffect \/ FinishScope \/ FinishSuccess => UNCHANGED application
      BY DEF BaselineView, BaselineEffect, FinishScope, FinishSuccess
    <3>3. Respond \/ VerifyScope \/ VerifyDialog \/ VerifyView => UNCHANGED application
      BY DEF Respond, VerifyScope, VerifyDialog, VerifyView
    <3>4. VerifyEffect \/ VerifyExtract \/ VerifySuccess => UNCHANGED application
      BY DEF VerifyEffect, VerifyExtract, VerifySuccess
    <3>5. Reconcile => UNCHANGED application
      BY DEF Reconcile, AssessScope, PollDialog, PollCheckpoint
    <3> QED
      BY <1>3, <3>1, <3>2, <3>3, <3>4, <3>5 DEF Look
  <2> QED
    BY <1>3, <2>1 DEF Look, Calm, application
<1>4. CASE ExecuteOnCore
  <2>1. setup.capability.click[cursor] \in {None, "search", "form"}
    BY <1>4, ExecuteAsks DEF ExecuteOnCore
  <2>2. setup.capability.click[cursor] # "open"
    BY <2>1, ReplayAssumption DEF Routes
  <2> QED
    BY <1>2, <1>4, <2>2 DEF ExecuteOnCore, Execute, Calm
<1>5. CASE NavigateOnCore
  <2>1. cursor \in Steps /\ Kind[cursor] = "verified" /\ nav \in 1 .. 3
    BY <1>1, <1>5, TheCapabilities DEF IInv, PlaceInv, TypeOK, NavigateOnCore, Checking
  <2>2. setup.capability.navClick[nav] # "open"
    BY <1>1, <2>1, TheCapabilities, ReplayAssumption DEF Open, Routes
  <2> QED
    BY <1>2, <1>5, <2>2 DEF NavigateOnCore, VerifyNavigate, Calm
<1>6. CASE OperateOnCore
  <2>1. CASE UNCHANGED core /\ Displays /\ (TakeControl \/ ResumeAmbiguous \/ ResumeBlocked)
    <3>1. UNCHANGED application
      BY <2>1 DEF TakeControl, ResumeAmbiguous, ResumeBlocked
    <3> QED
      BY <1>6, <2>1, <3>1 DEF OperateOnCore, Calm, application
  <2>2. CASE (\E r \in Controls : r.route # "open" /\ Click(r)) /\ Displays /\ Perform
    BY <1>6, <2>2 DEF OperateOnCore, Calm, Perform
  <2> QED
    BY <1>6, <2>1, <2>2 DEF OperateOnCore
<1> QED
  BY <1>3, <1>4, <1>5, <1>6

USE DEF application, locals, coroutine, pause, effect, session, history, lease
USE DEF store, cookies, core

\* What open_sub_account does for a member on record.
LEMMA Opened ==
  ASSUME CoreTypeOK, NEW r \in Requests, r.number \in Member, OpenSubAccount(r)
  PROVE  /\ created' \in [Member -> {0, 1}]
         /\ \A m \in Member : m # r.number => created'[m] = created[m]
         /\ created[r.number] = 1 => created'[r.number] = 1
         /\ created[r.number] = 0 =>
              created'[r.number] = IF RequestScenario(r) = "commit_dropped" THEN 0 ELSE 1
         /\ wire' \in Requests
         /\ wire' # Nothing
         /\ wire'.route \in Answers
         /\ wire'.route = "rejected" <=> created[r.number] = 1
         /\ wire'.route = OpenAnswer(r.number, RequestScenario(r))
         /\ wire'.number = r.number
         /\ wire'.query = Suffix(RequestScenario(r))
         /\ UNCHANGED << acknowledged, scenarioCookie, verifiedCookie, shell, doc >>
<1> DEFINE s == RequestScenario(r)
<1>1. Suffix(s) \in Query /\ r.number \in Number \cup {Nothing}
  BY ScenarioFacts DEF CoreTypeOK, Requests, RequestScenario
<1>2. created[r.number] \in {0, 1}
  BY DEF CoreTypeOK
<1>3. HasSubAccount(r.number) <=> created[r.number] = 1
  BY <1>2 DEF HasSubAccount
<1>4. /\ created' = IF Commits(r.number, s) THEN [created EXCEPT ![r.number] = created[r.number] + 1]
                                           ELSE created
      /\ wire' = Request(OpenAnswer(r.number, s), r.number, Suffix(s))
      /\ UNCHANGED << acknowledged, scenarioCookie, verifiedCookie, shell, doc >>
  BY DEF OpenSubAccount
<1>5. /\ OpenAnswer(r.number, s) \in Answers
      /\ OpenAnswer(r.number, s) = "rejected" <=> created[r.number] = 1
  BY <1>3 DEF OpenAnswer, Answers
<1>6. OpenAnswer(r.number, s) \in Routes
  BY <1>5 DEF Routes
<1>7. /\ wire' \in Requests
      /\ wire' # Nothing
      /\ wire'.route = OpenAnswer(r.number, s)
      /\ wire'.number = r.number
      /\ wire'.query = Suffix(s)
  <2> HIDE DEF s
  <2> QED
    BY <1>1, <1>4, <1>6, RequestFacts
<1>8. CASE Commits(r.number, s)
  BY <1>2, <1>3, <1>4, <1>5, <1>7, <1>8 DEF CoreTypeOK, Commits
<1>9. CASE ~Commits(r.number, s)
  BY <1>2, <1>3, <1>4, <1>5, <1>7, <1>9 DEF CoreTypeOK, Commits
<1> QED
  BY <1>8, <1>9

\* A calm step leaves the documents what they are.
LEMMA CalmDisplays ==
  ASSUME CoreTypeOK, DisplayInv, pc # "start", Calm
  PROVE  CoreTypeOK' /\ DisplayInv'
<1>1. CASE UNCHANGED core
  BY <1>1 DEF Calm, Displays, CoreTypeOK, DisplayInv
<1>2. CASE \E r \in Controls : r.route # "open" /\ Click(r)
  <2>1. PICK r \in Controls : r.route # "open" /\ Click(r)
    BY <1>2
  <2>2. wire' \in Requests /\ wire'.route \notin Answers
    BY <2>1, ControlsFacts DEF Click, Answers
  <2>3. UNCHANGED << created, scenarioCookie, shell, doc >>
    BY <2>1 DEF Click
  <2> QED
    BY <2>2, <2>3 DEF Calm, Displays, CoreTypeOK, DisplayInv
<1> QED
  BY <1>1, <1>2 DEF Calm

\* The consequential click goes to a member on record, and shows on the wire only.
LEMMA CommitDisplays ==
  ASSUME IInv, CoreTypeOK, DisplayInv, CommitOnCore
  PROVE  /\ CoreTypeOK' /\ DisplayInv'
         /\ HasRecipe
         /\ doc.page \in {"form", "rejected"}
         /\ \E r \in Requests :
              /\ r.number = doc.number
              /\ r.number \in Member
              /\ OpenSubAccount(r)
              /\ r = Request("open", doc.number, doc.query)
<1>1. cursor \in Steps /\ Kind[cursor] = "verified" /\ setup \in Setups
  BY DEF CommitOnCore, IInv, PlaceInv, TypeOK
<1>2. HasRecipe /\ cursor = 4 /\ setup.capability = Open
  BY <1>1, TheCapabilities, CapabilityFacts DEF HasRecipe
<1>3. setup.capability.click[cursor] = "open"
  BY <1>2 DEF Open
<1>4. PICK r \in Controls : r.route = "open" /\ OpenSubAccount(r)
  BY <1>3 DEF CommitOnCore
<1>5. /\ r \in Requests
      /\ doc.page \in {"form", "rejected"}
      /\ r = Request("open", doc.number, doc.query)
  BY <1>4, ControlsFacts
<1>6. r.number = doc.number /\ doc.number \in Member
  BY <1>5 DEF Request, DisplayInv
<1>7. number' = number /\ Displays
  BY DEF CommitOnCore
<1>8. /\ created' \in [Member -> {0, 1}]
      /\ wire' \in Requests /\ wire' # Nothing /\ wire'.route \in Answers
      /\ wire'.number = doc.number
      /\ UNCHANGED << scenarioCookie, shell, doc >>
  BY <1>4, <1>5, <1>6, Opened
<1>9. CoreTypeOK'
  BY <1>7, <1>8 DEF CoreTypeOK, Displays
<1>10. DisplayInv'
  BY <1>5, <1>6, <1>8 DEF DisplayInv
<1> QED
  BY <1>2, <1>4, <1>5, <1>6, <1>9, <1>10

\* An answer about no write shows what is on record.
LEMMA AnswerDisplays ==
  ASSUME CoreTypeOK, DisplayInv, Answer, wire.route # "open"
  PROVE  CoreTypeOK' /\ DisplayInv'
<1> DEFINE n == wire.number
           s == RequestScenario(wire)
<1>1. /\ wire # Nothing /\ wire \in Requests /\ number' = number /\ Displays
      /\ n \in Number \cup {Nothing}
      /\ pc' = pc
  BY DEF Answer, Serve, AtRest, CoreTypeOK, Requests
<1>2. ServedAs(n, s)
  BY <1>1, Served DEF Answer
<1>3. s \in Scenario /\ Suffix(s) \in Query /\ Scenario \subseteq Query
  BY <1>1, ScenarioFacts DEF CoreTypeOK, Requests, RequestScenario, Query
<1>4. wire.route \in {"shell", "inquiry", "search", "profile", "ack", "form", "verify",
                      "verify_wrong"} \cup Answers
  BY <1>1 DEF Requests, Routes
<1> HIDE DEF n, s
<1>5. scenarioCookie' \in Query /\ shell' \in Query /\ created' = created
  BY <1>2, <1>3 DEF ServedAs, CoreTypeOK
<1>6. CASE wire.route = "shell"
  <2>1. /\ Document("blank", Nothing, Nothing) \in Documents
        /\ Document("blank", Nothing, Nothing).page = "blank"
        /\ ~Document("blank", Nothing, Nothing).dialog
    BY DocumentFacts DEF PageKinds, Query
  <2>2. /\ Request("inquiry", Nothing, Suffix(s)) \in Requests
        /\ Request("inquiry", Nothing, Suffix(s)).route = "inquiry"
    <3>1. "inquiry" \in Routes /\ Nothing \in Number \cup {Nothing}
      BY DEF Routes
    <3> QED
      BY <1>3, <3>1, RequestFacts
  <2>3. /\ doc' = Document("blank", Nothing, Nothing)
        /\ wire' = Request("inquiry", Nothing, Suffix(s))
    BY <1>2, <1>6 DEF ServedAs
  <2> QED
    BY <1>1, <1>5, <2>1, <2>2, <2>3 DEF CoreTypeOK, DisplayInv, Displays, Answers
<1>7. CASE \E kind \in {"inquiry", "not_found", "verification"}, m \in {n, Nothing} :
             Renders(kind, m, s)
  BY <1>1, <1>5, <1>7 DEF Renders, CoreTypeOK, DisplayInv, Displays
<1>8. CASE Forwards(n, s)
  BY <1>1, <1>5, <1>8 DEF Forwards, CoreTypeOK, DisplayInv, Displays, Answers
<1>9. CASE wire.route = "profile"
  BY <1>1, <1>2, <1>5, <1>9 DEF ServedAs, ShowsProfile, CoreTypeOK, DisplayInv, Displays
<1>10. CASE wire.route = "form" /\ n \in Member
  BY <1>1, <1>2, <1>5, <1>10 DEF ServedAs, Renders, CoreTypeOK, DisplayInv, Displays
<1>11. CASE wire.route \in Answers
  BY <1>1, <1>2, <1>5, <1>11 DEF ServedAs, Answers, CoreTypeOK, DisplayInv, Displays, n
<1> QED
  BY <1>2, <1>4, <1>6, <1>7, <1>8, <1>9, <1>10, <1>11 DEF ServedAs

\* Before the run, a teller's click or a reset.
LEMMA TellerDisplays ==
  ASSUME CoreTypeOK, DisplayInv, Teller
  PROVE  CoreTypeOK' /\ DisplayInv'
<1>1. pc = "start" /\ pc' = "start" /\ number' = number /\ Displays
  BY DEF Teller, AtRest
<1>2. CASE \E r \in Controls : Click(r)
  <2>1. PICK r \in Controls : Click(r)
    BY <1>2
  <2>2. wire' \in Requests /\ wire'.route \notin Answers
    BY <2>1, ControlsFacts DEF Click, Answers
  <2> QED
    BY <1>1, <2>1, <2>2 DEF Click, Displays, CoreTypeOK, DisplayInv
<1>3. CASE ResetDemoState
  <2>1. created' \in [Member -> {0, 1}] /\ UNCHANGED << scenarioCookie, shell, doc, wire >>
    BY <1>3 DEF ResetDemoState
  <2> QED
    BY <1>1, <2>1 DEF Displays, CoreTypeOK, DisplayInv
<1> QED
  BY <1>2, <1>3 DEF Teller

\* The session's browser starts on the blank frame of the shell.
LEMMA StartDisplays ==
  ASSUME CoreTypeOK, DisplayInv, StartOnShell
  PROVE  /\ CoreTypeOK' /\ DisplayInv'
         /\ pc = "start" /\ pc' = "scope"
         /\ created' = created /\ acknowledged' = acknowledged
         /\ wire' # Nothing /\ wire'.route = "shell" /\ wire'.number = Nothing
         /\ doc'.page = "blank" /\ doc'.number = Nothing
         /\ scenarioCookie' = Nothing /\ shell' = Nothing /\ verifiedCookie' = Nothing
<1>1. PICK query \in Query : Opens(query)
  BY DEF StartOnShell
<1>2. pc = "start" /\ pc' = "scope" /\ number' = number /\ Displays
  BY DEF StartOnShell, Start
<1>3. /\ Document("blank", Nothing, Nothing) \in Documents
      /\ Document("blank", Nothing, Nothing).page = "blank"
      /\ Document("blank", Nothing, Nothing).number = Nothing
      /\ ~Document("blank", Nothing, Nothing).dialog
  BY DocumentFacts DEF PageKinds, Query
<1>4. /\ Request("shell", Nothing, query) \in Requests
      /\ Request("shell", Nothing, query) # Nothing
      /\ Request("shell", Nothing, query).route = "shell"
      /\ Request("shell", Nothing, query).number = Nothing
  <2>1. "shell" \in Routes /\ Nothing \in Number \cup {Nothing}
    BY DEF Routes
  <2> QED
    BY <2>1, RequestFacts
<1>5. /\ doc' = Document("blank", Nothing, Nothing)
      /\ wire' = Request("shell", Nothing, query)
      /\ scenarioCookie' = Nothing /\ shell' = Nothing /\ verifiedCookie' = Nothing
      /\ created' = created /\ acknowledged' = acknowledged
  BY <1>1 DEF Opens
<1>6. Nothing \in Query
  BY DEF Query
<1> QED
  BY <1>2, <1>3, <1>4, <1>5, <1>6 DEF CoreTypeOK, DisplayInv, Displays, Answers

\* Before the run, a write of a teller is carried out.
LEMMA TellerWrites ==
  ASSUME CoreTypeOK, DisplayInv, Answer, pc = "start", wire.route = "open"
  PROVE  CoreTypeOK' /\ DisplayInv'
<1> DEFINE s == RequestScenario(wire)
<1>1. /\ wire # Nothing /\ wire \in Requests /\ number' = number /\ Displays
      /\ wire.number \in Number \cup {Nothing}
      /\ pc' = "start"
  BY DEF Answer, Serve, AtRest, CoreTypeOK, Requests
<1>2. OpenSubAccount(wire)
  BY <1>1, Handlers DEF Answer
<1>3. CASE wire.number \in Member
  <2>1. /\ created' \in [Member -> {0, 1}]
        /\ wire' \in Requests
        /\ wire'.number = wire.number
        /\ UNCHANGED << scenarioCookie, shell, doc >>
    BY <1>1, <1>2, <1>3, Opened
  <2> QED
    BY <1>1, <1>3, <2>1 DEF CoreTypeOK, DisplayInv, Displays
<1>4. CASE wire.number \notin Member
  <2>1. Suffix(s) \in Query
    BY <1>1, ScenarioFacts DEF CoreTypeOK, Requests, RequestScenario
  <2>2. NotFoundPage(wire) /\ UNCHANGED created
    BY <1>2, <1>4 DEF OpenSubAccount
  <2>3. Renders("not_found", wire.number, s)
    BY <1>1, <2>1, <2>2, RendersFacts DEF NotFoundPage, PageKinds
  <2> QED
    BY <1>1, <2>2, <2>3 DEF NotFoundPage, Render, Renders, CoreTypeOK, DisplayInv, Displays
<1> QED
  BY <1>3, <1>4

-----------------------------------------------------------------------------
(* The session's own invariant, when the application moves *)

\* A session that rests does not notice: its conditions are about what it will
\* read next, and neither a rejection nor a profile it awaits appears unless its
\* own request brought it.
LEMMA RestStep ==
  ASSUME IInv, AtRest, doc'.page \in PageKinds, doc'.dialog \in BOOLEAN,
         pc = "respond" /\ doc'.page \in Outcome[cursor] => applied = 0 /\ ~inflight,
         pc \in {"baseline_effect", "effect"} => doc'.page = doc.page /\ page = doc.page,
         foreign' \in BOOLEAN,
         foreign' # foreign => baseline # "absent"
  PROVE  IInv'
<1>1. setup \in Setups /\ setup' = setup /\ page' = doc'.page /\ dialog' = doc'.dialog
  BY DEF IInv, TypeOK, AtRest, Displays
<1> USE <1>1 DEF IInv, AtRest
<1>2. TypeOK'
  BY SetupConstant, ReplayAssumption DEF TypeOK, LeaseTypeOK
<1>3. PlaceInv'
  BY SetupConstant DEF PlaceInv
<1>4. DriverInv'
  BY CheckpointsConstant DEF DriverInv, Blocked
<1>5. PauseInv'
  BY SetupConstant DEF PauseInv
<1>6. DispatchInv' /\ ReconciledInv'
  BY SetupConstant DEF DispatchInv, Blocked, ReconciledInv
<1>7. EffectInv'
  BY SetupConstant DEF EffectInv, Blocked
<1>8. TruthInv'
  BY SetupConstant DEF TruthInv, EffectTruth
<1> QED
  BY <1>2, <1>3, <1>4, <1>5, <1>6, <1>7, <1>8

-----------------------------------------------------------------------------
(* What the run makes of the application *)

CoreInv == StoreInv /\ AnswerInv /\ RunInv /\ RecipeInv /\ WriteClaims

\* The session looks, and the application does not move meanwhile.
Still == UNCHANGED << core, number, application >>

\* wait_settled came first where the session waits.
Waited == pc \in Settles /\ ~(pc = "scope" /\ cursor > N) => Settled

\* The inductive invariant: the session's own, and what the application adds.
LInv == IInv /\ CoreTypeOK /\ DisplayInv /\ CoreInv

\* Each step at which the session looks or is told to go on, and does not ask the
\* application for anything, keeps what the run makes of it.
LEMMA CheckScopeKeeps ==
  ASSUME LInv, Still, CheckScope, Waited
  PROVE  CoreInv'
<1>1. setup \in Setups /\ setup' = setup
  BY DEF LInv, IInv, TypeOK, Still
<1> USE <1>1 DEF Still, Waited, LInv, IInv, CheckScope, Return, Continue, SurfaceFailure,
   ScopeDenied
<1>2. StoreInv'
  BY DEF CoreInv, StoreInv, HasSubAccount
<1>3. AnswerInv'
  BY DEF CoreInv, AnswerInv
<1>4. RunInv'
  BY TheCapabilities DEF CoreInv, RunInv, Before, After, Blocked, OnInquiry, Coming,
     Settles, Settled, Late
<1>5. RecipeInv'
  BY DEF RecipeInv
<1>6. WriteClaims'
  BY DEF WriteClaims
<1> QED
  BY <1>2, <1>3, <1>4, <1>5, <1>6 DEF CoreInv

LEMMA CheckDialogKeeps ==
  ASSUME LInv, Still, CheckDialog, Waited
  PROVE  CoreInv'
<1>1. setup \in Setups /\ setup' = setup
  BY DEF LInv, IInv, TypeOK, Still
<1> USE <1>1 DEF Still, Waited, LInv, IInv, CheckDialog, Return, Continue, SurfaceFailure,
   Escalate
<1>2. StoreInv'
  BY DEF CoreInv, StoreInv, HasSubAccount
<1>3. AnswerInv'
  BY DEF CoreInv, AnswerInv, EffectInv, Before
<1>4. RunInv'
  BY TheCapabilities DEF CoreInv, RunInv, Before, After, Blocked, OnInquiry, PlaceInv,
     CoreTypeOK, DisplayInv
<1>5. RecipeInv'
  BY DEF RecipeInv
<1>6. WriteClaims'
  BY DEF WriteClaims
<1> QED
  BY <1>2, <1>3, <1>4, <1>5, <1>6 DEF CoreInv

LEMMA RecheckScopeKeeps ==
  ASSUME LInv, Still, RecheckScope, Waited
  PROVE  CoreInv'
<1>1. setup \in Setups /\ setup' = setup
  BY DEF LInv, IInv, TypeOK, Still
<1> USE <1>1 DEF Still, Waited, LInv, IInv, RecheckScope, Return, Continue,
   SurfaceFailure, ScopeDenied
<1>2. StoreInv'
  BY DEF CoreInv, StoreInv, HasSubAccount
<1>3. AnswerInv'
  BY DEF CoreInv, AnswerInv
<1>4. RunInv'
  BY SetupConstant DEF CoreInv, RunInv, Before, After, Blocked, OnInquiry, Coming,
     Searched, Settles, Settled, Late
<1>5. RecipeInv'
  BY DEF RecipeInv
<1>6. WriteClaims'
  BY DEF WriteClaims
<1> QED
  BY <1>2, <1>3, <1>4, <1>5, <1>6 DEF CoreInv

LEMMA ResolveKeeps ==
  ASSUME LInv, Still, Resolve, Waited
  PROVE  CoreInv'
<1>1. setup \in Setups /\ setup' = setup
  BY DEF LInv, IInv, TypeOK, Still
<1> USE <1>1 DEF Still, Waited, LInv, IInv, Resolve, Return, Continue, SurfaceFailure,
   CountTry, PostconditionHolds
<1>2. StoreInv'
  BY DEF CoreInv, StoreInv, HasSubAccount
<1>3. AnswerInv'
  BY DEF CoreInv, AnswerInv
<1>4. RunInv'
  BY SetupConstant DEF CoreInv, RunInv, Before, After, Blocked, OnInquiry, Coming, Searched
<1>5. RecipeInv'
  BY DEF RecipeInv
<1>6. WriteClaims'
  <2>1. HasRecipe => Outcome[cursor] = {}
    BY TheCapabilities DEF PlaceInv, TypeOK, After
  <2>2. HasRecipe' = HasRecipe
    BY SetupConstant
  <2>3. HasRecipe /\ pc' = "idle" =>
          result'.status = "Failure" /\ result'.code \in {"CHECKPOINT_FAILED", "SURFACE_ERROR"}
    BY <2>1
  <2> QED
    BY <2>2, <2>3 DEF WriteClaims, Writes
<1> QED
  BY <1>2, <1>3, <1>4, <1>5, <1>6 DEF CoreInv

LEMMA BaselineViewKeeps ==
  ASSUME LInv, Still, BaselineView, Waited
  PROVE  CoreInv'
<1>1. setup \in Setups /\ setup' = setup
  BY DEF LInv, IInv, TypeOK, Still
<1> USE <1>1 DEF Still, Waited, LInv, IInv, BaselineView, Continue
<1>2. StoreInv'
  BY DEF CoreInv, StoreInv, HasSubAccount
<1>3. AnswerInv'
  BY DEF CoreInv, AnswerInv
<1>4. RunInv'
  BY TheCapabilities, SetupConstant DEF CoreInv, RunInv, Before, After, Blocked,
     OnInquiry, Searched, PlaceInv, CoreTypeOK
<1>5. RecipeInv'
  BY DEF RecipeInv
<1>6. WriteClaims'
  BY DEF WriteClaims
<1> QED
  BY <1>2, <1>3, <1>4, <1>5, <1>6 DEF CoreInv

LEMMA BaselineEffectKeeps ==
  ASSUME LInv, Still, BaselineEffect, Waited
  PROVE  CoreInv'
<1>1. setup \in Setups /\ setup' = setup
  BY DEF LInv, IInv, TypeOK, Still
<1> USE <1>1 DEF Still, Waited, LInv, IInv, BaselineEffect, Continue, EffectVisible
<1>2. StoreInv'
  <2>1. page \in EffectView
    BY TheCapabilities DEF CoreInv, RunInv, CoreTypeOK
  <2> QED
    BY <2>1 DEF CoreInv, StoreInv, TypeOK, HasSubAccount
<1>3. AnswerInv'
  BY DEF CoreInv, AnswerInv
<1>4. RunInv'
  BY TheCapabilities DEF CoreInv, RunInv, After, OnInquiry, PlaceInv
<1>5. RecipeInv'
  BY DEF RecipeInv
<1>6. WriteClaims'
  BY DEF WriteClaims
<1> QED
  BY <1>2, <1>3, <1>4, <1>5, <1>6 DEF CoreInv

LEMMA FinishScopeKeeps ==
  ASSUME LInv, Still, FinishScope, Waited
  PROVE  CoreInv'
<1>1. setup \in Setups /\ setup' = setup
  BY DEF LInv, IInv, TypeOK, Still
<1> USE <1>1 DEF Still, Waited, LInv, IInv, FinishScope, Return, Continue, SurfaceFailure,
   ScopeDenied
<1>2. StoreInv'
  BY DEF CoreInv, StoreInv, HasSubAccount
<1>3. AnswerInv'
  BY DEF CoreInv, AnswerInv
<1>4. RunInv'
  BY TheCapabilities DEF CoreInv, RunInv, Blocked
<1>5. RecipeInv'
  BY DEF RecipeInv
<1>6. WriteClaims'
  BY DEF WriteClaims
<1> QED
  BY <1>2, <1>3, <1>4, <1>5, <1>6 DEF CoreInv

LEMMA FinishSuccessKeeps ==
  ASSUME LInv, Still, FinishSuccess, Waited
  PROVE  CoreInv'
<1>1. setup \in Setups /\ setup' = setup
  BY DEF LInv, IInv, TypeOK, Still
<1> USE <1>1 DEF Still, Waited, LInv, IInv, FinishSuccess, Return, SurfaceFailure
<1>2. StoreInv'
  BY DEF CoreInv, StoreInv, HasSubAccount
<1>3. AnswerInv'
  BY DEF CoreInv, AnswerInv
<1>4. RunInv'
  BY DEF CoreInv, RunInv, Before, After, Blocked
<1>5. RecipeInv'
  BY DEF RecipeInv
<1>6. WriteClaims'
  <2>1. ~HasRecipe
    BY TheCapabilities DEF PlaceInv, TypeOK
  <2> QED
    BY <2>1, SetupConstant DEF WriteClaims, Writes
<1> QED
  BY <1>2, <1>3, <1>4, <1>5, <1>6 DEF CoreInv

LEMMA RespondKeeps ==
  ASSUME LInv, Still, Respond, Waited
  PROVE  CoreInv'
<1>1. setup \in Setups /\ setup' = setup
  BY DEF LInv, IInv, TypeOK, Still
<1> USE <1>1 DEF Still, Waited, LInv, IInv, Respond, Return, Continue
<1>2. StoreInv'
  BY DEF CoreInv, StoreInv, HasSubAccount
<1>3. AnswerInv'
  BY DEF CoreInv, AnswerInv
<1>4. RunInv'
  BY DEF CoreInv, RunInv, Before, After, Blocked
<1>5. RecipeInv'
  BY DEF RecipeInv
<1>6. WriteClaims'
  BY DEF WriteClaims, TruthInv
<1> QED
  BY <1>2, <1>3, <1>4, <1>5, <1>6 DEF CoreInv

LEMMA VerifyScopeKeeps ==
  ASSUME LInv, Still, VerifyScope, Waited
  PROVE  CoreInv'
<1>1. setup \in Setups /\ setup' = setup
  BY DEF LInv, IInv, TypeOK, Still
<1> USE <1>1 DEF Still, Waited, LInv, IInv, VerifyScope, Proceed, Continue,
   MutationAmbiguous, Escalate, Return
<1>2. StoreInv'
  BY DEF CoreInv, StoreInv, HasSubAccount
<1>3. AnswerInv'
  BY DEF CoreInv, AnswerInv
<1>4. RunInv'
  BY DEF CoreInv, RunInv, Before, After, Blocked
<1>5. RecipeInv'
  BY DEF CoreInv, RecipeInv, OnInquiry, Coming, Searched, Settles, Settled, Late, TypeOK
<1>6. WriteClaims'
  BY DEF WriteClaims
<1> QED
  BY <1>2, <1>3, <1>4, <1>5, <1>6 DEF CoreInv

LEMMA VerifyDialogKeeps ==
  ASSUME LInv, Still, VerifyDialog, Waited
  PROVE  CoreInv'
<1>1. setup \in Setups /\ setup' = setup
  BY DEF LInv, IInv, TypeOK, Still
<1> USE <1>1 DEF Still, Waited, LInv, IInv, VerifyDialog, Proceed, Continue,
   MutationAmbiguous, Escalate, Return
<1>2. StoreInv'
  BY DEF CoreInv, StoreInv, HasSubAccount
<1>3. AnswerInv'
  BY DEF CoreInv, AnswerInv
<1>4. RunInv'
  BY DEF CoreInv, RunInv, Before, After, Blocked
<1>5. RecipeInv'
  BY TheCapabilities DEF CoreInv, RecipeInv, Checking, Coming, Searched, PlaceInv, TypeOK
<1>6. WriteClaims'
  BY DEF WriteClaims
<1> QED
  BY <1>2, <1>3, <1>4, <1>5, <1>6 DEF CoreInv

LEMMA VerifyViewKeeps ==
  ASSUME LInv, Still, VerifyView, Waited
  PROVE  CoreInv'
<1>1. setup \in Setups /\ setup' = setup
  BY DEF LInv, IInv, TypeOK, Still
<1> USE <1>1 DEF Still, Waited, LInv, IInv, VerifyView, Proceed, Continue,
   MutationAmbiguous, Escalate, Return
<1>2. StoreInv'
  BY DEF CoreInv, StoreInv, HasSubAccount
<1>3. AnswerInv'
  BY DEF CoreInv, AnswerInv
<1>4. RunInv'
  BY TheCapabilities, SetupConstant DEF CoreInv, RunInv, Before, After, Blocked, CoreTypeOK
<1>5. RecipeInv'
  BY DEF CoreInv, RecipeInv, Coming, Searched
<1>6. WriteClaims'
  BY DEF WriteClaims
<1> QED
  BY <1>2, <1>3, <1>4, <1>5, <1>6 DEF CoreInv

LEMMA VerifyEffectKeeps ==
  ASSUME LInv, Still, VerifyEffect, Waited
  PROVE  CoreInv'
<1>1. setup \in Setups /\ setup' = setup
  BY DEF LInv, IInv, TypeOK, Still
<1> USE <1>1 DEF Still, Waited, LInv, IInv, VerifyEffect, Proceed, Continue,
   MutationAmbiguous, Escalate, Return, Conclude, EffectVisible, AbsentBefore
<1>2. StoreInv'
  BY DEF CoreInv, StoreInv, HasSubAccount
<1>3. AnswerInv'
  BY DEF CoreInv, AnswerInv
<1>4. RunInv'
  BY DEF CoreInv, RunInv, Before, After, Blocked
<1>5. RecipeInv'
  BY DEF RecipeInv
<1>6. WriteClaims'
  BY TheCapabilities DEF CoreInv, WriteClaims, RunInv, TypeOK, CoreTypeOK
<1> QED
  BY <1>2, <1>3, <1>4, <1>5, <1>6 DEF CoreInv

LEMMA VerifyExtractKeeps ==
  ASSUME LInv, Still, VerifyExtract, Waited
  PROVE  CoreInv'
<1>1. setup \in Setups /\ setup' = setup
  BY DEF LInv, IInv, TypeOK, Still
<1> USE <1>1 DEF Still, Waited, LInv, IInv, VerifyExtract, Proceed, Continue,
   MutationAmbiguous, Escalate, Return, Propagate
<1>2. StoreInv'
  BY DEF CoreInv, StoreInv, HasSubAccount
<1>3. AnswerInv'
  BY DEF CoreInv, AnswerInv
<1>4. RunInv'
  BY DEF CoreInv, RunInv, Before, After, Blocked
<1>5. RecipeInv'
  BY DEF RecipeInv
<1>6. WriteClaims'
  BY DEF WriteClaims
<1> QED
  BY <1>2, <1>3, <1>4, <1>5, <1>6 DEF CoreInv

LEMMA VerifySuccessKeeps ==
  ASSUME LInv, Still, VerifySuccess, Waited
  PROVE  CoreInv'
<1>1. setup \in Setups /\ setup' = setup
  BY DEF LInv, IInv, TypeOK, Still
<1> USE <1>1 DEF Still, Waited, LInv, IInv, VerifySuccess, Return, Conclude, Propagate,
   SurfaceFailure
<1>2. StoreInv'
  BY DEF CoreInv, StoreInv, HasSubAccount
<1>3. AnswerInv'
  BY DEF CoreInv, AnswerInv
<1>4. RunInv'
  BY DEF CoreInv, RunInv, Before, After, Blocked
<1>5. RecipeInv'
  BY DEF RecipeInv
<1>6. WriteClaims'
  BY ReplayAssumption DEF CoreInv, WriteClaims, StoreInv, TypeOK
<1> QED
  BY <1>2, <1>3, <1>4, <1>5, <1>6 DEF CoreInv

LEMMA AssessScopeKeeps ==
  ASSUME LInv, Still, AssessScope, Waited
  PROVE  CoreInv'
<1>1. setup \in Setups /\ setup' = setup
  BY DEF LInv, IInv, TypeOK, Still
<1> USE <1>1 DEF Still, Waited, LInv, IInv, AssessScope, FailClosed, Return, Continue,
   KeepControl
<1>2. StoreInv'
  BY DEF CoreInv, StoreInv, HasSubAccount
<1>3. AnswerInv'
  BY DEF CoreInv, AnswerInv
<1>4. RunInv'
  BY DEF CoreInv, RunInv, Before, After, Blocked
<1>5. RecipeInv'
  BY DEF RecipeInv
<1>6. WriteClaims'
  BY DEF WriteClaims
<1> QED
  BY <1>2, <1>3, <1>4, <1>5, <1>6 DEF CoreInv

LEMMA PollDialogKeeps ==
  ASSUME LInv, Still, PollDialog, Waited
  PROVE  CoreInv'
<1>1. setup \in Setups /\ setup' = setup
  BY DEF LInv, IInv, TypeOK, Still
<1> USE <1>1 DEF Still, Waited, LInv, IInv, PollDialog, PollAgain, FailClosed, Return,
   Continue, KeepControl, Escalate, CountTry
<1>2. StoreInv'
  BY DEF CoreInv, StoreInv, HasSubAccount
<1>3. AnswerInv'
  BY DEF CoreInv, AnswerInv
<1>4. RunInv'
  BY DEF CoreInv, RunInv, After, Judging, DriverInv
<1>5. RecipeInv'
  BY DEF RecipeInv
<1>6. WriteClaims'
  BY DEF WriteClaims, Judging, TypeOK, Reason, DriverInv
<1> QED
  BY <1>2, <1>3, <1>4, <1>5, <1>6 DEF CoreInv

LEMMA PollCheckpointKeeps ==
  ASSUME LInv, Still, PollCheckpoint, Waited
  PROVE  CoreInv'
<1>1. setup \in Setups /\ setup' = setup
  BY DEF LInv, IInv, TypeOK, Still
<1> USE <1>1 DEF Still, Waited, LInv, IInv, PollCheckpoint, PollAgain, FailClosed, Return,
   Continue, KeepControl, Escalate, CountTry, ResumeFromCursor
<1>2. StoreInv'
  BY DEF CoreInv, StoreInv, HasSubAccount
<1>3. AnswerInv'
  BY DEF CoreInv, AnswerInv
<1>4. RunInv'
  BY DEF CoreInv, RunInv, After, Judging, DriverInv
<1>5. RecipeInv'
  BY DEF RecipeInv
<1>6. WriteClaims'
  BY DEF WriteClaims, Judging, TypeOK, Reason, DriverInv
<1> QED
  BY <1>2, <1>3, <1>4, <1>5, <1>6 DEF CoreInv

LEMMA TakeControlKeeps ==
  ASSUME LInv, Still, TakeControl
  PROVE  CoreInv'
<1>1. setup \in Setups /\ setup' = setup
  BY DEF LInv, IInv, TypeOK, Still
<1> USE <1>1 DEF Still, LInv, IInv, TakeControl, ToHuman
<1>2. StoreInv'
  BY DEF CoreInv, StoreInv, HasSubAccount
<1>3. AnswerInv'
  BY DEF CoreInv, AnswerInv
<1>4. RunInv'
  BY DEF CoreInv, RunInv, Before, After, Blocked
<1>5. RecipeInv'
  BY DEF RecipeInv
<1>6. WriteClaims'
  <2>1. HasRecipe' = HasRecipe /\ UNCHANGED << pc, result, applied, foreign >>
    BY SetupConstant
  <2> QED
    BY <2>1 DEF CoreInv, WriteClaims, Writes
<1> QED
  BY <1>2, <1>3, <1>4, <1>5, <1>6 DEF CoreInv

LEMMA ResumeAmbiguousKeeps ==
  ASSUME LInv, Still, ResumeAmbiguous
  PROVE  CoreInv'
<1>1. setup \in Setups /\ setup' = setup
  BY DEF LInv, IInv, TypeOK, Still
<1> USE <1>1 DEF Still, LInv, IInv, ResumeAmbiguous, HandBack, ToAutomation, Continue,
   Return, AmbiguousPause
<1>2. StoreInv'
  BY DEF CoreInv, StoreInv, HasSubAccount
<1>3. AnswerInv'
  BY DEF CoreInv, AnswerInv
<1>4. RunInv'
  BY DEF RunInv, Before, After, Blocked
<1>5. RecipeInv'
  BY DEF RecipeInv
<1>6. WriteClaims'
  BY TheCapabilities, SetupConstant DEF WriteClaims, Writes, PauseInv
<1> QED
  BY <1>2, <1>3, <1>4, <1>5, <1>6 DEF CoreInv

LEMMA ResumeBlockedKeeps ==
  ASSUME LInv, Still, ResumeBlocked
  PROVE  CoreInv'
<1>1. setup \in Setups /\ setup' = setup
  BY DEF LInv, IInv, TypeOK, Still
<1> USE <1>1 DEF Still, LInv, IInv, ResumeBlocked, FailClosed, Return, Continue,
   KeepControl, AmbiguousPause
<1>2. StoreInv'
  BY DEF CoreInv, StoreInv, HasSubAccount
<1>3. AnswerInv'
  BY DEF CoreInv, AnswerInv
<1>4. RunInv'
  BY DEF CoreInv, RunInv, Before, After, Blocked
<1>5. RecipeInv'
  BY DEF RecipeInv
<1>6. WriteClaims'
  BY DEF WriteClaims
<1> QED
  BY <1>2, <1>3, <1>4, <1>5, <1>6 DEF CoreInv


\* An operator's click asks for no write, and moves nothing the run relies on while
\* it is paused.
LEMMA PerformKeeps ==
  ASSUME IInv, CoreTypeOK, DisplayInv, CoreInv, Perform, number' = number,
         NEW r \in Controls, r.route # "open", Click(r)
  PROVE  CoreInv'
<1>1. setup \in Setups /\ setup' = setup
  BY DEF IInv, TypeOK, Perform
<1>2. /\ wire' \in Requests /\ wire' # Nothing /\ wire'.route = r.route
      /\ r.route \notin Answers \cup {"open"}
      /\ UNCHANGED << created, doc >>
  <2>1. r \in Requests
    BY ControlsFacts
  <2> QED
    BY <2>1, ControlsFacts, CoreAssumption DEF Click, Answers
<1> USE <1>1, <1>2 DEF IInv, Perform, CoreInv
<1>3. StoreInv'
  BY DEF StoreInv, HasSubAccount
<1>4. AnswerInv'
  BY DEF AnswerInv, Answers
<1>5. RunInv' /\ RecipeInv'
  BY DEF RunInv, RecipeInv, Before, After, Blocked
<1>6. WriteClaims'
  BY SetupConstant DEF WriteClaims, Writes
<1> QED
  BY <1>3, <1>4, <1>5, <1>6

\* The step at the cursor is on the page its postcondition will be read on.
LEMMA ExecuteKeeps ==
  ASSUME IInv, CoreTypeOK, DisplayInv, CoreInv, ExecuteOnCore
  PROVE  CoreInv'
<1>1. /\ setup \in Setups /\ setup' = setup /\ pc = "execute" /\ pc' = "rescope"
      /\ number' = number
      /\ UNCHANGED << applied, foreign, inflight, baseline, cursor >>
      /\ cursor \in Steps /\ Kind[cursor] # "verified"
  BY DEF IInv, TypeOK, PlaceInv, ExecuteOnCore, Execute, Definite
<1>2. effectState' = effectState /\ pending' = pending /\ pending = None
  BY <1>1 DEF IInv, PauseInv, Before, ExecuteOnCore, Execute, Escalate, Return,
              Continue, SurfaceFailure, Refused
<1>3. UNCHANGED << created, doc >>
  BY DEF ExecuteOnCore, Makes, Click
<1>4. /\ wire' \in Requests \cup {Nothing}
      /\ wire' # wire /\ wire' # Nothing => wire'.route \in {"search", "form"}
      /\ cursor = 1 => wire' = wire
      /\ cursor = 2 => wire' # Nothing /\ wire'.route = "search" /\ wire'.number = number
      /\ cursor = 3 /\ HasRecipe => wire' # Nothing /\ wire'.route = "form"
  <2>1. \A route : route # None /\ Makes(route) =>
          /\ wire' \in Requests /\ wire' # Nothing
          /\ wire'.route = route
          /\ route = "search" => wire'.number = number
    BY ControlsFacts, CoreAssumption DEF Makes, Click
  <2>2. CASE cursor = 1
    <3>1. setup.capability.click[1] = None
      BY <1>1, TheCapabilities DEF Lookup, Open
    <3> QED
      BY <2>2, <3>1 DEF ExecuteOnCore, Makes, CoreTypeOK
  <2>3. CASE cursor = 2
    <3>1. setup.capability.click[2] = "search" /\ "search" # None
      BY <1>1, TheCapabilities, ReplayAssumption DEF Lookup, Open, Routes
    <3> QED
      BY <2>1, <2>3, <3>1 DEF ExecuteOnCore
  <2>4. CASE cursor = 3 /\ HasRecipe
    <3>1. setup.capability.click[3] = "form" /\ "form" # None
      BY <1>1, <2>4, TheCapabilities, ReplayAssumption DEF Open, Routes
    <3> QED
      BY <2>1, <2>4, <3>1 DEF ExecuteOnCore
  <2>5. CASE cursor = 3 /\ ~HasRecipe
    <3>1. setup.capability.click[3] = None
      BY <1>1, <2>5, TheCapabilities DEF Lookup
    <3> QED
      BY <2>5, <3>1 DEF ExecuteOnCore, Makes, CoreTypeOK
  <2> QED
    BY <1>1, <2>2, <2>3, <2>4, <2>5, TheCapabilities
<1> USE <1>1, <1>2, <1>3, <1>4 DEF CoreInv
<1>5. StoreInv'
  BY DEF StoreInv, HasSubAccount
<1>6. AnswerInv'
  BY DEF AnswerInv, Answers
<1>7. RunInv'
  BY SetupConstant DEF RunInv, Before, After, Blocked, OnInquiry, Coming, Searched
<1>8. RecipeInv' /\ WriteClaims'
  BY DEF RecipeInv, WriteClaims
<1> QED
  BY <1>5, <1>6, <1>7, <1>8

\* A navigation of the recipe goes by the inquiry to the number asked for.
LEMMA NavigateKeeps ==
  ASSUME IInv, CoreTypeOK, DisplayInv, CoreInv, NavigateOnCore
  PROVE  CoreInv'
<1>1. /\ setup \in Setups /\ setup' = setup /\ pc = "navigate" /\ pc' \in {"navigated", "idle"}
      /\ number' = number
      /\ UNCHANGED << applied, foreign, inflight, baseline, cursor, nav >>
      /\ nav \in {1, 2, 3}
      /\ effectState \notin {"not_dispatched", "dispatching"}
      /\ effectState' \notin {"not_dispatched", "dispatching"}
      /\ HasRecipe
      /\ cursor = 4
  <2>1. cursor \in Steps /\ Kind[cursor] = "verified" /\ setup \in Setups /\ pc = "navigate"
    BY DEF IInv, PlaceInv, TypeOK, NavigateOnCore, VerifyNavigate, Checking
  <2>2. HasRecipe /\ cursor = 4 /\ NavLen = 3
    BY <2>1, TheCapabilities, CapabilityFacts DEF HasRecipe
  <2>3. nav \in {1, 2, 3}
    BY <2>2 DEF IInv, TypeOK, NavigateOnCore
  <2>4. effectState \in {"dispatched", "ambiguous"}
    BY <2>1 DEF IInv, EffectInv, Checking
  <2>5. effectState' \in {"dispatched", "ambiguous"}
    BY <2>4 DEF NavigateOnCore, VerifyNavigate, MutationAmbiguous
  <2>6. pc' \in {"navigated", "idle"}
    BY <2>1 DEF NavigateOnCore, VerifyNavigate, Proceed, Continue, MutationAmbiguous,
       Escalate,
                Return, Propagate, Definite
  <2> QED
    BY <2>1, <2>2, <2>3, <2>4, <2>5, <2>6 DEF NavigateOnCore, VerifyNavigate
<1>2. pc' = "idle" => result' = [status |-> "Escalated", code |-> "MUTATION_AMBIGUOUS"]
  BY <1>1 DEF NavigateOnCore, VerifyNavigate, Proceed, Continue, MutationAmbiguous,
     Escalate,
              Return, Propagate
<1>3. UNCHANGED << created, doc >>
  BY DEF NavigateOnCore, Makes, Click
<1>4. /\ wire' \in Requests \cup {Nothing}
      /\ wire' # wire /\ wire' # Nothing => wire'.route \in {"inquiry", "search"}
      /\ nav = 1 => wire' # Nothing /\ wire'.route = "inquiry"
      /\ nav = 2 => wire' = wire
      /\ nav = 3 => wire' # Nothing /\ wire'.route = "search" /\ wire'.number = number
  <2>1. \A route : route # None /\ Makes(route) =>
          /\ wire' \in Requests /\ wire' # Nothing
          /\ wire'.route = route
          /\ route = "search" => wire'.number = number
    BY ControlsFacts, CoreAssumption DEF Makes, Click
  <2>2. /\ setup.capability.navClick[1] = "inquiry"
        /\ setup.capability.navClick[2] = None
        /\ setup.capability.navClick[3] = "search"
    BY <1>1, TheCapabilities DEF Open
  <2>3. "inquiry" # None /\ "search" # None
    BY ReplayAssumption DEF Routes
  <2>4. CASE nav = 2
    BY <2>2, <2>4 DEF NavigateOnCore, Makes, CoreTypeOK
  <2>5. CASE nav \in {1, 3}
    BY <2>1, <2>2, <2>3, <2>5 DEF NavigateOnCore
  <2> QED
    BY <1>1, <2>4, <2>5
<1> USE <1>1, <1>2, <1>3, <1>4 DEF CoreInv
<1>5. StoreInv'
  BY DEF StoreInv, HasSubAccount
<1>6. AnswerInv'
  BY DEF AnswerInv, Answers
<1>7. RunInv'
  <2>1. Blocked' => cursor' >= 3
    OBVIOUS
  <2> QED
    BY <2>1, SetupConstant DEF RunInv, Before, After
<1>8. RecipeInv'
  BY DEF RecipeInv, OnInquiry, Coming, Searched
<1>9. WriteClaims'
  BY DEF WriteClaims
<1> QED
  BY <1>5, <1>6, <1>7, <1>8, <1>9

\* The consequential click is the one write of the run, and counts as carried out
\* where it opened the sub-account meant.
LEMMA CommitKeeps ==
  ASSUME IInv, CoreTypeOK, DisplayInv, CoreInv, CommitOnCore
  PROVE  CoreInv'
<1>1. /\ setup \in Setups /\ setup' = setup /\ pc = "commit"
      /\ number' = number
      /\ UNCHANGED << foreign, inflight, baseline, cursor, pending >>
      /\ applied = 0
      /\ pc' = "respond" \/ (pc' = "navigate" /\ nav' = 1)
      /\ effectState' = "dispatched"
      /\ doc' = doc
      /\ cursor = 4
  <2>1. cursor \in Steps /\ Kind[cursor] = "verified" /\ setup \in Setups /\ pc = "commit"
    BY DEF IInv, PlaceInv, TypeOK, CommitOnCore
  <2>2. HasRecipe /\ cursor = 4
    BY <2>1, TheCapabilities, CapabilityFacts DEF HasRecipe
  <2>3. /\ pc' = "respond" \/ (pc' = "navigate" /\ nav' = 1)
        /\ effectState' = "dispatched"
    BY DEF CommitOnCore, Commit, Definite, Continue, Refused, SurfaceFailure, Return
  <2>4. applied = 0
    BY <2>1 DEF IInv, EffectInv
  <2>5. doc' = doc
    BY CommitDisplays, Opened
  <2> QED
    BY <2>1, <2>2, <2>3, <2>4, <2>5 DEF CommitOnCore, Commit
<1>2. PICK r \in Requests : r.number = doc.number /\ r.number \in Member /\ OpenSubAccount(r)
  BY CommitDisplays
<1>3. /\ created' \in [Member -> {0, 1}]
      /\ \A m \in Member : created[m] = 1 => created'[m] = 1
      /\ wire' # Nothing /\ wire'.route \in Answers
      /\ wire'.route = "rejected" => created' = created
  <2>1. created \in [Member -> {0, 1}]
    BY DEF CoreTypeOK
  <2>2. wire'.route = "rejected" => \A m \in Member : created'[m] = created[m]
    BY <1>2, <2>1, Opened
  <2> QED
    BY <1>2, <2>1, <2>2, Opened
<1>5. /\ number \in Member /\ created'[number] # created[number] => applied' = 1
      /\ number \notin Member \/ created'[number] = created[number] => applied' = 0
  <2>1. applied' = IF HasSubAccount(number)' = HasSubAccount(number) THEN applied ELSE applied + 1
    BY DEF CommitOnCore
  <2>2. number \in Member => created[number] \in {0, 1} /\ created'[number] \in {0, 1}
    BY <1>3 DEF CoreTypeOK
  <2>3. CASE HasSubAccount(number)' = HasSubAccount(number)
    BY <1>1, <2>1, <2>2, <2>3 DEF HasSubAccount
  <2>4. CASE HasSubAccount(number)' # HasSubAccount(number)
    BY <1>1, <2>1, <2>2, <2>4 DEF HasSubAccount
  <2> QED
    BY <2>3, <2>4
<1>6. StoreInv'
  <2>1. number \in Member => created[number] \in {0, 1} /\ created'[number] \in {0, 1}
    BY <1>3 DEF CoreTypeOK
  <2>2. foreign <=> number \in Member /\ created[number] = 1
    BY <1>1, <2>1 DEF CoreInv, StoreInv, HasSubAccount
  <2>3. HasSubAccount(number)' <=> number \in Member /\ created'[number] = 1
    BY <1>1, <2>1 DEF HasSubAccount
  <2>4. /\ HasSubAccount(number)' <=> foreign \/ applied' > 0
        /\ applied' <= 1
        /\ foreign => applied' = 0
    BY <1>3, <1>5, <2>1, <2>2, <2>3
  <2> QED
    BY <1>1, <2>4 DEF CoreInv, StoreInv
<1>7. AnswerInv'
  <2>1. wire'.route = "rejected" => applied' = 0
    BY <1>3, <1>5
  <2>2. doc.page # "rejected"
    BY <1>1 DEF CoreInv, AnswerInv, IInv, EffectInv
  <2> QED
    BY <1>1, <1>3, <2>1, <2>2 DEF AnswerInv, Answers
<1> USE <1>1, <1>3, <1>5 DEF CoreInv
<1>8. RunInv' /\ RecipeInv' /\ WriteClaims'
  BY DEF RunInv, RecipeInv, WriteClaims, Before, After, Blocked
<1> QED
  BY <1>6, <1>7, <1>8

\* Where the effect is read, the browser shows the profile that was searched for,
\* and nothing is on its way.
LEMMA EffectOnDisplay ==
  ASSUME IInv, CoreTypeOK, CoreInv, pc \in {"baseline_effect", "effect"}
  PROVE  wire = Nothing /\ doc.number = number /\ doc.page = "profile"
<1>1. HasRecipe /\ doc.page = "profile"
  BY DEF CoreInv, RunInv
<1>2. CASE pc = "effect"
  BY <1>1, <1>2 DEF CoreInv, RecipeInv, Searched
<1>3. CASE pc = "baseline_effect"
  <2>1. cursor \in Steps /\ Kind[cursor] # "verified" /\ setup \in Setups
    BY <1>3 DEF IInv, PlaceInv, TypeOK, After
  <2>2. cursor \in {1, 2, 3}
    BY <1>1, <2>1, TheCapabilities
  <2> QED
    BY <1>1, <1>3, <2>2 DEF CoreInv, RunInv, OnInquiry, Searched, Before, After
<1> QED
  BY <1>2, <1>3

\* An answer brings the run where its request was to bring it.
LEMMA AnswerKeeps ==
  ASSUME IInv, CoreTypeOK, DisplayInv, CoreInv, Answer, pc # "start"
  PROVE  CoreInv'
<1> DEFINE n == wire.number
           s == RequestScenario(wire)
<1>1. /\ wire # Nothing /\ wire \in Requests /\ wire.route # "open"
      /\ UNCHANGED << number, applied, foreign, inflight, setup >>
      /\ UNCHANGED << coroutine, session, history >>
      /\ wire.route \in {"shell", "inquiry", "search", "profile", "ack", "form", "verify",
                         "verify_wrong"} \cup Answers
      /\ setup \in Setups
  BY DEF Answer, Serve, AtRest, NotByThisRun, CoreInv, AnswerInv, CoreTypeOK, Requests,
     Routes,
         IInv, TypeOK
<1>2. ServedAs(n, s)
  BY <1>1, Served DEF Answer
<1>3. /\ Document("blank", Nothing, Nothing).page = "blank"
      /\ Document("blank", Nothing, Nothing).number = Nothing
      /\ Request("inquiry", Nothing, Suffix(s)) # Nothing
      /\ Request("inquiry", Nothing, Suffix(s)).route = "inquiry"
  <2>1. "inquiry" \in Routes /\ Nothing \in Number \cup {Nothing} /\ Suffix(s) \in Query
    BY <1>1, ScenarioFacts DEF CoreTypeOK, Requests, RequestScenario, Routes
  <2> QED
    BY <2>1, RequestFacts DEF Document
<1> HIDE DEF n, s
<1>4. created' = created /\ HasRecipe' = HasRecipe
  BY <1>1, <1>2, SetupConstant DEF ServedAs
<1>10. pc \notin {"baseline_effect", "effect"}
  BY <1>1, EffectOnDisplay
<1> USE <1>1, <1>4, <1>10 DEF CoreInv
<1>5. StoreInv'
  BY DEF StoreInv, HasSubAccount
<1>6. AnswerInv'
  BY <1>2, <1>3 DEF AnswerInv, ServedAs, Forwards, Renders, ShowsProfile, Answers
<1>7. RunInv'
  <2>1. CASE cursor = 1
    BY <1>2, <1>3, <2>1 DEF RunInv, ServedAs, Renders, OnInquiry, Coming, Before, After,
       Blocked
  <2>2. CASE cursor = 2
    BY <1>2, <2>2 DEF RunInv, ServedAs, Renders, Forwards, ShowsProfile, OnInquiry,
       Coming, Searched, Before, After, Blocked, n
  <2>3. CASE cursor = 3
    BY <1>2, <2>3 DEF RunInv, ServedAs, Renders, Forwards, ShowsProfile, OnInquiry,
       Coming, Searched, Before, After, Blocked, n
  <2>4. CASE cursor \notin {1, 2, 3}
    BY <2>4 DEF RunInv, Before, After, Blocked
  <2> QED
    BY <2>1, <2>2, <2>3, <2>4
<1>8. RecipeInv'
  BY <1>2, <1>3 DEF RecipeInv, ServedAs, Forwards, Renders, ShowsProfile, OnInquiry, Coming,
     Searched, n
<1>9. WriteClaims'
  BY SetupConstant DEF WriteClaims, Writes
<1> QED
  BY <1>5, <1>6, <1>7, <1>8, <1>9

\* The run starts on the blank frame, with the store as it is.
LEMMA StartKeeps ==
  ASSUME IInv, CoreTypeOK, DisplayInv, CoreInv, StartOnShell
  PROVE  CoreInv'
<1>1. /\ pc = "start" /\ pc' = "scope"
      /\ UNCHANGED << number, applied, foreign, inflight, setup, locals, cursor, pause, effect >>
  BY StartDisplays DEF StartOnShell, Start
<1>2. /\ created' = created
      /\ wire' # Nothing /\ wire'.route = "shell"
      /\ doc'.page = "blank"
  BY StartDisplays
<1>3. cursor = 1
  BY <1>1 DEF CoreInv, RunInv
<1> USE <1>1, <1>2, <1>3 DEF CoreInv
<1>4. StoreInv'
  BY DEF StoreInv, HasSubAccount
<1>5. AnswerInv'
  BY DEF AnswerInv, Answers
<1>6. RunInv'
  BY DEF RunInv, Coming, Before, After, Blocked
<1>7. RecipeInv' /\ WriteClaims'
  BY DEF RecipeInv, WriteClaims
<1> QED
  BY <1>4, <1>5, <1>6, <1>7

\* Before the run, the store may be anything, and the run will find it so.
LEMMA BeforeKeeps ==
  ASSUME IInv, CoreTypeOK, DisplayInv, CoreInv, AtRest, pc = "start"
  PROVE  CoreInv' /\ foreign' \in BOOLEAN /\ baseline = "unknown"
<1>1. /\ UNCHANGED << pc, number, applied, inflight, setup, locals, cursor, pause, effect >>
      /\ foreign' = HasSubAccount(number)'
      /\ applied = 0
      /\ baseline = "unknown"
      /\ ~inflight
  BY DEF AtRest, NotByThisRun, CoreInv, StoreInv, IInv, EffectInv
<1>2. foreign' \in BOOLEAN
  <2>1. foreign' <=> HasSubAccount(number)'
    BY <1>1
  <2> QED
    BY <1>1 DEF HasSubAccount
<1>3. StoreInv'
  BY <1>1 DEF CoreInv, StoreInv
<1>4. AnswerInv' /\ RecipeInv' /\ WriteClaims'
  BY <1>1, SetupConstant DEF AnswerInv, RecipeInv, WriteClaims
<1>5. RunInv'
  <2>1. cursor' = 1 /\ pc' = "start" /\ Blocked' = Blocked
    BY <1>1 DEF CoreInv, RunInv, Blocked
  <2> QED
    BY <2>1 DEF CoreInv, RunInv, Before, After
<1> QED
  BY <1>1, <1>2, <1>3, <1>4, <1>5 DEF CoreInv

-----------------------------------------------------------------------------
(* The invariant of a replay on the demo application *)

\* The steps of the specification, one lemma for each kind.
LEMMA LookStep == LInv /\ Look => LInv'
<1> SUFFICES ASSUME LInv, Look PROVE LInv'
  OBVIOUS
<1>1. IInv' /\ Calm
  BY SessionStep, CalmSteps DEF LInv, Session
<1>2. pc # "start"
  BY DEF Look, CheckScope, CheckDialog, RecheckScope, Resolve, BaselineView, BaselineEffect,
         FinishScope, FinishSuccess, Respond, VerifyScope, VerifyDialog, VerifyView,
         VerifyEffect, VerifyExtract, VerifySuccess, Reconcile, AssessScope, PollDialog,
         PollCheckpoint
<1>3. CoreTypeOK' /\ DisplayInv'
  BY <1>1, <1>2, CalmDisplays DEF LInv
<1>4. Waited
  BY DEF Look, Waited
<1>5. Still
  BY <1>1 DEF Look, Calm, Still, Displays, LInv, CoreTypeOK
<1>6. CoreInv'
  <2>1. CheckScope \/ CheckDialog \/ RecheckScope \/ Resolve => CoreInv'
    BY <1>4, <1>5, CheckScopeKeeps, CheckDialogKeeps, RecheckScopeKeeps, ResolveKeeps
  <2>2. BaselineView \/ BaselineEffect \/ FinishScope \/ FinishSuccess => CoreInv'
    BY <1>4, <1>5, BaselineViewKeeps, BaselineEffectKeeps, FinishScopeKeeps,
       FinishSuccessKeeps
  <2>3. Respond \/ VerifyScope \/ VerifyDialog \/ VerifyView => CoreInv'
    BY <1>4, <1>5, RespondKeeps, VerifyScopeKeeps, VerifyDialogKeeps, VerifyViewKeeps
  <2>4. VerifyEffect \/ VerifyExtract \/ VerifySuccess => CoreInv'
    BY <1>4, <1>5, VerifyEffectKeeps, VerifyExtractKeeps, VerifySuccessKeeps
  <2>5. Reconcile => CoreInv'
    BY <1>4, <1>5, AssessScopeKeeps, PollDialogKeeps, PollCheckpointKeeps DEF Reconcile
  <2> QED
    BY <2>1, <2>2, <2>3, <2>4, <2>5 DEF Look
<1> QED
  BY <1>1, <1>3, <1>6 DEF LInv

LEMMA OperateStep == LInv /\ OperateOnCore => LInv'
<1> SUFFICES ASSUME LInv, OperateOnCore PROVE LInv'
  OBVIOUS
<1>1. IInv' /\ Calm
  BY SessionStep, CalmSteps DEF LInv
<1>2. pc # "start"
  BY DEF OperateOnCore, TakeControl, ResumeAmbiguous, ResumeBlocked, Perform
<1>3. CoreTypeOK' /\ DisplayInv'
  BY <1>1, <1>2, CalmDisplays DEF LInv
<1>4. CASE UNCHANGED core /\ Displays /\ (TakeControl \/ ResumeAmbiguous \/ ResumeBlocked)
  <2>1. Still
    BY <1>1, <1>4 DEF Calm, Still, Displays, LInv, CoreTypeOK
  <2>2. CoreInv'
    BY <1>4, <2>1, TakeControlKeeps, ResumeAmbiguousKeeps, ResumeBlockedKeeps DEF LInv
  <2> QED
    BY <1>1, <1>3, <2>2 DEF LInv
<1>5. CASE (\E r \in Controls : r.route # "open" /\ Click(r)) /\ Perform
  BY <1>1, <1>3, <1>5, PerformKeeps DEF LInv, OperateOnCore
<1> QED
  BY <1>4, <1>5 DEF OperateOnCore

LEMMA ClickStep == LInv /\ (ExecuteOnCore \/ NavigateOnCore \/ CommitOnCore) => LInv'
<1> SUFFICES ASSUME LInv, ExecuteOnCore \/ NavigateOnCore \/ CommitOnCore PROVE LInv'
  OBVIOUS
<1>1. IInv'
  BY SessionStep DEF LInv, Session
<1>2. CASE ExecuteOnCore
  <2>1. pc # "start" /\ Calm
    BY <1>2, CalmSteps DEF LInv, ExecuteOnCore
  <2> QED
    BY <1>1, <1>2, <2>1, CalmDisplays, ExecuteKeeps DEF LInv
<1>3. CASE NavigateOnCore
  <2>1. pc # "start" /\ Calm
    BY <1>3, CalmSteps DEF LInv, NavigateOnCore
  <2> QED
    BY <1>1, <1>3, <2>1, CalmDisplays, NavigateKeeps DEF LInv
<1>4. CASE CommitOnCore
  BY <1>1, <1>4, CommitDisplays, CommitKeeps DEF LInv
<1> QED
  BY <1>2, <1>3, <1>4

LEMMA AnswerStep == LInv /\ Answer => LInv'
<1> SUFFICES ASSUME LInv, Answer PROVE LInv'
  OBVIOUS
<1>1. AtRest /\ number' = number
  BY DEF Answer
<1>2. CASE pc = "start"
  <2>1. CoreTypeOK' /\ DisplayInv'
    BY <1>2, AnswerDisplays, TellerWrites DEF LInv
  <2>2. CoreInv' /\ foreign' \in BOOLEAN /\ baseline = "unknown"
    BY <1>1, <1>2, BeforeKeeps DEF LInv
  <2>3. IInv'
    BY <1>1, <1>2, <2>1, <2>2, RestStep DEF LInv, CoreTypeOK, Documents
  <2> QED
    BY <2>1, <2>2, <2>3 DEF LInv
<1>3. CASE pc # "start"
  <2>1. wire # Nothing /\ wire.route # "open"
    BY <1>3 DEF Answer, Serve, LInv, CoreInv, AnswerInv
  <2>2. CoreTypeOK' /\ DisplayInv'
    BY <2>1, AnswerDisplays DEF LInv
  <2>3. CoreInv'
    BY <1>3, AnswerKeeps DEF LInv
  <2>4. pc \notin {"baseline_effect", "effect"}
    BY <2>1, EffectOnDisplay DEF LInv
  <2>5. foreign' = foreign /\ foreign \in BOOLEAN
    BY <1>1, <1>3 DEF AtRest, NotByThisRun, LInv, IInv, TypeOK
  <2>6. pc = "respond" /\ doc'.page \in Outcome[cursor] => applied = 0 /\ ~inflight
    <3> SUFFICES ASSUME pc = "respond", doc'.page \in Outcome[cursor]
                 PROVE  applied = 0 /\ ~inflight
      OBVIOUS
    <3>1. cursor \in Steps /\ Kind[cursor] = "verified" /\ setup \in Setups
      BY DEF LInv, IInv, PlaceInv, TypeOK
    <3>2. Outcome[cursor] = {"rejected"}
      BY <3>1, TheCapabilities, CapabilityFacts DEF HasRecipe
    <3>3. UNCHANGED << pc, applied, inflight >>
      BY <1>1 DEF AtRest
    <3> QED
      BY <2>3, <3>2, <3>3 DEF CoreInv, StoreInv, AnswerInv
  <2>7. IInv'
    BY <1>1, <2>2, <2>4, <2>5, <2>6, RestStep DEF LInv, CoreTypeOK, Documents
  <2> QED
    BY <2>2, <2>3, <2>7 DEF LInv
<1> QED
  BY <1>2, <1>3

LEMMA TellerStep == LInv /\ Teller => LInv'
<1> SUFFICES ASSUME LInv, Teller PROVE LInv'
  OBVIOUS
<1>1. AtRest /\ number' = number /\ pc = "start"
  BY DEF Teller
<1>2. CoreTypeOK' /\ DisplayInv'
  BY TellerDisplays DEF LInv
<1>3. CoreInv' /\ foreign' \in BOOLEAN /\ baseline = "unknown"
  BY <1>1, BeforeKeeps DEF LInv
<1>4. IInv'
  BY <1>1, <1>2, <1>3, RestStep DEF LInv, CoreTypeOK, Documents
<1> QED
  BY <1>2, <1>3, <1>4 DEF LInv

LEMMA StartOnShellStep == LInv /\ StartOnShell => LInv'
  BY SessionStep, StartDisplays, StartKeeps DEF LInv

LEMMA LegacyInitInv == LegacyInit => LInv
<1> SUFFICES ASSUME LegacyInit PROVE LInv
  OBVIOUS
<1>1. IInv
  BY InitInv DEF LegacyInit
<1>2. PICK query \in Query : wire = Request("shell", Nothing, query)
  BY DEF LegacyInit, CoreInit
<1>3. /\ Document("blank", Nothing, Nothing) \in Documents
      /\ Document("blank", Nothing, Nothing).page = "blank"
      /\ Document("blank", Nothing, Nothing).number = Nothing
      /\ ~Document("blank", Nothing, Nothing).dialog
  BY DocumentFacts DEF PageKinds, Query
<1>4. wire \in Requests /\ wire.route = "shell"
  <2>1. "shell" \in Routes /\ Nothing \in Number \cup {Nothing}
    BY DEF Routes
  <2> QED
    BY <1>2, <2>1, RequestFacts
<1>5. CoreTypeOK
  BY <1>3, <1>4 DEF LegacyInit, CoreInit, CoreTypeOK, Query
<1>6. DisplayInv
  BY <1>3, <1>4 DEF LegacyInit, CoreInit, DisplayInv, Answers
<1>7. CoreInv
  BY DEF LegacyInit, CoreInit, Init, CoreInv, StoreInv, AnswerInv, RunInv, RecipeInv,
     WriteClaims,
         HasSubAccount, Before, After, Blocked
<1> QED
  BY <1>1, <1>5, <1>6, <1>7 DEF LInv

LEMMA LegacyStutter == LInv /\ UNCHANGED allvars => LInv'
<1> SUFFICES ASSUME LInv, UNCHANGED allvars PROVE LInv'
  OBVIOUS
<1>1. UNCHANGED vars /\ UNCHANGED core /\ number' = number
  BY DEF allvars, vars
<1>2. IInv'
  BY <1>1, StutterStep DEF LInv
<1>3. CoreTypeOK' /\ DisplayInv'
  BY <1>1 DEF LInv, CoreTypeOK, DisplayInv, vars
<1>4. setup' = setup
  BY <1>1 DEF vars
<1>5. CoreInv'
  BY <1>1, <1>4, SetupConstant DEF vars, LInv, CoreInv, StoreInv, AnswerInv, RunInv,
     RecipeInv,
     WriteClaims, HasSubAccount, OnInquiry, Coming, Searched, Blocked, Writes
<1> QED
  BY <1>2, <1>3, <1>5 DEF LInv

\* The inductive invariant holds of every replay on the demo application: the
\* session, the store and the documents on display agree at every await.
THEOREM LegacyInvariance == LegacySpec => []LInv
<1>1. LInv /\ [LegacyNext]_allvars => LInv'
  BY LookStep, OperateStep, ClickStep, AnswerStep, TellerStep, StartOnShellStep,
     LegacyStutter
  DEF LegacyNext, Session
<1> QED
  BY LegacyInitInv, <1>1, PTL DEF LegacySpec

\* The effect is judged on the member's own page as the store is now, whatever
\* was shown before and however long the answers took.
THEOREM EffectReadsAreFresh == LegacySpec => []ReadsAreFresh
<1>1. LInv => ReadsAreFresh
  BY EffectOnDisplay DEF LInv, DisplayInv, ReadsAreFresh
<1> QED
  BY LegacyInvariance, <1>1, PTL

\* A Success of the write opened exactly one sub-account at the number asked for,
\* MUTATION_NOT_COMMITTED none, whatever an operator does in between.
THEOREM ClaimsAreTrue == LegacySpec => []ClaimsMatchCore
<1>1. LInv => ClaimsMatchCore
  <2> SUFFICES ASSUME LInv, pc = "idle", Writes
               PROVE  /\ result.status = "Success" =>
                           applied = 1 /\ ~foreign /\ created[number] = 1
                      /\ result.code = "MUTATION_NOT_COMMITTED" => ~HasSubAccount(number)
    BY DEF ClaimsMatchCore
  <2>1. result.status = "Success" => applied = 1
    BY DEF LInv, CoreInv, WriteClaims
  <2>2. result.code = "MUTATION_NOT_COMMITTED" => applied = 0 /\ ~foreign
    BY DEF LInv, CoreInv, WriteClaims
  <2>3. /\ HasSubAccount(number) <=> foreign \/ applied > 0
        /\ foreign => applied = 0
    BY DEF LInv, CoreInv, StoreInv
  <2>4. HasSubAccount(number) => created[number] = 1
    BY DEF LInv, CoreTypeOK, HasSubAccount
  <2> QED
    BY <2>1, <2>2, <2>3, <2>4
<1> QED
  BY LegacyInvariance, <1>1, PTL

-----------------------------------------------------------------------------
(* Rejections, in a run no human touches *)

\* Every step keeps the lease or hands control over under the next epoch.
LEMMA LeaseMoves ==
  ASSUME LInv, LegacyNext
  PROVE  UNCHANGED lease \/ epoch' = epoch + 1
<1>1. Teller \/ StartOnShell \/ ExecuteOnCore \/ CommitOnCore \/ Answer => UNCHANGED lease
  BY DEF Teller, AtRest, StartOnShell, Start, ExecuteOnCore, Execute, CommitOnCore,
     Commit, Answer
<1>2. NavigateOnCore => UNCHANGED lease \/ epoch' = epoch + 1
  BY DEF NavigateOnCore, VerifyNavigate, Proceed, MutationAmbiguous, Propagate, ToHuman
<1>3. OperateOnCore => UNCHANGED lease \/ epoch' = epoch + 1
  BY DEF OperateOnCore, TakeControl, Perform, ResumeAmbiguous, ResumeBlocked, HandBack,
     ToHuman,
         ToAutomation, FailClosed, KeepControl
<1>4. Look => UNCHANGED lease \/ epoch' = epoch + 1
  <2>1. CheckScope \/ CheckDialog \/ RecheckScope \/ Resolve \/ BaselineView \/ BaselineEffect
        \/ FinishScope \/ FinishSuccess \/ Respond => UNCHANGED lease
    BY DEF CheckScope, CheckDialog, RecheckScope, Resolve, BaselineView, BaselineEffect,
           FinishScope, FinishSuccess, Respond
  <2>2. VerifyScope \/ VerifyDialog \/ VerifyView \/ VerifyEffect \/ VerifyExtract
        \/ VerifySuccess => UNCHANGED lease \/ epoch' = epoch + 1
    BY DEF VerifyScope, VerifyDialog, VerifyView, VerifyEffect, VerifyExtract,
       VerifySuccess,
           Proceed, MutationAmbiguous, Conclude, Propagate, ToHuman
  <2>3. Reconcile => UNCHANGED lease \/ epoch' = epoch + 1
    BY DEF Reconcile, AssessScope, PollDialog, PollCheckpoint, PollAgain, FailClosed,
       HandBack,
           ToAutomation, KeepControl
  <2> QED
    BY <2>1, <2>2, <2>3 DEF Look
<1> QED
  BY <1>1, <1>2, <1>3, <1>4 DEF LegacyNext, Session

\* While automation advances, the browser is on the member's pages; a rejection
\* it shows is of the number asked for, which had the sub-account already.
RecordInv ==
  /\ pc \in (Before \ {"start"}) \cup After \cup {"respond"} =>
       /\ doc.number \in {Nothing, number}
       /\ wire # Nothing => wire.number \in {Nothing, number}
  /\ pc = "respond" /\ (doc.page = "rejected" \/ Coming("rejected")) => foreign
  /\ pc = "idle" /\ Writes /\ result.code = "declared" => foreign

\* Until control first changes hands.
Alone == epoch = 0 => owner = "automation" /\ RecordInv

\* Each kind of step keeps the run with its member.
LEMMA RecordLook ==
  ASSUME LInv, RecordInv, Look, owner = "automation"
  PROVE  RecordInv'
<1>1. /\ setup \in Setups /\ setup' = setup /\ UNCHANGED << core, number, foreign >>
      /\ HasRecipe' = HasRecipe
  BY CalmSteps, SetupConstant DEF LInv, IInv, TypeOK, Look, Calm
<1>2. /\ pc' \in (Before \ {"start"}) \cup After \cup {"respond"} =>
           pc \in (Before \ {"start"}) \cup After \cup {"respond"}
      /\ pc' # "respond"
      /\ pc' = "idle" /\ HasRecipe /\ result'.code = "declared" =>
           pc = "respond" /\ page \in Outcome[4]
  <2> USE DEF Before, After
  <2>1. CASE CheckScope \/ CheckDialog \/ RecheckScope
    BY <2>1, ReplayAssumption DEF CheckScope, CheckDialog, RecheckScope, Return, Continue,
       SurfaceFailure, ScopeDenied, Escalate
  <2>2. CASE Resolve
    <3>1. HasRecipe => Outcome[cursor] = {}
      BY <1>1, <2>2, TheCapabilities DEF Resolve, LInv, IInv, PlaceInv
    <3> QED
      BY <2>2, <3>1 DEF Resolve, Return, Continue, SurfaceFailure
  <2>3. CASE BaselineView \/ BaselineEffect \/ FinishScope
    BY <2>3 DEF BaselineView, BaselineEffect, FinishScope, Return, Continue, SurfaceFailure,
       ScopeDenied
  <2>4. CASE FinishSuccess
    BY <2>4, ReplayAssumption DEF FinishSuccess, Return, SurfaceFailure
  <2>5. CASE Respond
    <3>1. cursor \in Steps /\ Kind[cursor] = "verified"
      BY <2>5 DEF Respond, LInv, IInv, PlaceInv
    <3>2. cursor = 4
      BY <1>1, <3>1, TheCapabilities, CapabilityFacts DEF HasRecipe
    <3> QED
      BY <2>5, <3>2 DEF Respond, Return, Continue
  <2>6. CASE VerifyScope \/ VerifyDialog \/ VerifyView
    BY <2>6 DEF VerifyScope, VerifyDialog, VerifyView, Proceed, Continue, MutationAmbiguous,
       Escalate, Return
  <2>7. CASE VerifyEffect \/ VerifyExtract
    BY <2>7 DEF VerifyEffect, VerifyExtract, Proceed, Continue, MutationAmbiguous, Escalate,
       Return, Conclude, Propagate
  <2>8. CASE VerifySuccess
    BY <2>8, ReplayAssumption DEF VerifySuccess, Conclude, Return, SurfaceFailure, Propagate
  <2>9. ~Reconcile
    BY DEF Reconcile, AssessScope, PollDialog, PollCheckpoint, LInv, IInv, DriverInv, Judging
  <2> QED
    BY <2>1, <2>2, <2>3, <2>4, <2>5, <2>6, <2>7, <2>8, <2>9 DEF Look
<1>5. HasRecipe => Outcome[4] = {"rejected"}
  BY <1>1, TheCapabilities
<1> QED
  BY <1>1, <1>2, <1>5 DEF RecordInv, Writes, Coming, LInv, CoreTypeOK

LEMMA RecordExecute ==
  ASSUME LInv, RecordInv, ExecuteOnCore
  PROVE  RecordInv'
<1>1. /\ pc = "execute" /\ pc' = "rescope" /\ UNCHANGED << number, doc >>
  BY DEF ExecuteOnCore, Execute, Definite, Makes, Click
<1>2. wire' = wire \/ wire'.number \in {Nothing, number}
  <2> DEFINE route == setup.capability.click[cursor]
  <2>1. CASE route = None
    BY <2>1 DEF ExecuteOnCore, Makes
  <2>2. CASE route # None
    <3>1. PICK r \in Controls : /\ r.route = route
                                /\ route = "search" => r.number = number
                                /\ Click(r)
      BY <2>2 DEF ExecuteOnCore, Makes
    <3>2. route \in {None, "search", "form"}
      BY <1>1, ExecuteAsks DEF LInv
    <3>3. wire' = r
      BY <3>1 DEF Click
    <3>4. doc.number \in {Nothing, number}
      BY <1>1 DEF RecordInv, Before
    <3> QED
      BY <2>2, <3>1, <3>2, <3>3, <3>4, ControlsFacts DEF LInv
  <2> QED
    BY <2>1, <2>2
<1> QED
  BY <1>1, <1>2 DEF RecordInv, Before, After

\* The click that asks for the write asks for it at the number on display.
LEMMA RecordCommit ==
  ASSUME LInv, RecordInv, CommitOnCore
  PROVE  RecordInv'
<1>1. /\ pc = "commit" /\ UNCHANGED << number, foreign >> /\ applied = 0
      /\ pc' = "respond" \/ pc' = "navigate"
  BY DEF CommitOnCore, Commit, Definite, Continue, Refused, SurfaceFailure, Return, LInv,
     IInv,
         EffectInv
<1>2. PICK r \in Requests : r.number = doc.number /\ r.number \in Member /\ OpenSubAccount(r)
  BY CommitDisplays DEF LInv
<1>3. /\ wire' # Nothing /\ wire'.number = doc.number /\ doc' = doc
      /\ wire'.route = "rejected" <=> created[doc.number] = 1
  BY <1>2, Opened DEF LInv
<1>4. doc.number = number
  BY <1>1, <1>2, CoreAssumption DEF RecordInv, Before
<1>5. wire'.route = "rejected" => foreign
  BY <1>1, <1>2, <1>3, <1>4 DEF LInv, CoreInv, StoreInv, HasSubAccount
<1>6. doc.page # "rejected"
  BY <1>1 DEF LInv, IInv, EffectInv, CoreInv, AnswerInv
<1> QED
  BY <1>1, <1>3, <1>4, <1>5, <1>6 DEF RecordInv, Coming, Before, After

LEMMA RecordAnswer ==
  ASSUME LInv, RecordInv, Answer
  PROVE  RecordInv'
<1> DEFINE n == wire.number
           s == RequestScenario(wire)
<1>1. /\ wire # Nothing /\ UNCHANGED << number, setup, coroutine, session >> /\ AtRest
  BY DEF Answer, Serve, AtRest
<1>2. CASE pc = "start"
  BY <1>1, <1>2 DEF RecordInv, Before, After
<1>3. CASE pc # "start"
  <2>1. wire.route # "open" /\ foreign' = foreign
    BY <1>1, <1>3 DEF LInv, CoreInv, AnswerInv, AtRest, NotByThisRun
  <2>2. ServedAs(n, s)
    BY <1>1, <2>1, Served DEF Answer, LInv
  <2>3. wire.route \in {"shell", "inquiry", "search", "profile", "ack", "form", "verify",
                        "verify_wrong"} \cup Answers
    BY <1>1, <2>1 DEF LInv, CoreTypeOK, Requests, Routes
  <2>4. /\ Document("blank", Nothing, Nothing).page = "blank"
        /\ Document("blank", Nothing, Nothing).number = Nothing
        /\ Request("inquiry", Nothing, Suffix(s)).number = Nothing
        /\ Request("inquiry", Nothing, Suffix(s)).route = "inquiry"
    BY DEF Document, Request
  <2> HIDE DEF n, s
  <2>5. doc' = doc \/ doc'.number \in {n, Nothing}
    BY <2>2, <2>3, <2>4 DEF ServedAs, Forwards, Renders, ShowsProfile
  <2>6. wire' # Nothing => wire'.number \in {n, Nothing} /\ wire'.route # "rejected"
    BY <2>2, <2>3, <2>4 DEF ServedAs, Forwards, Renders, ShowsProfile
  <2>7. doc'.page = "rejected" => doc.page = "rejected" \/ wire.route = "rejected"
    BY <2>2, <2>3, <2>4 DEF ServedAs, Forwards, Renders, ShowsProfile, Answers
  <2>8. HasRecipe' = HasRecipe
    BY <1>1, SetupConstant
  <2> QED
    BY <1>1, <2>1, <2>5, <2>6, <2>7, <2>8 DEF RecordInv, Coming, Writes, n
<1> QED
  BY <1>2, <1>3

LEMMA RecordStep ==
  ASSUME LInv, RecordInv, LegacyNext, owner = "automation"
  PROVE  RecordInv'
<1>1. setup \in Setups
  BY DEF LInv, IInv, TypeOK
<1>2. CASE Look
  BY <1>2, RecordLook
<1>3. CASE ExecuteOnCore \/ CommitOnCore
  BY <1>3, RecordExecute, RecordCommit
<1>4. CASE NavigateOnCore
  <2>1. pc' = "navigated" \/ (pc' = "idle" /\ result'.code = "MUTATION_AMBIGUOUS")
    BY <1>4 DEF NavigateOnCore, VerifyNavigate, Proceed, Continue, MutationAmbiguous,
       Escalate,
                Return, Propagate, Definite
  <2> QED
    BY <2>1 DEF RecordInv, Before, After
<1>5. CASE OperateOnCore
  <2>1. /\ UNCHANGED << foreign, setup >> /\ pc = "idle"
        /\ pc' \in {"idle", "navigate", "assess"}
        /\ pc' = "idle" => result' = result \/ result'.code \in {None, "CHECKPOINT_FAILED"}
    BY <1>5 DEF OperateOnCore, TakeControl, Perform, ResumeAmbiguous, ResumeBlocked,
       FailClosed,
                Continue, Return
  <2>2. HasRecipe' = HasRecipe
    BY <2>1, SetupConstant
  <2> QED
    BY <2>1, <2>2, ReplayAssumption DEF RecordInv, Writes, Before, After
<1>6. CASE Answer
  BY <1>6, RecordAnswer
<1>7. CASE Teller
  <2>1. pc = "start" /\ pc' = "start"
    BY <1>7 DEF Teller, AtRest
  <2> QED
    BY <2>1 DEF RecordInv, Before, After
<1>8. CASE StartOnShell
  <2>1. pc' = "scope" /\ doc'.number = Nothing /\ wire' # Nothing /\ wire'.number = Nothing
    BY <1>8, StartDisplays DEF LInv
  <2> QED
    BY <2>1 DEF RecordInv, Before, After
<1> QED
  BY <1>2, <1>3, <1>4, <1>5, <1>6, <1>7, <1>8 DEF LegacyNext, Session

\* Whatever a human does, a Success and a MUTATION_NOT_COMMITTED are true of the
\* store; until control first changes hands, a declared rejection is too (after
\* a takeover automation may be on another member's pages, and be told of his
\* sub-account: session.py:759, 839).
THEOREM VerdictsAreTrue ==
  LegacySpec => [](ClaimsMatchCore /\ (epoch = 0 => VerdictMatchesCore))
<1>1. LegacyInit => Alone
  BY DEF LegacyInit, Init, LeaseInit, Alone, RecordInv, Before, After
<1>2. LInv /\ Alone /\ [LegacyNext]_allvars => Alone'
  <2> SUFFICES ASSUME LInv, Alone, [LegacyNext]_allvars, epoch' = 0
               PROVE  owner' = "automation" /\ RecordInv'
    BY DEF Alone
  <2>1. CASE UNCHANGED allvars
    BY <2>1, SetupConstant DEF allvars, vars, lease, Alone, RecordInv, Coming, Writes
  <2>2. CASE LegacyNext
    <3>1. UNCHANGED lease
      BY <2>2, LeaseMoves DEF LInv, IInv, TypeOK, LeaseTypeOK
    <3>2. owner = "automation" /\ RecordInv
      BY <3>1 DEF lease, Alone
    <3> QED
      BY <2>2, <3>1, <3>2, RecordStep DEF lease
  <2> QED
    BY <2>1, <2>2
<1>3. LInv /\ Alone => (epoch = 0 => RejectionMatchesCore)
  BY DEF LInv, CoreInv, WriteClaims, StoreInv, CoreTypeOK, HasSubAccount, Alone, RecordInv,
         RejectionMatchesCore
<1>4. LegacySpec => [](epoch = 0 => RejectionMatchesCore)
  BY LegacyInvariance, <1>1, <1>2, <1>3, PTL DEF LegacySpec
<1> QED
  BY ClaimsAreTrue, <1>4, PTL DEF VerdictMatchesCore

-----------------------------------------------------------------------------
(* A run no human touches *)

\* Nobody took the session, and the browser was told to load the shell.
Unaided == epoch = 0 /\ pc # "start"

\* The scenario the shell was loaded with is that of every request and document.
WorldInv ==
  /\ owner = "automation"
  /\ verifiedCookie = Nothing
  /\ wire # Nothing => wire.route \notin {"ack", "verify", "verify_wrong"}
  /\ Coming("shell") => pc = "scope" /\ cursor = 1 /\ scenarioCookie = Nothing
  /\ ~Coming("shell") =>
       /\ shell = Suffix(World)
       /\ wire # Nothing => wire.query = Suffix(World)
       /\ doc.page # "blank" => doc.query = Suffix(World)

\* What a search for the number ends in.
SearchPage == IF Found(number, World) THEN ProfilePage(number, World) ELSE "not_found"

SearchDialog ==
  SearchPage = "profile" /\ (World = "unexpected_dialog" \/ VerificationDialog(number, World))

SearchShown ==
  /\ wire = Nothing
  /\ doc.page = SearchPage
  /\ doc.number = number
  /\ doc.dialog <=> SearchDialog

ProfileComing ==
  /\ doc.page = "inquiry"
  /\ Coming("profile")
  /\ wire.number = number
  /\ Found(number, World)

SearchComing == doc.page = "inquiry" /\ Coming("search") /\ wire.number = number

\* After wait_settled a profile is still on its way only where it is slow.
SearchSettled == SearchShown \/ (ProfileComing /\ World = "slow")

\* Nothing keeps the run from the member's profile, as the store was when it began.
Cleared ==
  /\ number \in Member
  /\ World \notin {"not_found", "session_expired", "permission_denied",
                   "verification_required", "unexpected_dialog"}
  /\ foreign => World # "commit_unverifiable"
  /\ foreign /\ World = "verification_dialog" => number \in acknowledged

FormShown == wire = Nothing /\ doc.page = "form" /\ doc.number = number

\* What the run found so far.
StageInv ==
  /\ ~HasRecipe => applied = 0
  /\ cursor = 2 /\ pc = "rescope" => (SearchComing \/ ProfileComing \/ SearchShown)
  /\ cursor = 2 /\ pc = "resolve" => SearchSettled
  /\ cursor = 2 /\ pc \in {"baseline", "baseline_effect"} => SearchShown /\ doc.page = "profile"
  /\ cursor = 3 /\ pc \in Before => SearchShown /\ doc.page = "profile"
  /\ cursor = 3 /\ pc = "execute" => ~doc.dialog
  /\ (cursor = 3 /\ pc \in After) \/ (cursor = 4 /\ pc # "idle") => Cleared
  /\ HasRecipe /\ cursor = 3 /\ pc = "rescope" =>
       FormShown \/ (Coming("form") /\ wire.number = number)
  /\ HasRecipe /\ cursor = 3 /\ pc \in After \ {"rescope"} => FormShown
  /\ HasRecipe /\ cursor = 4 /\ pc \in Before => FormShown
  /\ HasRecipe /\ cursor \in {3, 4} => baseline = IF foreign THEN "present" ELSE "absent"
  /\ ~HasRecipe /\ ((cursor = 3 /\ pc \in After) \/ cursor = 4) => haveOutput

\* What the application made of the write, and what its verification sees of it.
OutcomeInv ==
  /\ pc \in {"respond"} \cup Checking =>
       applied = IF foreign \/ World = "commit_dropped" THEN 0 ELSE 1
  /\ pc = "respond" =>
       /\ wire = Nothing => (doc.page = "rejected" <=> foreign)
       /\ wire # Nothing =>
            wire.route \in Answers \ {"held"} /\ (wire.route = "rejected" <=> foreign)
  /\ pc \in Checking => ~foreign
  /\ pc = "navigated" /\ nav = 3 => (SearchComing \/ ProfileComing \/ SearchShown)
  /\ pc = "navigate" /\ nav = 4 => SearchSettled
  /\ pc \in {"view", "effect"} => SearchSettled /\ ~VerificationDialog(number, World)
  /\ pc \in {"extract", "checkpoint"} =>
       World # "commit_unverifiable" /\ ~VerificationDialog(number, World)
  /\ pc = "checkpoint" => haveOutput

Classified ==
  pc = "idle" =>
    /\ result.code \in IF Writes THEN WriteVerdict ELSE LookupVerdict
    /\ (result.code = None) = (result.status = "Success")

ScenarioInv == Unaided => WorldInv /\ StageInv /\ OutcomeInv /\ Classified

\* The premises of the tabulated verdicts: the allowlist covers the demo's pages,
\* and an effect the application does not show is not there.
AsTabulated == InScope = Page /\ Authority = {TRUE}

\* The links of the scenario's own documents ask for that scenario.
LEMMA WorldFacts ==
  ASSUME CoreTypeOK
  PROVE  /\ World \in Scenario
         /\ Suffix(World) \in Query
         /\ ResolveScenario(Suffix(World), scenarioCookie) = World
<1>1. World \in Scenario
  BY DEF World, ResolveScenario, Scenario
<1>2. CASE World = "normal"
  BY <1>1, <1>2 DEF World, Suffix, ResolveScenario, Query
<1>3. CASE World # "normal"
  BY <1>1, <1>3, CoreAssumption DEF Suffix, ResolveScenario, Query
<1> QED
  BY <1>1, <1>2, <1>3

\* While nothing was carried out yet, the sub-account is there if it was before.
LEMMA NotYet ==
  ASSUME LInv, applied = 0
  PROVE  HasSubAccount(number) <=> foreign
  BY DEF LInv, CoreInv, StoreInv

\* Nothing kept a run from the profile, and nothing was carried out: no verdict
\* but success is due yet.
LEMMA ClearedVerdict ==
  ASSUME LInv, applied = 0, Cleared
  PROVE  LookupVerdict = {None}
  BY NotYet DEF LookupVerdict, Cleared, VerificationDialog

\* The profile the search ended in is the member's; its dialog is an unmodeled one,
\* and without it nothing keeps the run from it.
LEMMA ProfileVerdict ==
  ASSUME LInv, applied = 0, verifiedCookie = Nothing, SearchShown, doc.page = "profile"
  PROVE  /\ doc.dialog => LookupVerdict = {"UNKNOWN_DIALOG"} /\ number \in Member
                          /\ World # "not_found"
         /\ ~doc.dialog => Cleared
<1>1. number \in Member /\ Found(number, World) /\ ProfilePage(number, World) = "profile"
  BY DEF SearchShown, SearchPage, Found
<1>2. number # Nothing
  BY <1>1, CoreAssumption
<1>3. /\ World \notin {"not_found", "session_expired", "permission_denied",
                       "verification_required"}
      /\ foreign => World # "commit_unverifiable"
  BY <1>1, <1>2, NotYet DEF ProfilePage, Found
<1>4. doc.dialog <=> World = "unexpected_dialog" \/ VerificationDialog(number, World)
  BY <1>1 DEF SearchShown, SearchDialog, SearchPage
<1>5. doc.dialog => LookupVerdict = {"UNKNOWN_DIALOG"}
  BY <1>1, <1>3, <1>4 DEF LookupVerdict
<1>6. ~doc.dialog => Cleared
  BY <1>1, <1>3, <1>4, NotYet DEF Cleared, VerificationDialog
<1> QED
  BY <1>1, <1>3, <1>5, <1>6

\* Any other page the search ended in settles what the run ends in.
LEMMA OtherVerdict ==
  ASSUME LInv, applied = 0, verifiedCookie = Nothing, SearchShown, doc.page # "profile"
  PROVE  /\ doc.page = "not_found" =>
              /\ LookupVerdict = {"declared"}
              /\ number \notin Member \/ World = "not_found"
         /\ doc.page # "not_found" =>
              /\ LookupVerdict = {"CHECKPOINT_FAILED"}
              /\ number \in Member /\ World # "not_found"
<1>1. doc.page = IF Found(number, World) THEN ProfilePage(number, World) ELSE "not_found"
  BY DEF SearchShown, SearchPage
<1>2. CASE ~Found(number, World)
  BY <1>1, <1>2 DEF Found, LookupVerdict
<1>3. CASE Found(number, World)
  <2>1. /\ doc.page # "not_found"
        /\ World \in {"session_expired", "permission_denied", "verification_required"}
           \/ (World = "commit_unverifiable" /\ HasSubAccount(number))
    BY <1>1, <1>3 DEF ProfilePage
  <2> QED
    BY <1>3, <2>1, NotYet DEF Found, LookupVerdict
<1> QED
  BY <1>2, <1>3

\* A run that is cut short before its write ends as the look-up would, except that
\* the write declares no "not found".
LEMMA EarlyVerdict ==
  ASSUME LInv, applied = 0, NEW code, LookupVerdict = {code}, code # None
  PROVE  /\ number \in Member /\ World # "not_found" => WriteVerdict = {code}
         /\ number \notin Member \/ World = "not_found" => WriteVerdict = {"CHECKPOINT_FAILED"}
  BY DEF WriteVerdict

\* What was found stays so while neither the application nor its browser moves.
Stays == UNCHANGED << core, number, application, lease >>

LEMMA StaysFacts ==
  ASSUME Stays
  PROVE  /\ World' = World
         /\ SearchShown' = SearchShown
         /\ SearchSettled' = SearchSettled
         /\ SearchComing' = SearchComing
         /\ ProfileComing' = ProfileComing
         /\ FormShown' = FormShown
         /\ Coming("form")' = Coming("form")
         /\ Coming("shell")' = Coming("shell")
         /\ Cleared' = Cleared
         /\ LookupVerdict' = LookupVerdict
         /\ WriteVerdict' = WriteVerdict
         /\ VerificationDialog(number, World)' = VerificationDialog(number, World)
         /\ HasRecipe' = HasRecipe
<1>1. World' = World
  BY DEF Stays, World
<1>2. /\ HasSubAccount(number)' = HasSubAccount(number)
      /\ Found(number, World)' = Found(number, World)
  BY <1>1 DEF Stays, HasSubAccount, Found
<1>3. VerificationDialog(number, World)' = VerificationDialog(number, World)
  BY <1>1, <1>2 DEF Stays, VerificationDialog, HasSubAccount
<1>4. SearchPage' = SearchPage
  BY <1>1, <1>2 DEF Stays, SearchPage, ProfilePage, Found, HasSubAccount
<1>5. SearchDialog' = SearchDialog
  BY <1>1, <1>3, <1>4 DEF SearchDialog
<1>6. SearchShown' = SearchShown
  BY <1>4, <1>5 DEF Stays, SearchShown
<1>7. ProfileComing' = ProfileComing /\ SearchComing' = SearchComing
  BY <1>1, <1>2 DEF Stays, ProfileComing, SearchComing, Coming
<1>8. SearchSettled' = SearchSettled
  BY <1>1, <1>6, <1>7 DEF SearchSettled
<1>9. Cleared' = Cleared
  BY <1>1 DEF Stays, Cleared
<1>10. LookupVerdict' = LookupVerdict
  BY <1>1, <1>3 DEF Stays, LookupVerdict
<1>11. WriteVerdict' = WriteVerdict
  BY <1>1, <1>3, <1>10 DEF Stays, WriteVerdict
<1>12. FormShown' = FormShown /\ Coming("form")' = Coming("form")
       /\ Coming("shell")' = Coming("shell")
  BY DEF Stays, FormShown, Coming
<1>13. HasRecipe' = HasRecipe
  BY SetupConstant DEF Stays
<1> QED
  BY <1>1, <1>3, <1>6, <1>7, <1>8, <1>9, <1>10, <1>11, <1>12, <1>13

\* wait_settled lets a search or a form through to the end, and a profile unless
\* it is slow.
LEMMA SettledFacts ==
  ASSUME LInv, WorldInv, ~Coming("shell"), Settled
  PROVE  /\ SearchComing \/ ProfileComing \/ SearchShown => SearchSettled
         /\ ~Coming("form")
         /\ wire # Nothing => wire.route \in {"held", "profile"}
<1>1. wire # Nothing => wire.route = "held" \/ (wire.route = "profile" /\ RequestScenario(wire) = "slow")
  BY DEF Settled, Late
<1>2. wire # Nothing => RequestScenario(wire) = World
  BY WorldFacts DEF WorldInv, RequestScenario, LInv
<1> QED
  BY <1>1, <1>2 DEF SearchComing, ProfileComing, SearchSettled, Coming

-----------------------------------------------------------------------------
(* The reads of a run no human touches *)

Progress == StageInv /\ OutcomeInv /\ Classified

Reads ==
  /\ AsTabulated
  /\ LInv /\ WorldInv /\ StageInv /\ OutcomeInv
  /\ ~Coming("shell")
  /\ Stays
  /\ Waited
  /\ Definite

\* Each read of the session keeps what the run has found so far, and ends it, where
\* it does, in the scenario's verdict.
LEMMA CheckScopeClassifies ==
  ASSUME Reads, CheckScope
  PROVE  Progress'
<1>1. /\ pc = "scope" /\ pc' = "dialog" /\ cursor <= N
      /\ UNCHANGED << cursor, baseline, haveOutput, result >>
  BY DEF Reads, AsTabulated, LInv, IInv, TypeOK, Definite, CheckScope, Return, Continue,
         SurfaceFailure, ScopeDenied
<1> QED
  BY <1>1, StaysFacts DEF Reads, Stays, Progress, StageInv, OutcomeInv, Classified,
     Before, After,
     Checking

LEMMA CheckDialogClassifies ==
  ASSUME Reads, CheckDialog
  PROVE  Progress'
<1>1. /\ pc = "dialog" /\ cursor \in Steps /\ setup \in Setups /\ applied = 0
      /\ UNCHANGED << cursor, baseline, haveOutput >>
      /\ dialog = doc.dialog
  BY DEF Reads, LInv, IInv, TypeOK, PlaceInv, EffectInv, Before, CoreTypeOK, CheckDialog
<1>2. CASE ~dialog
  <2>1. pc' \in {"commit", "execute"} /\ result' = result
    BY <1>2 DEF Reads, Definite, CheckDialog, Return, Continue, SurfaceFailure
  <2>2. cursor = 3 => ~doc.dialog
    BY <1>1, <1>2
  <2> QED
    BY <1>1, <2>1, <2>2, StaysFacts DEF Reads, Stays, Progress, StageInv, OutcomeInv,
       Classified,
       Before, After, Checking, CoreTypeOK
<1>3. CASE dialog
  <2>1. /\ pc' = "idle"
        /\ result'.code = "UNKNOWN_DIALOG" /\ result'.status = "Escalated"
    BY <1>3 DEF Reads, Definite, CheckDialog, Return, Continue, SurfaceFailure, Escalate
  <2>2. doc.page = "profile"
    BY <1>1, <1>3 DEF Reads, LInv, DisplayInv
  <2>3. cursor = 3 /\ SearchShown
    <3>1. cursor \in {1, 2, 3, 4}
      BY <1>1, TheCapabilities
    <3>2. cursor \notin {1, 2}
      BY <1>1, <2>2 DEF Reads, LInv, CoreInv, RunInv, OnInquiry, Before
    <3>3. cursor # 4
      BY <1>1, <2>2, TheCapabilities DEF Reads, StageInv, FormShown, Before
    <3> QED
      BY <1>1, <3>1, <3>2, <3>3 DEF Reads, StageInv, Before
  <2>4. LookupVerdict = {"UNKNOWN_DIALOG"} /\ number \in Member /\ World # "not_found"
    BY <1>1, <1>3, <2>2, <2>3, ProfileVerdict DEF Reads, WorldInv
  <2>5. "UNKNOWN_DIALOG" # None
    BY ReplayAssumption DEF Reason
  <2>6. WriteVerdict = {"UNKNOWN_DIALOG"}
    BY <1>1, <2>4, <2>5, EarlyVerdict DEF Reads
  <2> QED
    BY <1>1, <2>1, <2>3, <2>4, <2>5, <2>6, StaysFacts DEF Reads, Stays, Progress, StageInv,
       OutcomeInv, Classified, Writes, Before, After, Checking
<1> QED
  BY <1>2, <1>3 DEF Reads, LInv, IInv, TypeOK

LEMMA RecheckScopeClassifies ==
  ASSUME Reads, RecheckScope
  PROVE  Progress'
<1>1. /\ pc = "rescope" /\ pc' = "resolve"
      /\ UNCHANGED << cursor, baseline, haveOutput, result >>
      /\ Settled
  BY DEF Reads, AsTabulated, LInv, IInv, TypeOK, Definite, RecheckScope, Return, Continue,
         SurfaceFailure, ScopeDenied, Waited, Settles
<1>2. /\ SearchComing \/ ProfileComing \/ SearchShown => SearchSettled
      /\ ~Coming("form")
  BY <1>1, SettledFacts DEF Reads
<1> QED
  BY <1>1, <1>2, StaysFacts DEF Reads, Stays, Progress, StageInv, OutcomeInv, Classified,
     Before,
     After, Checking

LEMMA BaselineViewClassifies ==
  ASSUME Reads, BaselineView
  PROVE  Progress'
<1>1. /\ pc = "baseline" /\ cursor \in Steps /\ setup \in Setups /\ cursor \in 1 .. 3
      /\ UNCHANGED << baseline, haveOutput, result >>
      /\ page = doc.page
      /\ applied = 0
  <2>1. /\ pc = "baseline" /\ cursor \in Steps /\ setup \in Setups /\ Kind[cursor] # "verified"
        /\ UNCHANGED << baseline, haveOutput, result >>
        /\ page = doc.page
        /\ applied = 0
    BY DEF Reads, LInv, IInv, TypeOK, PlaceInv, EffectInv, After, CoreTypeOK, BaselineView,
           Continue
  <2> QED
    BY <2>1, TheCapabilities
<1>2. CASE pc' = "baseline_effect"
  <2>1. cursor' = cursor /\ HasRecipe /\ doc.page = "profile"
    BY <1>1, <1>2, TheCapabilities DEF BaselineView, Continue
  <2> QED
    BY <1>1, <1>2, <2>1, StaysFacts DEF Reads, Stays, Progress, StageInv, OutcomeInv,
       Classified,
       Before, After, Checking
<1>3. CASE pc' # "baseline_effect"
  <2>1. pc' = "scope" /\ cursor' = cursor + 1
    BY <1>3 DEF BaselineView, Continue
  <2>2. HasRecipe => doc.page # "profile"
    BY <1>1, <1>3, TheCapabilities DEF Reads, Definite
  <2>3. CASE cursor = 1
    BY <1>1, <2>1, <2>3, StaysFacts DEF Reads, Stays, Progress, StageInv, OutcomeInv,
       Classified,
       Before, After, Checking
  <2>4. CASE cursor = 2
    BY <1>1, <2>1, <2>2, <2>4, StaysFacts DEF Reads, Stays, Progress, StageInv, OutcomeInv,
       Classified, Before, After, Checking
  <2>5. CASE cursor = 3
    BY <1>1, <2>1, <2>2, <2>5, StaysFacts DEF Reads, Stays, Progress, StageInv, OutcomeInv,
       Classified, Before, After, Checking
  <2> QED
    BY <1>1, <2>3, <2>4, <2>5
<1> QED
  BY <1>2, <1>3

LEMMA BaselineEffectClassifies ==
  ASSUME Reads, BaselineEffect
  PROVE  Progress'
<1>1. /\ pc = "baseline_effect" /\ pc' = "scope" /\ cursor' = cursor + 1
      /\ UNCHANGED << haveOutput, result >>
      /\ HasRecipe /\ doc.page = "profile" /\ page = doc.page
      /\ applied = 0
      /\ setup \in Setups
      /\ cursor \in Steps /\ Kind[cursor] # "verified"
  BY DEF Reads, LInv, IInv, TypeOK, PlaceInv, EffectInv, After, CoreTypeOK, BaselineEffect,
         Continue, CoreInv, RunInv
<1>2. cursor = 2
  <2>1. cursor \in {1, 2, 3}
    BY <1>1, TheCapabilities
  <2>2. cursor # 1
    BY <1>1 DEF Reads, LInv, CoreInv, RunInv, OnInquiry, After
  <2>3. cursor # 3
    BY <1>1 DEF Reads, StageInv, FormShown, After
  <2> QED
    BY <2>1, <2>2, <2>3
<1>3. baseline' = IF foreign THEN "present" ELSE "absent"
  <2>1. EffectVisible <=> foreign
    BY <1>1, TheCapabilities DEF EffectVisible
  <2> QED
    BY <1>1, <2>1 DEF Reads, Definite
<1> QED
  BY <1>1, <1>2, <1>3, StaysFacts DEF Reads, Stays, Progress, StageInv, OutcomeInv,
     Classified,
     Before, After, Checking

LEMMA FinishScopeClassifies ==
  ASSUME Reads, FinishScope
  PROVE  Progress'
<1>1. /\ pc = "scope" /\ pc' = "success" /\ cursor > N
      /\ UNCHANGED << cursor, baseline, haveOutput, result >>
  BY DEF Reads, AsTabulated, LInv, IInv, TypeOK, Definite, FinishScope, Return, Continue,
         SurfaceFailure, ScopeDenied
<1> QED
  BY <1>1, StaysFacts DEF Reads, Stays, Progress, StageInv, OutcomeInv, Classified,
     Before, After,
     Checking

LEMMA FinishSuccessClassifies ==
  ASSUME Reads, FinishSuccess
  PROVE  Progress'
<1>1. /\ pc = "success" /\ cursor = N + 1 /\ setup \in Setups /\ page \in Page
      /\ pc' = "idle"
      /\ UNCHANGED << cursor, baseline, haveOutput >>
  BY DEF Reads, LInv, IInv, TypeOK, PlaceInv, FinishSuccess, Return, SurfaceFailure
<1>2. ~HasRecipe /\ cursor = 4
  BY <1>1, TheCapabilities DEF Reads, LInv, IInv, PlaceInv
<1>3. haveOutput /\ Cleared /\ applied = 0
  BY <1>1, <1>2 DEF Reads, StageInv
<1>4. SuccessHolds
  BY <1>1, <1>2, <1>3, TheCapabilities, ReplayAssumption DEF SuccessHolds, SuccessView,
     Lookup
<1>5. result'.code = None /\ result'.status = "Success"
  BY <1>4 DEF Reads, Definite, FinishSuccess, Return, SurfaceFailure
<1>6. LookupVerdict = {None}
  BY <1>3, ClearedVerdict DEF Reads
<1> QED
  BY <1>1, <1>2, <1>3, <1>5, <1>6, StaysFacts DEF Reads, Stays, Progress, StageInv,
     OutcomeInv,
     Classified, Writes, Before, After, Checking

\* The poll of a step ends early only on the page the scenario asks for.
LEMMA ResolveClassifies ==
  ASSUME Reads, Resolve
  PROVE  Progress'
<1>1. /\ pc = "resolve" /\ cursor \in {1, 2, 3} /\ setup \in Setups
      /\ UNCHANGED << cursor, baseline, haveOutput >>
      /\ page = doc.page
      /\ applied = 0
  <2>1. /\ pc = "resolve" /\ cursor \in Steps /\ setup \in Setups /\ Kind[cursor] # "verified"
        /\ UNCHANGED << cursor, baseline, haveOutput >>
        /\ page = doc.page
        /\ applied = 0
    BY DEF Reads, LInv, IInv, TypeOK, PlaceInv, EffectInv, After, CoreTypeOK, Resolve
  <2> QED
    BY <2>1, TheCapabilities
<1>2. CASE pc' = "resolve"
  <2>1. result' = result
    BY <1>2 DEF Resolve, Return, Continue, SurfaceFailure
  <2> QED
    BY <1>1, <1>2, <2>1, StaysFacts DEF Reads, Stays, Progress, StageInv, OutcomeInv,
       Classified,
       Before, After, Checking
<1>3. CASE pc' = "baseline"
  <2>1. result' = result /\ (cursor = 2 => doc.page = "profile")
    BY <1>1, <1>3, TheCapabilities DEF Resolve, Return, Continue, SurfaceFailure,
       PostconditionHolds
  <2>2. cursor = 2 => SearchShown
    BY <1>1, <2>1 DEF Reads, StageInv, SearchSettled, ProfileComing
  <2> QED
    BY <1>1, <1>3, <2>1, <2>2, StaysFacts DEF Reads, Stays, Progress, StageInv, OutcomeInv,
       Classified, Before, After, Checking
<1>4. CASE pc' = "idle"
  <2>1. \/ /\ result'.code = "declared" /\ result'.status = "BusinessOutcome"
           /\ page \in Outcome[cursor]
        \/ /\ result'.code = "CHECKPOINT_FAILED" /\ result'.status = "Failure"
           /\ wire = Nothing
           /\ page \notin Outcome[cursor] /\ ~PostconditionHolds
    BY <1>1, <1>4 DEF Reads, Definite, Resolve, Return, Continue, SurfaceFailure
  <2>2. cursor = 2
    <3>1. CASE cursor = 1
      BY <1>1, <2>1, <3>1, TheCapabilities DEF PostconditionHolds
    <3>2. CASE cursor = 3
      BY <1>1, <2>1, <3>2, TheCapabilities DEF PostconditionHolds, Reads, StageInv,
         FormShown, After
    <3> QED
      BY <1>1, <3>1, <3>2
  <2>3. SearchShown
    BY <1>1, <2>1, <2>2, TheCapabilities DEF Reads, StageInv, SearchSettled,
       ProfileComing, Coming
  <2>4. doc.page # "profile"
    BY <1>1, <2>1, <2>2, TheCapabilities DEF PostconditionHolds
  <2>5. None \notin {"declared", "CHECKPOINT_FAILED"}
    BY ReplayAssumption
  <2>6. CASE HasRecipe
    <3>1. result'.code = "CHECKPOINT_FAILED" /\ result'.status = "Failure"
      BY <1>1, <2>1, <2>2, <2>6, TheCapabilities
    <3>2. WriteVerdict = {"CHECKPOINT_FAILED"}
      BY <1>1, <2>3, <2>4, <2>5, OtherVerdict, EarlyVerdict DEF Reads, WorldInv
    <3> QED
      BY <1>1, <1>4, <2>2, <2>5, <2>6, <3>1, <3>2, StaysFacts
      DEF Reads, Stays, Progress, StageInv,
         OutcomeInv, Classified, Writes, Before, After, Checking
  <2>7. CASE ~HasRecipe
    <3>1. result'.code = IF doc.page = "not_found" THEN "declared" ELSE "CHECKPOINT_FAILED"
      BY <1>1, <2>1, <2>2, <2>7, TheCapabilities
    <3>2. LookupVerdict = {result'.code}
      BY <1>1, <2>3, <2>4, <3>1, OtherVerdict DEF Reads, WorldInv
    <3> QED
      BY <1>1, <1>4, <2>1, <2>2, <2>5, <2>7, <3>2, StaysFacts
      DEF Reads, Stays, Progress, StageInv,
         OutcomeInv, Classified, Writes, Before, After, Checking
  <2> QED
    BY <2>6, <2>7
<1> QED
  BY <1>1, <1>2, <1>3, <1>4 DEF Resolve, Return, Continue, SurfaceFailure

\* In the verification the run is at its write, and what the application made of
\* it is settled.
LEMMA AtTheWrite ==
  ASSUME Reads, pc \in {"respond"} \cup Checking
  PROVE  /\ setup \in Setups /\ HasRecipe /\ cursor = 4 /\ setup.capability = Open
         /\ NavLen = 3 /\ EffectView = {"profile"} /\ Outcome[cursor] = {"rejected"}
         /\ page = doc.page /\ dialog = doc.dialog
         /\ Cleared
         /\ baseline = IF foreign THEN "present" ELSE "absent"
         /\ applied = IF foreign \/ World = "commit_dropped" THEN 0 ELSE 1
         /\ HasSubAccount(number) <=> foreign \/ applied > 0
<1>1. setup \in Setups /\ cursor \in Steps /\ Kind[cursor] = "verified"
  BY DEF Reads, LInv, IInv, TypeOK, PlaceInv, Checking
<1>2. HasRecipe
  BY <1>1, CapabilityFacts DEF HasRecipe
<1>3. cursor = 4
  BY <1>1, <1>2, CapabilityFacts, TheCapabilities
<1> QED
  BY <1>1, <1>2, <1>3, TheCapabilities DEF Reads, LInv, CoreTypeOK, CoreInv, StoreInv,
     StageInv,
     OutcomeInv, Checking

\* The explicit rejection on the response is one because the sub-account was there.
LEMMA RespondClassifies ==
  ASSUME Reads, Respond
  PROVE  Progress'
<1>1. /\ pc = "respond" /\ Settled
      /\ UNCHANGED << cursor, baseline, haveOutput >>
  BY DEF Reads, Respond, Waited, Settles
<1>2. wire = Nothing /\ (doc.page = "rejected" <=> foreign)
  <2>1. wire # Nothing => wire.route \in {"held", "profile"}
    BY <1>1, SettledFacts DEF Reads
  <2> QED
    BY <1>1, <2>1 DEF Reads, OutcomeInv, Answers
<1>3. CASE foreign
  <2>1. pc' = "idle" /\ result'.code = "declared" /\ result'.status = "BusinessOutcome"
    BY <1>1, <1>2, <1>3, AtTheWrite DEF Reads, Definite, Respond, Return, Continue
  <2>2. applied = 0 /\ Cleared
    BY <1>1, <1>3, AtTheWrite
  <2>3. WriteVerdict = {"declared"} /\ "declared" # None
    BY <1>3, <2>2, ClearedVerdict, ReplayAssumption DEF Reads, WriteVerdict, Cleared
  <2> QED
    BY <1>1, <2>1, <2>3, AtTheWrite, StaysFacts DEF Reads, Stays, Progress, StageInv,
       OutcomeInv, Classified, Writes, Before, After, Checking
<1>4. CASE ~foreign
  <2>1. pc' = "navigate" /\ result' = result /\ nav' = 1
    BY <1>1, <1>2, <1>4, AtTheWrite DEF Respond, Return, Continue
  <2> QED
    BY <1>1, <1>4, <2>1, AtTheWrite, StaysFacts DEF Reads, Stays, Progress, StageInv,
       OutcomeInv,
       Classified, Before, After, Checking
<1> QED
  BY <1>3, <1>4

LEMMA VerifyScopeClassifies ==
  ASSUME Reads, VerifyScope
  PROVE  Progress'
<1>1. /\ pc = "navigated" /\ pc' = "navigate" /\ nav' = nav + 1 /\ Settled
      /\ UNCHANGED << cursor, baseline, haveOutput, result >>
      /\ nav \in Nat
  <2>1. pc = "navigated" /\ setup \in Setups /\ nav \in 1 .. NavLen + 1
    BY DEF Reads, LInv, IInv, TypeOK, VerifyScope
  <2>2. pc' = "navigate" /\ nav' = nav + 1 /\ result' = result
    BY <2>1 DEF Reads, Definite, VerifyScope, Proceed, Continue, MutationAmbiguous,
       Escalate, Return
  <2> QED
    BY <2>1, <2>2, CapabilityFacts DEF Reads, VerifyScope, Waited, Settles
<1>2. SearchComing \/ ProfileComing \/ SearchShown => SearchSettled
  BY <1>1, SettledFacts DEF Reads
<1> QED
  BY <1>1, <1>2, AtTheWrite, StaysFacts DEF Reads, Stays, Progress, StageInv, OutcomeInv,
     Classified,
     Before, After, Checking

\* A verified write that cannot be judged is handed over as ambiguous.
Ambiguous ==
  pc' = "idle" /\ result'.code = "MUTATION_AMBIGUOUS" /\ result'.status = "Escalated"

LEMMA AmbiguousClassifies ==
  ASSUME Reads, pc \in Checking, Ambiguous, UNCHANGED << cursor, baseline, haveOutput >>,
         ~foreign,
         World \in {"commit_unverifiable", "slow"} \/ VerificationDialog(number, World)
  PROVE  Progress'
<1>1. "MUTATION_AMBIGUOUS" \in WriteVerdict /\ "MUTATION_AMBIGUOUS" # None
  <2>1. number \in Member /\ World # "not_found" /\ World # "commit_dropped"
    BY AtTheWrite DEF Cleared, VerificationDialog
  <2>2. applied = 1
    BY <2>1, AtTheWrite
  <2> QED
    BY <2>1, <2>2, ReplayAssumption DEF WriteVerdict, Reason, VerificationDialog
<1> QED
  BY <1>1, AtTheWrite, StaysFacts DEF Ambiguous, Reads, Stays, Progress, StageInv,
     OutcomeInv,
     Classified, Writes, Before, After, Checking

LEMMA VerifyDialogClassifies ==
  ASSUME Reads, VerifyDialog
  PROVE  Progress'
<1>1. /\ pc = "navigate" /\ nav > NavLen /\ nav = 4
      /\ UNCHANGED << cursor, baseline, haveOutput >>
      /\ pc \in Checking
      /\ SearchSettled /\ ~foreign
  <2>1. pc = "navigate" /\ nav > NavLen /\ nav \in 1 .. NavLen + 1 /\ pc \in Checking
    BY DEF Reads, LInv, IInv, TypeOK, VerifyDialog, Checking
  <2>2. nav = 4
    BY <2>1, AtTheWrite
  <2> QED
    BY <2>1, <2>2 DEF VerifyDialog, Reads, OutcomeInv
<1>2. doc.dialog => VerificationDialog(number, World)
  BY <1>1, AtTheWrite DEF Reads, LInv, DisplayInv, SearchSettled, SearchShown, SearchDialog,
     ProfileComing, Cleared
<1>3. ~doc.dialog => ~VerificationDialog(number, World)
  BY <1>1, AtTheWrite DEF SearchSettled, SearchShown, SearchDialog, SearchPage, ProfilePage,
     ProfileComing, Found, VerificationDialog, HasSubAccount
<1>4. CASE pc' = "view"
  <2>1. result' = result /\ ~doc.dialog
    BY <1>1, <1>4, AtTheWrite DEF VerifyDialog, Proceed, Continue, MutationAmbiguous,
       Escalate, Return
  <2> QED
    BY <1>1, <1>3, <1>4, <2>1, AtTheWrite, StaysFacts DEF Reads, Stays, Progress, StageInv,
       OutcomeInv, Classified, Before, After, Checking
<1>5. CASE pc' # "view"
  <2>1. pc' = "idle" /\ result'.status = "Escalated" /\ result'.code = "MUTATION_AMBIGUOUS"
    BY <1>5 DEF VerifyDialog, Proceed, Continue, MutationAmbiguous, Escalate, Return
  <2>2. doc.dialog
    BY <1>1, <2>1 DEF Reads, Definite
  <2> QED
    BY <1>1, <1>2, <2>1, <2>2, AmbiguousClassifies DEF Ambiguous
<1> QED
  BY <1>4, <1>5

LEMMA VerifyViewClassifies ==
  ASSUME Reads, VerifyView
  PROVE  Progress'
<1>1. /\ pc = "view" /\ pc \in Checking
      /\ UNCHANGED << cursor, baseline, haveOutput >>
      /\ SearchSettled /\ ~foreign /\ ~VerificationDialog(number, World)
  BY DEF VerifyView, Reads, OutcomeInv, Checking
<1>2. CASE pc' = "effect"
  <2>1. result' = result
    BY <1>2 DEF VerifyView, Proceed, Continue, MutationAmbiguous, Escalate, Return
  <2> QED
    BY <1>1, <1>2, <2>1, AtTheWrite, StaysFacts DEF Reads, Stays, Progress, StageInv,
       OutcomeInv, Classified, Before, After, Checking
<1>3. CASE pc' # "effect"
  <2>1. pc' = "idle" /\ result'.status = "Escalated" /\ result'.code = "MUTATION_AMBIGUOUS"
    BY <1>3 DEF VerifyView, Proceed, Continue, MutationAmbiguous, Escalate, Return
  <2>2. doc.page # "profile"
    BY <1>1, <2>1, AtTheWrite DEF Reads, Definite
  <2>3. World \in {"commit_unverifiable", "slow"}
    BY <1>1, <2>2, AtTheWrite DEF SearchSettled, SearchShown, SearchPage, ProfilePage,
       Found,
       Cleared
  <2> QED
    BY <1>1, <2>1, <2>3, AmbiguousClassifies DEF Ambiguous
<1> QED
  BY <1>2, <1>3

LEMMA VerifyEffectClassifies ==
  ASSUME Reads, VerifyEffect
  PROVE  Progress'
<1>1. /\ pc = "effect" /\ pc \in Checking
      /\ UNCHANGED << cursor, baseline, haveOutput >>
      /\ SearchSettled /\ ~foreign /\ ~VerificationDialog(number, World)
      /\ doc.page = "profile"
  BY DEF VerifyEffect, Reads, OutcomeInv, Checking, LInv, CoreInv, RunInv
<1>2. SearchPage = "profile"
  BY <1>1 DEF SearchSettled, SearchShown, ProfileComing
<1>3. baseline = "absent" /\ HasExtract /\ (EffectVisible <=> applied > 0)
  BY <1>1, AtTheWrite DEF HasExtract, Open, EffectVisible
<1>4. ~(pc' = "idle" /\ result'.status = "Escalated")
  BY <1>1, <1>3 DEF Reads, Definite, AbsentBefore
<1>5. CASE applied > 0
  <2>1. pc' = "extract" /\ result' = result
    BY <1>3, <1>4, <1>5 DEF VerifyEffect, Proceed, Continue, MutationAmbiguous, Escalate,
       Return
  <2>2. World # "commit_unverifiable"
    BY <1>1, <1>2, <1>5, AtTheWrite DEF SearchPage, ProfilePage
  <2> QED
    BY <1>1, <2>1, <2>2, AtTheWrite, StaysFacts DEF Reads, Stays, Progress, StageInv,
       OutcomeInv, Classified, Before, After, Checking
<1>6. CASE ~(applied > 0)
  <2>1. /\ pc' = "idle"
        /\ result'.code = "MUTATION_NOT_COMMITTED" /\ result'.status = "Failure"
    BY <1>3, <1>4, <1>6 DEF VerifyEffect, Proceed, Continue, MutationAmbiguous, Escalate,
       Return,
       Conclude
  <2>2. World = "commit_dropped" /\ applied = 0 /\ Cleared
    BY <1>1, <1>6, AtTheWrite
  <2>3. WriteVerdict = {"MUTATION_NOT_COMMITTED"} /\ "MUTATION_NOT_COMMITTED" # None
    BY <1>1, <2>2, ClearedVerdict, ReplayAssumption DEF Reads, WriteVerdict, Cleared
  <2> QED
    BY <1>1, <2>1, <2>3, AtTheWrite, StaysFacts DEF Reads, Stays, Progress, StageInv,
       OutcomeInv, Classified, Writes, Before, After, Checking
<1> QED
  BY <1>5, <1>6

LEMMA VerifyExtractClassifies ==
  ASSUME Reads, VerifyExtract
  PROVE  Progress'
<1>1. /\ pc = "extract" /\ pc \in Checking
      /\ UNCHANGED << cursor, baseline >>
  BY DEF VerifyExtract, Checking
<1>2. OutputStep = N + 1
  BY <1>1, AtTheWrite, TheCapabilities DEF OutputStep, Open
<1>3. pc' = "checkpoint" /\ result' = result /\ haveOutput'
  <2>1. pc' # "raised" /\ ~(pc' = "idle" /\ result'.status = "Escalated")
    BY <1>1 DEF Reads, Definite
  <2>2. /\ pc' = "checkpoint" /\ result' = result
        /\ haveOutput' = (haveOutput \/ OutputStep = N + 1)
    BY <2>1 DEF VerifyExtract, Proceed, Continue, MutationAmbiguous, Escalate, Return,
       Propagate
  <2> QED
    BY <1>2, <2>2
<1> QED
  BY <1>1, <1>3, AtTheWrite, StaysFacts DEF Reads, Stays, Progress, StageInv, OutcomeInv,
     Classified, Before, After, Checking

LEMMA VerifySuccessClassifies ==
  ASSUME Reads, VerifySuccess
  PROVE  Progress'
<1>1. /\ pc = "checkpoint" /\ pc \in Checking
      /\ UNCHANGED << cursor, baseline, haveOutput >>
      /\ haveOutput /\ ~foreign /\ ~VerificationDialog(number, World)
      /\ World # "commit_unverifiable"
      /\ applied > 0
      /\ page \in Page
  BY DEF VerifySuccess, Reads, OutcomeInv, Checking, LInv, IInv, TypeOK, CoreInv, StoreInv
<1>2. SuccessHolds
  BY <1>1, AtTheWrite, ReplayAssumption DEF SuccessHolds, SuccessView, Open
<1>3. pc' = "idle" /\ result'.code = None /\ result'.status = "Success"
  BY <1>2 DEF Reads, Definite, VerifySuccess, Conclude, Return, SurfaceFailure, Propagate
<1>4. None \in WriteVerdict
  BY <1>1, AtTheWrite DEF WriteVerdict, Cleared
<1> QED
  BY <1>1, <1>3, <1>4, AtTheWrite, StaysFacts DEF Reads, Stays, Progress, StageInv,
     OutcomeInv,
     Classified, Writes, Before, After, Checking

-----------------------------------------------------------------------------
(* The steps of a run no human touches *)

\* While no control changed hands, automation has it, and nobody judges a resume.
LEMMA NoHuman ==
  ASSUME LInv, WorldInv, LegacyNext, pc # "start", epoch = 0, epoch' = 0
  PROVE  /\ pc \notin Judging
         /\ UNCHANGED lease
         /\ Look \/ ExecuteOnCore \/ NavigateOnCore \/ CommitOnCore \/ Answer
<1>1. owner = "automation" /\ pc \notin Judging
  BY DEF WorldInv, LInv, IInv, DriverInv
<1>2. ~OperateOnCore
  BY <1>1 DEF OperateOnCore, TakeControl, Perform, ResumeAmbiguous, ResumeBlocked, HandBack,
              ToHuman, ToAutomation
<1>3. ~Teller /\ ~StartOnShell
  BY DEF Teller, StartOnShell, Start
<1>4. Look \/ ExecuteOnCore \/ NavigateOnCore \/ CommitOnCore \/ Answer
  BY <1>2, <1>3 DEF LegacyNext, Session
<1>5. Look => UNCHANGED lease
  <2>1. ~Reconcile
    BY <1>1 DEF Reconcile, AssessScope, PollDialog, PollCheckpoint, Judging
  <2>2. CheckScope \/ CheckDialog \/ RecheckScope \/ Resolve \/ BaselineView \/ BaselineEffect
        \/ FinishScope \/ FinishSuccess \/ Respond => UNCHANGED lease
    BY DEF CheckScope, CheckDialog, RecheckScope, Resolve, BaselineView, BaselineEffect,
           FinishScope, FinishSuccess, Respond
  <2>3. VerifyScope \/ VerifyDialog \/ VerifyView \/ VerifyEffect \/ VerifyExtract
        \/ VerifySuccess => UNCHANGED lease
    BY DEF VerifyScope, VerifyDialog, VerifyView, VerifyEffect, VerifyExtract,
       VerifySuccess,
           Proceed, MutationAmbiguous, Conclude, Propagate, ToHuman
  <2> QED
    BY <2>1, <2>2, <2>3 DEF Look
<1>6. ExecuteOnCore \/ CommitOnCore \/ Answer => UNCHANGED lease
  BY DEF ExecuteOnCore, Execute, CommitOnCore, Commit, Answer, AtRest
<1>7. NavigateOnCore => UNCHANGED lease
  BY DEF NavigateOnCore, VerifyNavigate, Proceed, MutationAmbiguous, Propagate, ToHuman
<1> QED
  BY <1>1, <1>4, <1>5, <1>6, <1>7

LEMMA LookClassifies ==
  ASSUME AsTabulated, LInv, WorldInv, StageInv, OutcomeInv, Look, UNCHANGED lease,
         pc \notin Judging
  PROVE  WorldInv' /\ Progress'
<1>1. Stays /\ Waited /\ Definite
  <2>1. Calm
    BY CalmSteps DEF LInv
  <2> QED
    BY <2>1 DEF Look, Calm, Displays, Waited, Stays, LInv, CoreTypeOK
<1>2. ~Reconcile
  BY DEF Reconcile, AssessScope, PollDialog, PollCheckpoint, Judging
<1>3. ~Coming("shell")
  <2>1. setup \in Setups
    BY DEF LInv, IInv, TypeOK
  <2>2. pc = "scope" /\ cursor = 1 => Settled
    BY <1>1, <2>1, CapabilityFacts DEF Waited, Settles
  <2> QED
    BY <2>2 DEF WorldInv, Coming, Settled, Late
<1>4. WorldInv'
  BY <1>1, <1>3, StaysFacts DEF WorldInv, Stays
<1>5. Reads
  BY <1>1, <1>3 DEF Reads
<1>6. CheckScope \/ CheckDialog \/ RecheckScope \/ Resolve \/ BaselineView \/ BaselineEffect
      \/ FinishScope \/ FinishSuccess \/ Respond => Progress'
  BY <1>5, CheckScopeClassifies, CheckDialogClassifies, RecheckScopeClassifies,
     ResolveClassifies, BaselineViewClassifies, BaselineEffectClassifies,
     FinishScopeClassifies, FinishSuccessClassifies, RespondClassifies
<1>7. VerifyScope \/ VerifyDialog \/ VerifyView \/ VerifyEffect \/ VerifyExtract
      \/ VerifySuccess => Progress'
  BY <1>5, VerifyScopeClassifies, VerifyDialogClassifies, VerifyViewClassifies,
     VerifyEffectClassifies, VerifyExtractClassifies, VerifySuccessClassifies
<1> QED
  BY <1>2, <1>4, <1>6, <1>7 DEF Look

\* A click of the run asks for a page of the same scenario.
ClicksOn(route) ==
  IF route = None THEN UNCHANGED core
  ELSE /\ UNCHANGED << store, cookies, shell, doc >>
       /\ wire' # Nothing
       /\ wire'.route = route
       /\ route = "search" => wire'.number = number
       /\ route = "form" => wire'.number = doc.number
       /\ route \in {"search", "form"} => wire'.query = doc.query
       /\ route = "inquiry" => wire'.query = shell

LEMMA MakesFacts ==
  ASSUME LInv, NEW route, Makes(route)
  PROVE  ClicksOn(route)
<1>1. CASE route = None
  BY <1>1 DEF Makes, ClicksOn
<1>2. CASE route # None
  <2>1. PICK r \in Controls : /\ r.route = route
                              /\ route = "search" => r.number = number
                              /\ Click(r)
    BY <1>2 DEF Makes
  <2>2. /\ r \in Requests
        /\ r.route = "inquiry" => r.query = shell
        /\ r.route \in {"search", "form"} => r.query = doc.query
        /\ r.route = "form" => r.number = doc.number
    BY ControlsFacts DEF LInv
  <2>3. r # Nothing
    BY <2>2, CoreAssumption
  <2> QED
    BY <1>2, <2>1, <2>2, <2>3 DEF Click, ClicksOn
<1> QED
  BY <1>1, <1>2

\* What was found depends on no more of the application than this.
LEMMA ClickedFacts ==
  ASSUME UNCHANGED << created, acknowledged, cookies, number, applied, foreign, setup >>
  PROVE  /\ World' = World
         /\ Cleared' = Cleared
         /\ LookupVerdict' = LookupVerdict
         /\ WriteVerdict' = WriteVerdict
         /\ VerificationDialog(number, World)' = VerificationDialog(number, World)
         /\ Found(number, World)' = Found(number, World)
         /\ SearchPage' = SearchPage
         /\ SearchDialog' = SearchDialog
         /\ HasRecipe' = HasRecipe
<1>1. World' = World
  BY DEF World
<1>2. /\ HasSubAccount(number)' = HasSubAccount(number)
      /\ Found(number, World)' = Found(number, World)
  BY <1>1 DEF HasSubAccount, Found
<1>3. VerificationDialog(number, World)' = VerificationDialog(number, World)
  BY <1>1, <1>2 DEF VerificationDialog, HasSubAccount
<1>4. SearchPage' = SearchPage
  BY <1>1, <1>2 DEF SearchPage, ProfilePage, Found, HasSubAccount
<1>5. SearchDialog' = SearchDialog
  BY <1>1, <1>3, <1>4 DEF SearchDialog
<1>6. Cleared' = Cleared
  BY <1>1 DEF Cleared
<1>7. LookupVerdict' = LookupVerdict
  BY <1>1, <1>3 DEF LookupVerdict
<1>8. WriteVerdict' = WriteVerdict
  BY <1>1, <1>3, <1>7 DEF WriteVerdict
<1> QED
  BY <1>1, <1>2, <1>3, <1>4, <1>5, <1>6, <1>7, <1>8, SetupConstant

\* The steps that ask the application for something.
LEMMA ExecuteClassifies ==
  ASSUME LInv, WorldInv, StageInv, OutcomeInv, ExecuteOnCore, UNCHANGED lease
  PROVE  WorldInv' /\ Progress'
<1>1. /\ pc = "execute" /\ pc' = "rescope" /\ result' = result
      /\ setup \in Setups /\ cursor \in Steps /\ Kind[cursor] # "verified"
      /\ UNCHANGED << cursor, baseline, applied, foreign, setup, number >>
      /\ applied = 0
      /\ haveOutput' = (haveOutput \/ OutputStep = cursor)
  BY DEF ExecuteOnCore, Execute, Definite, Continue, Return, SurfaceFailure, Refused,
     Escalate,
         LInv, IInv, TypeOK, PlaceInv, EffectInv, Before
<1>2. cursor \in {1, 2, 3}
  BY <1>1, TheCapabilities
<1>3. ~Coming("shell")
  BY <1>1 DEF WorldInv
<1>4. ClicksOn(setup.capability.click[cursor])
  BY MakesFacts DEF ExecuteOnCore
<1>5. setup.capability.click[cursor] \in {None, "search", "form"}
  BY <1>1, ExecuteAsks DEF LInv
<1>6. UNCHANGED << store, cookies, shell, doc >>
  BY <1>4 DEF ClicksOn
<1>7. CASE cursor = 1
  <2>1. UNCHANGED core
    <3>1. setup.capability.click[cursor] = None
      BY <1>1, <1>7, TheCapabilities DEF Lookup, Open
    <3> QED
      BY <1>4, <3>1 DEF ClicksOn
  <2>2. WorldInv'
    BY <1>1, <1>3, <2>1, ClickedFacts DEF WorldInv, Coming
  <2> QED
    BY <1>1, <1>7, <2>2, ClickedFacts DEF Progress, StageInv, OutcomeInv, Classified,
       Before, After,
       Checking
<1>8. CASE cursor = 2
  <2>1. OnInquiry
    BY <1>1, <1>8 DEF LInv, CoreInv, RunInv, Before
  <2>2. setup.capability.click[cursor] = "search" /\ "search" # None
    BY <1>1, <1>8, TheCapabilities, ReplayAssumption DEF Lookup, Open, Routes
  <2>3. wire' # Nothing /\ wire'.route = "search" /\ wire'.number = number /\ wire'.query = doc.query
    BY <1>4, <2>2 DEF ClicksOn
  <2>4. SearchComing'
    BY <1>1, <1>6, <2>1, <2>3 DEF SearchComing, OnInquiry, Coming
  <2>5. WorldInv'
    BY <1>1, <1>3, <1>6, <2>1, <2>3, ClickedFacts DEF WorldInv, Coming, OnInquiry
  <2> QED
    BY <1>1, <1>6, <1>8, <2>4, <2>5, ClickedFacts DEF Progress, StageInv, OutcomeInv,
       Classified,
       Before, After, Checking
<1>9. CASE cursor = 3
  <2>1. SearchShown /\ doc.page = "profile" /\ ~doc.dialog
    BY <1>1, <1>9 DEF StageInv, Before
  <2>2. Cleared
    BY <1>1, <2>1, ProfileVerdict DEF WorldInv
  <2>3. CASE HasRecipe
    <3>1. setup.capability.click[cursor] = "form" /\ "form" # None
      BY <1>1, <1>9, <2>3, TheCapabilities, ReplayAssumption DEF Open, Routes
    <3>2. /\ wire' # Nothing /\ wire'.route = "form" /\ wire'.number = doc.number
          /\ wire'.query = doc.query
      BY <1>4, <3>1 DEF ClicksOn
    <3>3. Coming("form")' /\ wire'.number = number
      BY <2>1, <3>2 DEF Coming, SearchShown
    <3>4. WorldInv'
      BY <1>1, <1>3, <1>6, <2>1, <3>2, ClickedFacts DEF WorldInv, Coming
    <3> QED
      BY <1>1, <1>6, <1>9, <2>2, <2>3, <3>3, <3>4, ClickedFacts
      DEF Progress, StageInv, OutcomeInv,
         Classified, Before, After, Checking
  <2>4. CASE ~HasRecipe
    <3>1. setup.capability.click[cursor] = None /\ OutputStep = cursor
      BY <1>1, <1>9, <2>4, TheCapabilities DEF Lookup, OutputStep
    <3>2. UNCHANGED core /\ haveOutput'
      BY <1>1, <1>4, <3>1 DEF ClicksOn
    <3>3. WorldInv'
      BY <1>1, <1>3, <3>2, ClickedFacts DEF WorldInv, Coming
    <3> QED
      BY <1>1, <1>9, <2>2, <2>4, <3>2, <3>3, ClickedFacts DEF Progress, StageInv,
         OutcomeInv,
         Classified, Before, After, Checking
  <2> QED
    BY <2>3, <2>4
<1> QED
  BY <1>2, <1>7, <1>8, <1>9

LEMMA NavigateClassifies ==
  ASSUME LInv, WorldInv, StageInv, OutcomeInv, NavigateOnCore, UNCHANGED lease
  PROVE  WorldInv' /\ Progress'
<1>1. /\ pc = "navigate" /\ pc' = "navigated" /\ result' = result
      /\ UNCHANGED << cursor, baseline, applied, foreign, setup, number, nav, haveOutput >>
      /\ nav <= NavLen
      /\ ~foreign
  <2>1. ~(pc' = "idle" /\ result'.status = "Escalated") /\ pc' # "raised"
    <3>1. setup \in Setups /\ nav \in 1 .. NavLen + 1
      BY DEF LInv, IInv, TypeOK
    <3>2. ~(nav > NavLen)
      BY <3>1, CapabilityFacts DEF NavigateOnCore
    <3> QED
      BY <3>2 DEF NavigateOnCore, Definite
  <2> QED
    BY <2>1 DEF NavigateOnCore, VerifyNavigate, Proceed, Continue, MutationAmbiguous,
       Escalate, Return,
       Propagate, OutcomeInv, Checking
<1>2. setup \in Setups /\ HasRecipe /\ cursor = 4 /\ nav \in {1, 2, 3} /\ setup.capability = Open
  <2>1. setup \in Setups /\ cursor \in Steps /\ Kind[cursor] = "verified" /\ nav \in 1 .. NavLen + 1
    BY <1>1 DEF LInv, IInv, TypeOK, PlaceInv, Checking
  <2>2. HasRecipe /\ cursor = 4
    BY <2>1, CapabilityFacts, TheCapabilities DEF HasRecipe
  <2> QED
    BY <1>1, <2>1, <2>2, TheCapabilities
<1>3. ~Coming("shell") /\ Cleared
  BY <1>1, <1>2 DEF WorldInv, StageInv
<1>4. ClicksOn(setup.capability.navClick[nav])
  BY MakesFacts DEF NavigateOnCore
<1>5. UNCHANGED << store, cookies, shell, doc >>
  BY <1>4 DEF ClicksOn
<1>6. CASE nav = 1
  <2>1. setup.capability.navClick[nav] = "inquiry" /\ "inquiry" # None
    BY <1>2, <1>6, ReplayAssumption DEF Open, Routes
  <2>2. wire' # Nothing /\ wire'.route = "inquiry" /\ wire'.query = shell
    BY <1>4, <2>1 DEF ClicksOn
  <2>3. WorldInv'
    BY <1>1, <1>3, <1>5, <2>2, ClickedFacts DEF WorldInv, Coming
  <2> QED
    BY <1>1, <1>2, <1>3, <1>5, <1>6, <2>3, ClickedFacts DEF Progress, StageInv, OutcomeInv,
       Classified, Before, After, Checking
<1>7. CASE nav = 2
  <2>1. setup.capability.navClick[nav] = None
    BY <1>2, <1>7 DEF Open
  <2>2. UNCHANGED core
    BY <1>4, <2>1 DEF ClicksOn
  <2>3. WorldInv'
    BY <1>1, <1>3, <2>2, ClickedFacts DEF WorldInv, Coming
  <2> QED
    BY <1>1, <1>2, <1>3, <1>5, <1>7, <2>3, ClickedFacts DEF Progress, StageInv, OutcomeInv,
       Classified, Before, After, Checking
<1>8. CASE nav = 3
  <2>1. setup.capability.navClick[nav] = "search" /\ "search" # None
    BY <1>2, <1>8, ReplayAssumption DEF Open, Routes
  <2>2. wire' # Nothing /\ wire'.route = "search" /\ wire'.number = number /\ wire'.query = doc.query
    BY <1>4, <2>1 DEF ClicksOn
  <2>3. OnInquiry
    BY <1>1, <1>8 DEF LInv, CoreInv, RecipeInv
  <2>4. SearchComing'
    BY <1>1, <1>5, <2>2, <2>3 DEF SearchComing, OnInquiry, Coming
  <2>5. WorldInv'
    BY <1>1, <1>3, <1>5, <2>2, <2>3, ClickedFacts DEF WorldInv, Coming, OnInquiry
  <2> QED
    BY <1>1, <1>2, <1>3, <1>5, <1>8, <2>4, <2>5, ClickedFacts
    DEF Progress, StageInv, OutcomeInv,
       Classified, Before, After, Checking
<1> QED
  BY <1>2, <1>6, <1>7, <1>8

LEMMA CommitClassifies ==
  ASSUME LInv, WorldInv, StageInv, OutcomeInv, CommitOnCore, UNCHANGED lease
  PROVE  WorldInv' /\ Progress'
<1>1. /\ pc = "commit" /\ pc' \in {"respond", "navigate"} /\ result' = result
      /\ UNCHANGED << cursor, baseline, foreign, setup, number, haveOutput >>
      /\ applied = 0
      /\ setup \in Setups /\ cursor \in Steps /\ Kind[cursor] = "verified"
      /\ pc' = "navigate" => nav' = 1
      /\ (pc' = "navigate") <=> (wire'.route = "held")
  BY DEF CommitOnCore, Commit, Definite, Continue, Refused, SurfaceFailure, Return, LInv,
     IInv,
         EffectInv, PlaceInv, TypeOK
<1>2. HasRecipe /\ cursor = 4
  BY <1>1, CapabilityFacts, TheCapabilities DEF HasRecipe
<1>3. FormShown /\ Cleared /\ baseline = (IF foreign THEN "present" ELSE "absent")
      /\ ~Coming("shell")
  BY <1>1, <1>2 DEF StageInv, WorldInv, Before
<1>4. PICK r \in Requests : /\ r.number = doc.number
                            /\ r.number \in Member
                            /\ OpenSubAccount(r)
                            /\ r = Request("open", doc.number, doc.query)
  BY CommitDisplays DEF LInv
<1>5. r.number = number /\ RequestScenario(r) = World
  <2>1. r.query = doc.query /\ doc.query = Suffix(World)
    BY <1>3, <1>4 DEF Request, WorldInv, FormShown
  <2> QED
    BY <1>3, <1>4, <2>1, WorldFacts DEF LInv, FormShown, RequestScenario
<1>6. /\ created' \in [Member -> {0, 1}]
      /\ created[number] = 1 => created'[number] = 1
      /\ created[number] = 0 => created'[number] = IF World = "commit_dropped" THEN 0 ELSE 1
      /\ wire' # Nothing
      /\ wire'.route \in Answers
      /\ wire'.route = "rejected" <=> created[number] = 1
      /\ wire'.query = Suffix(World)
      /\ UNCHANGED << acknowledged, scenarioCookie, verifiedCookie, shell, doc >>
  BY <1>4, <1>5, Opened DEF LInv
<1>7. number \in Member /\ created[number] \in {0, 1} /\ (foreign <=> created[number] = 1)
  BY <1>1, <1>4, <1>5, NotYet DEF LInv, CoreTypeOK, HasSubAccount
<1>8. applied' = IF foreign \/ World = "commit_dropped" THEN 0 ELSE 1
  <2>1. applied' = IF HasSubAccount(number)' = HasSubAccount(number) THEN applied ELSE applied + 1
    BY DEF CommitOnCore
  <2>2. /\ HasSubAccount(number) <=> created[number] = 1
        /\ HasSubAccount(number)' <=> created'[number] = 1
    BY <1>1, <1>6, <1>7 DEF HasSubAccount
  <2>3. (HasSubAccount(number)' = HasSubAccount(number)) <=> foreign \/ World = "commit_dropped"
    <3>1. HasSubAccount(number) \in BOOLEAN /\ HasSubAccount(number)' \in BOOLEAN
      BY DEF HasSubAccount
    <3> QED
      BY <1>6, <1>7, <2>2, <3>1
  <2> QED
    BY <1>1, <2>1, <2>3
<1>9. World' = World /\ Cleared' = Cleared /\ HasRecipe' = HasRecipe
  <2>1. World' = World
    BY <1>6 DEF World
  <2> QED
    BY <1>1, <1>6, <2>1, SetupConstant DEF Cleared
<1>10. WorldInv'
  BY <1>3, <1>6, <1>9 DEF WorldInv, Coming, Answers
<1>11. pc' = "navigate" => ~foreign
  BY <1>1, <1>6, <1>7
<1> QED
  BY <1>1, <1>2, <1>3, <1>6, <1>7, <1>8, <1>9, <1>10, <1>11 DEF Progress, StageInv,
     OutcomeInv,
     Classified, Before, After, Checking

\* The answers to a run's requests, with the scenario of all of them.
LEMMA AnswerClassifies ==
  ASSUME LInv, WorldInv, Progress, Answer, pc # "start", pc \notin Judging
  PROVE  WorldInv' /\ Progress'
<1> DEFINE n == wire.number
           s == RequestScenario(wire)
<1>1. /\ wire # Nothing /\ wire \in Requests
      /\ UNCHANGED << number, applied, foreign, setup, owner, pc, nav, cursor, baseline,
                      haveOutput, result >>
      /\ wire.route \in {"shell", "inquiry", "search", "profile", "form"} \cup Answers
  BY DEF Answer, Serve, AtRest, NotByThisRun, LInv, CoreInv, AnswerInv, CoreTypeOK,
     Requests,
         Routes, WorldInv
<1>2. ServedAs(n, s)
  BY <1>1, Served DEF Answer, LInv, Answers
<1>3. CASE wire.route = "shell"
  <2>1. /\ Coming("shell") /\ pc = "scope" /\ cursor = 1 /\ scenarioCookie = Nothing
        /\ wire.query \in Query
    BY <1>1, <1>3 DEF Coming, WorldInv, Requests
  <2>2. /\ scenarioCookie' = IF wire.query # Nothing THEN s ELSE Nothing
        /\ shell' = Suffix(s)
        /\ doc' = Document("blank", Nothing, Nothing)
        /\ wire' = Request("inquiry", Nothing, Suffix(s))
        /\ verifiedCookie' = verifiedCookie
    BY <1>2, <1>3, <2>1 DEF ServedAs
  <2>3. World' = s
    <3>1. s = ResolveScenario(wire.query, Nothing)
      BY <2>1 DEF RequestScenario
    <3>2. CASE wire.query = Nothing
      BY <2>2, <3>1, <3>2 DEF World, ResolveScenario
    <3>3. CASE wire.query # Nothing
      <4>1. s \in Scenario /\ s # Nothing
        BY <2>1, <3>1, ScenarioFacts, CoreAssumption DEF Query
      <4> HIDE DEF s
      <4> QED
        BY <2>2, <3>3, <4>1 DEF World, ResolveScenario
    <3> QED
      BY <3>2, <3>3
  <2>4. /\ wire'.route = "inquiry" /\ wire'.query = Suffix(s)
        /\ doc'.page = "blank"
    BY <2>2 DEF Request, Document
  <2>5. WorldInv'
    <3> HIDE DEF s
    <3> QED
      BY <1>1, <2>2, <2>3, <2>4 DEF WorldInv, Coming
  <2>6. HasRecipe' = HasRecipe
    BY <1>1, SetupConstant
  <2> QED
    BY <1>1, <2>1, <2>5, <2>6 DEF Progress, StageInv, OutcomeInv, Classified, Before,
       After, Checking
<1>4. CASE wire.route # "shell"
  <2>1. ~Coming("shell")
    BY <1>4 DEF Coming
  <2>2. s = World
    BY <1>1, <2>1, WorldFacts DEF WorldInv, RequestScenario, LInv
  <2>3. ServedAs(n, World)
    BY <1>2, <2>2
  <2> HIDE DEF s, n
  <2>4. UNCHANGED << created, acknowledged, scenarioCookie, verifiedCookie, shell >>
    BY <1>1, <1>4, <2>3 DEF ServedAs, Answers
  <2>5. /\ World' = World
        /\ Cleared' = Cleared
        /\ LookupVerdict' = LookupVerdict
        /\ WriteVerdict' = WriteVerdict
        /\ VerificationDialog(number, World)' = VerificationDialog(number, World)
        /\ SearchPage' = SearchPage
        /\ SearchDialog' = SearchDialog
        /\ HasRecipe' = HasRecipe
    BY <1>1, <2>4, ClickedFacts
  <2>6. WorldInv'
    <3>1. /\ wire' # Nothing => wire'.query = Suffix(World) /\ wire'.route = "profile"
          /\ doc'.page # "blank" => doc'.query = Suffix(World)
      BY <1>1, <1>4, <2>1, <2>3 DEF ServedAs, Forwards, Renders, ShowsProfile, WorldInv,
         Answers
    <3> QED
      BY <1>1, <2>1, <2>4, <2>5, <3>1 DEF WorldInv, Coming
  <2>7. SearchComing => SearchShown' \/ ProfileComing'
    <3>1. CASE Found(number, World)
      BY <1>1, <2>3, <2>5, <3>1 DEF SearchComing, Coming, ServedAs, Forwards,
         ProfileComing, n
    <3>2. CASE ~Found(number, World)
      <4>1. SearchComing => Renders("not_found", number, World)
        BY <1>1, <2>3, <3>2 DEF SearchComing, Coming, ServedAs, n
      <4>2. SearchPage = "not_found" /\ ~SearchDialog
        BY <3>2 DEF SearchPage, SearchDialog
      <4> QED
        BY <1>1, <2>5, <4>1, <4>2 DEF Renders, SearchShown
    <3> QED
      BY <3>1, <3>2
  <2>8. ProfileComing => SearchShown'
    <3> SUFFICES ASSUME ProfileComing PROVE SearchShown'
      OBVIOUS
    <3>1. ShowsProfile(number, World) /\ Found(number, World)
      BY <2>3 DEF ProfileComing, Coming, ServedAs, n
    <3>2. SearchPage = ProfilePage(number, World)
      BY <3>1 DEF SearchPage
    <3> QED
      BY <1>1, <2>5, <3>1, <3>2 DEF ShowsProfile, SearchShown, SearchDialog
  <2>9. ~SearchShown /\ ~FormShown
    BY <1>1 DEF SearchShown, FormShown
  <2>10. Cleared /\ Coming("form") /\ wire.number = number => FormShown'
    BY <1>1, <2>3 DEF Cleared, Coming, ServedAs, Renders, FormShown, n
  <2>11. wire.route \in Answers => wire' = Nothing /\ (doc'.page = "rejected" <=> wire.route = "rejected")
    BY <2>3 DEF ServedAs, Answers
  <2>12. StageInv'
    BY <1>1, <2>5, <2>7, <2>8, <2>9, <2>10 DEF Progress, StageInv, SearchSettled, Before,
       After
  <2>13. OutcomeInv'
    BY <1>1, <2>5, <2>7, <2>8, <2>9, <2>11 DEF Progress, OutcomeInv, SearchSettled, Checking
  <2>14. Classified'
    BY <1>1, <2>5 DEF Progress, Classified, Writes
  <2> QED
    BY <2>6, <2>12, <2>13, <2>14 DEF Progress
<1> QED
  BY <1>3, <1>4

\* The run starts in a fresh browser.
LEMMA StartClassifies ==
  ASSUME LInv, StartOnShell
  PROVE  WorldInv' /\ Progress'
<1>1. /\ pc = "start" /\ pc' = "scope"
      /\ UNCHANGED << cursor, applied, setup, owner >>
  BY StartDisplays DEF LInv, StartOnShell, Start
<1>2. cursor = 1 /\ applied = 0 /\ owner = "automation"
  BY <1>1 DEF LInv, CoreInv, RunInv, IInv, EffectInv, DriverInv, Before, Judging
<1>3. /\ wire' # Nothing /\ wire'.route = "shell"
      /\ scenarioCookie' = Nothing /\ verifiedCookie' = Nothing
  BY StartDisplays DEF LInv
<1> QED
  BY <1>1, <1>2, <1>3 DEF WorldInv, Progress, StageInv, OutcomeInv, Classified, Coming,
     Before, After,
     Checking

LEMMA ScenarioStep ==
  ASSUME AsTabulated, LInv, ScenarioInv, [LegacyNext]_allvars
  PROVE  ScenarioInv'
<1> SUFFICES ASSUME Unaided' PROVE WorldInv' /\ Progress'
  BY DEF ScenarioInv, Progress
<1>1. CASE UNCHANGED allvars
  <2>1. Stays /\ UNCHANGED << pc, nav, cursor, baseline, haveOutput, result >>
    BY <1>1 DEF allvars, vars, Stays
  <2>2. WorldInv /\ Progress
    BY <2>1 DEF Unaided, ScenarioInv, Progress, Stays
  <2>3. WorldInv'
    BY <2>1, <2>2, StaysFacts DEF WorldInv, Stays
  <2>4. Progress'
    BY <2>1, <2>2, StaysFacts DEF Progress, StageInv, OutcomeInv, Classified, Writes, Stays
  <2> QED
    BY <2>3, <2>4
<1>2. CASE LegacyNext /\ pc = "start"
  <2>1. StartOnShell
    <3>1. ~Teller /\ ~Answer
      BY <1>2 DEF Teller, Answer, AtRest, Unaided
    <3>2. ~Session
      BY <1>2 DEF Session, Look, ExecuteOnCore, NavigateOnCore, CommitOnCore, CheckScope,
         CheckDialog, RecheckScope, Resolve, BaselineView, BaselineEffect, FinishScope,
         FinishSuccess, Respond, VerifyScope, VerifyDialog, VerifyView, VerifyEffect,
         VerifyExtract, VerifySuccess, Reconcile, AssessScope, PollDialog, PollCheckpoint
    <3>3. ~OperateOnCore
      BY <1>2 DEF OperateOnCore, TakeControl, Perform, ResumeAmbiguous, ResumeBlocked
    <3> QED
      BY <1>2, <3>1, <3>2, <3>3 DEF LegacyNext
  <2> QED
    BY <2>1, StartClassifies
<1>3. CASE LegacyNext /\ pc # "start"
  <2>1. epoch = 0
    <3>1. epoch' = epoch \/ epoch' = epoch + 1
      BY <1>3, LeaseMoves DEF LInv, lease
    <3> QED
      BY <3>1 DEF Unaided, LInv, IInv, TypeOK, LeaseTypeOK
  <2>2. WorldInv /\ StageInv /\ OutcomeInv /\ Progress
    BY <1>3, <2>1 DEF ScenarioInv, Unaided, Progress
  <2>3. /\ pc \notin Judging
        /\ UNCHANGED lease
        /\ Look \/ ExecuteOnCore \/ NavigateOnCore \/ CommitOnCore \/ Answer
    BY <1>3, <2>1, <2>2, NoHuman DEF Unaided
  <2> QED
    BY <1>3, <2>2, <2>3, LookClassifies, ExecuteClassifies, NavigateClassifies,
       CommitClassifies,
       AnswerClassifies
<1> QED
  BY <1>1, <1>2, <1>3

\* Where the allowlist covers the demo's pages and an absent effect is
\* authoritative, a run no human touches ends in its scenario's verdict, for
\* either capability, any member number and whatever was in the store before.
\* The look-up's verdicts are those docs/eval-scenarios.md gives; the write's depart
\* from it where the code does: under SLOW it may also be MUTATION_AMBIGUOUS
\* (session.py:553), and without a record it is CHECKPOINT_FAILED.
THEOREM ScenariosAreClassified ==
  ASSUME InScope = Page, Authority = {TRUE}
  PROVE  LegacySpec => []ScenarioVerdicts
<1>1. LegacyInit => ScenarioInv
  BY DEF LegacyInit, Init, ScenarioInv, Unaided
<1>2. LInv /\ ScenarioInv /\ [LegacyNext]_allvars => ScenarioInv'
  BY ScenarioStep DEF AsTabulated
<1>3. ScenarioInv => ScenarioVerdicts
  BY DEF ScenarioInv, Unaided, Classified, ScenarioVerdicts
<1> QED
  BY LegacyInvariance, <1>1, <1>2, <1>3, PTL DEF LegacySpec

=============================================================================
