----------------------------- MODULE LegacyCore -----------------------------
(***************************************************************************)
(* The demo application (demo_app/legacy_core): its members and their      *)
(* sub-accounts, the runtime scenarios it can be put into, and the one     *)
(* browser whose workspace frame shows its documents.                      *)
(*                                                                         *)
(* A handler is an action on the request it answers.  It runs to its end   *)
(* without an await, but for the two places that sleep, so its reads and   *)
(* its writes are one step; the browser and a redirect make new requests.  *)
(***************************************************************************)
EXTENDS Naturals, FiniteSets

CONSTANTS
  Member,       \* the member numbers on record
  Number,       \* the member numbers somebody may ask for
  Unrecognized, \* a value of the scenario switch that names no Scenario
  Nothing       \* Python's None, for a number, a query, a cookie or a request

Scenario ==
  {"normal", "slow", "not_found", "session_expired", "permission_denied",
   "unexpected_dialog", "verification_required", "commit_then_timeout", "commit_ambiguous",
   "commit_dropped", "commit_unverifiable", "verification_dialog"}

Query == Scenario \cup {Unrecognized, Nothing}

\* What open_sub_account answers with, and every route a request may take.
Answers == {"created", "pending", "rejected", "held"}

Routes ==
  {"shell", "inquiry", "search", "profile", "ack", "form", "open", "verify",
   "verify_wrong"} \cup Answers

Requests == [route : Routes, number : Number \cup {Nothing}, query : Query]

ASSUME CoreAssumption ==
  /\ Member \subseteq Number
  /\ Unrecognized \notin Scenario
  /\ Nothing \notin Number \cup Scenario \cup {Unrecognized} \cup Requests

VARIABLES
  created,        \* _created: member -> number of its sub-accounts
  acknowledged,   \* _acknowledged: members whose dialog was acknowledged
  dispatchCount,  \* _dispatch_count
  scenarioCookie, \* the browser's scenario cookie
  verifiedCookie, \* the member its verified cookie names
  shell,          \* the query of the links of the top document
  doc,            \* the document in the workspace frame
  wire            \* the workspace's request, or the answer held back, or Nothing

store == << created, acknowledged, dispatchCount >>
cookies == << scenarioCookie, verifiedCookie >>
core == << store, cookies, shell, doc, wire >>

Request(route, number, query) == [route |-> route, number |-> number, query |-> query]

Document(kind, number, query) ==
  [page |-> kind, number |-> number, query |-> query, rows |-> 0, dialog |-> FALSE,
   ack |-> Nothing]

PageKinds ==
  {"blank", "inquiry", "not_found", "expired", "denied", "verification", "interrupted",
   "profile", "form", "rejected", "pending", "created"}

\* resolve_scenario: the query, then the cookie; what is unknown is normal.
ResolveScenario(query, cookie) ==
  LET raw == IF query # Nothing THEN query ELSE cookie IN
  IF raw \in Scenario THEN raw ELSE "normal"

RequestScenario(r) == ResolveScenario(r.query, scenarioCookie)

\* _suffix: what the links of a document rendered under s carry on.
Suffix(s) == IF s = "normal" THEN Nothing ELSE s

HasSubAccount(number) == number \in Member /\ created[number] > 0

\* find_member, and the switch that lets it find nobody.
Found(number, s) == number \in Member /\ s # "not_found"

-----------------------------------------------------------------------------
(* Handlers *)

Render(d) ==
  /\ doc' = d
  /\ wire' = Nothing
  /\ UNCHANGED << scenarioCookie, shell >>

Redirect(r) ==
  /\ wire' = r
  /\ UNCHANGED << scenarioCookie, shell, doc >>

\* shell: it keeps an explicit scenario in the cookie, and its frame asks for
\* the inquiry.
Shell(r) ==
  LET s == RequestScenario(r) IN
  /\ scenarioCookie' = IF r.query # Nothing THEN s ELSE scenarioCookie
  /\ shell' = Suffix(s)
  /\ doc' = Document("blank", Nothing, Nothing)
  /\ wire' = Request("inquiry", Nothing, Suffix(s))
  /\ UNCHANGED << store, verifiedCookie >>

Inquiry(r) ==
  /\ Render(Document("inquiry", Nothing, Suffix(RequestScenario(r))))
  /\ UNCHANGED << store, verifiedCookie >>

NotFoundPage(r) == Render(Document("not_found", r.number, Suffix(RequestScenario(r))))

SubmitInquiry(r) ==
  LET s == RequestScenario(r) IN
  /\ IF Found(r.number, s) THEN Redirect(Request("profile", r.number, Suffix(s)))
                           ELSE NotFoundPage(r)
  /\ UNCHANGED << store, verifiedCookie >>

\* The order in which member_profile decides what it shows.
ProfilePage(number, s) ==
  IF s = "session_expired" THEN "expired"
  ELSE IF s = "permission_denied" THEN "denied"
  ELSE IF ~Found(number, s) THEN "not_found"
  ELSE IF s = "verification_required" /\ verifiedCookie # number THEN "verification"
  ELSE IF s = "commit_unverifiable" /\ HasSubAccount(number) THEN "interrupted"
  ELSE "profile"

\* Mutant: an acknowledgement does not count.
StillBlocked(number, s) == s = "verification_dialog" /\ HasSubAccount(number)

VerificationDialog(number, s) ==
  s = "verification_dialog" /\ HasSubAccount(number) /\ number \notin acknowledged

\* member_profile: its read is the read-back of a write.  The dialog of
\* UNEXPECTED_DIALOG is left through a link that asks for NORMAL, that of
\* VERIFICATION_DIALOG through the acknowledgement.
MemberProfile(r) ==
  LET s == RequestScenario(r)
      blocked == VerificationDialog(r.number, s)
      plain == Document(ProfilePage(r.number, s), r.number, Suffix(s)) IN
  /\ Render(IF plain.page # "profile" THEN plain
            ELSE [plain EXCEPT
                    !.rows = created[r.number],
                    !.dialog = s = "unexpected_dialog" \/ blocked,
                    !.ack = IF blocked THEN Request("ack", r.number, Suffix(s))
                            ELSE Request("profile", r.number, "normal")])
  /\ UNCHANGED << store, verifiedCookie >>

AcknowledgeVerification(r) ==
  /\ acknowledged' = acknowledged \cup {r.number}
  /\ Redirect(Request("profile", r.number, Suffix(RequestScenario(r))))
  /\ UNCHANGED << created, dispatchCount, verifiedCookie >>

SubAccountForm(r) ==
  /\ IF r.number \in Member THEN Render(Document("form", r.number, Suffix(RequestScenario(r))))
                            ELSE NotFoundPage(r)
  /\ UNCHANGED << store, verifiedCookie >>

Withheld == {"commit_then_timeout", "commit_ambiguous", "commit_unverifiable"}

\* Mutants: the dropped commit is carried out; the store is asked after it.
CommitsAnyway(number, s) == ~HasSubAccount(number)
AskedTooLate(number, s) ==
  IF HasSubAccount(number) \/ CommitsAnyway(number, s) THEN "rejected" ELSE "pending"

Commits(number, s) == ~HasSubAccount(number) /\ s # "commit_dropped"

\* What open_sub_account answers with; "held" is COMMIT_THEN_TIMEOUT's sleep.
OpenAnswer(number, s) ==
  IF HasSubAccount(number) THEN "rejected"
  ELSE IF s = "commit_then_timeout" THEN "held"
  ELSE IF s \in Withheld \cup {"commit_dropped"} THEN "pending"
  ELSE "created"

\* open_sub_account up to its answer, which is on the wire: every invocation is
\* counted, and whether it commits does not depend on the answer arriving.
OpenSubAccount(r) ==
  LET s == RequestScenario(r) IN
  IF r.number \notin Member
  THEN NotFoundPage(r) /\ UNCHANGED << store, verifiedCookie >>
  ELSE /\ dispatchCount' = dispatchCount + 1
       /\ created' = IF Commits(r.number, s) THEN [created EXCEPT ![r.number] = @ + 1]
                                             ELSE created
       /\ wire' = Request(OpenAnswer(r.number, s), r.number, Suffix(s))
       /\ UNCHANGED << acknowledged, cookies, shell, doc >>

\* reset_demo_state: POST /reset, from a terminal.
ResetDemoState ==
  /\ created' = [m \in Member |-> 0]
  /\ acknowledged' = {}
  /\ dispatchCount' = 0
  /\ UNCHANGED << cookies, shell, doc, wire >>

\* The answer of open_sub_account reaches the browser.
DeliverAnswer(r) ==
  /\ r.route \in Answers
  /\ Render(Document(IF r.route = "held" THEN "pending" ELSE r.route, r.number, r.query))
  /\ UNCHANGED << store, verifiedCookie >>

\* verify_member, with the right code and with any other.
VerifyMember(r) ==
  LET s == RequestScenario(r) IN
  /\ IF ~Found(r.number, "normal") THEN NotFoundPage(r)
     ELSE IF r.route = "verify" THEN Redirect(Request("profile", r.number, Suffix(s)))
     ELSE Render(Document("verification", r.number, Suffix(s)))
  /\ verifiedCookie' = IF r.route = "verify" /\ Found(r.number, "normal") THEN r.number
                                                                          ELSE verifiedCookie
  /\ UNCHANGED store

Serve ==
  /\ wire # Nothing
  /\ CASE wire.route = "shell"   -> Shell(wire)
       [] wire.route = "inquiry" -> Inquiry(wire)
       [] wire.route = "search"  -> SubmitInquiry(wire)
       [] wire.route = "profile" -> MemberProfile(wire)
       [] wire.route = "ack"     -> AcknowledgeVerification(wire)
       [] wire.route = "form"    -> SubAccountForm(wire)
       [] wire.route = "open"    -> OpenSubAccount(wire)
       [] wire.route \in Answers -> DeliverAnswer(wire)
       [] OTHER                  -> VerifyMember(wire)

\* Answers that may still be out when wait_settled returns: a sleeping handler
\* changes no URL, and two equal readings are all it waits for.
Late(r) == r.route = "held" \/ (r.route = "profile" /\ RequestScenario(r) = "slow")

Settled == wire # Nothing => Late(wire)

-----------------------------------------------------------------------------
(* The browser *)

\* The requests the controls of the documents on display make.  A dialog makes
\* the rest of its document inert; the link to the inquiry is the shell's.
Controls ==
  LET own(route) == {Request(route, doc.number, doc.query)} IN
  {Request("inquiry", Nothing, shell)} \cup
  (CASE doc.page \in {"inquiry", "not_found"} -> {Request("search", n, doc.query) : n \in Number}
     [] doc.page = "profile" /\ doc.dialog -> {doc.ack}
     [] doc.page = "profile" /\ ~doc.dialog -> own("form")
     [] doc.page \in {"form", "rejected"} -> own("open")
     [] doc.page = "verification" -> own("verify") \cup own("verify_wrong")
     [] OTHER -> {})

\* A click that navigates the workspace: what was still on its way is dropped.
Click(r) ==
  /\ r \in Controls
  /\ wire' = r
  /\ UNCHANGED << store, cookies, shell, doc >>

\* A browser without cookies that is told to load the shell.
Opens(query) ==
  /\ scenarioCookie' = Nothing
  /\ verifiedCookie' = Nothing
  /\ shell' = Nothing
  /\ doc' = Document("blank", Nothing, Nothing)
  /\ wire' = Request("shell", Nothing, query)
  /\ UNCHANGED store

CoreInit ==
  /\ created = [m \in Member |-> 0]
  /\ acknowledged = {}
  /\ dispatchCount = 0
  /\ scenarioCookie = Nothing
  /\ verifiedCookie = Nothing
  /\ shell = Nothing
  /\ doc = Document("blank", Nothing, Nothing)
  /\ \E query \in Query : wire = Request("shell", Nothing, query)

=============================================================================
