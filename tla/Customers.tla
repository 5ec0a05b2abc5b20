------------------------------ MODULE Customers ------------------------------
(***************************************************************************)
(* The customers of one business and what hangs on their identity: the      *)
(* quotes linked to them, the links by mail that sign them (or the owner)   *)
(* in, the sessions those links open, and their answer to being texted.     *)
(*   application/portal.py, application/owner.py (sign-in),                 *)
(*   application/intake.py (the answer about texts, the booking request),   *)
(*   domain/customers.py, domain/customer_linking.py, domain/owner.py,      *)
(*   domain/owner_actions.py, composition/owner_change_tools.py (the        *)
(*   customer tools), infrastructure/customer_repositories.py,              *)
(*   interfaces/http/portal.py, interfaces/configure_business.py.           *)
(*                                                                         *)
(* Requests and the outbox worker run concurrently, each in a transaction   *)
(* that reads first and writes later (READ COMMITTED): a task here reads in *)
(* one step and writes in another, under the conditions its statements      *)
(* carry.  A quote is saved only at the version that was read; a customer's *)
(* row is filled with no condition at all.                                  *)
(*                                                                         *)
(* A name is kept like a phone number but for the consent, and is left out; *)
(* so are the payload of a mail and quotes without an e-mail.               *)
(***************************************************************************)
EXTENDS Integers, Sequences, FiniteSets

CONSTANTS
  Tasks,       \* requests and workers that act at the same time
  Quotes,      \* quotes of the business, each drafted to a recipient
  EmailOf,     \* the e-mail a quote is addressed to
  PhoneOf,     \* the phone number in it, or None
  Emails, Phones,
  OwnerEmails, \* the e-mails the operator may configure as the owner's
  Chats,       \* intake conversations
  MaxCustomers, MaxLinks, MaxPlans, MaxNow,   \* bounds
  None

ASSUME CustomersAssumption ==
  /\ EmailOf \in [Quotes -> Emails]
  /\ PhoneOf \in [Quotes -> Phones \cup {None}]
  /\ OwnerEmails \subseteq Emails
  /\ MaxCustomers \in Nat /\ MaxLinks \in Nat /\ MaxPlans \in Nat /\ MaxNow \in Nat
  /\ None \notin Emails \cup Phones \cup Quotes \cup Chats \cup Nat

VARIABLES
  customers,   \* the rows of the customers, in the order they were added
  quote,       \* status of each quote, and the customer it is linked to
  links,       \* the sign-in links issued, in order
  sessions,    \* the sessions opened, in order
  owner,       \* the owner's e-mail
  chat,        \* the intake conversations
  plans,       \* edits of a customer read back to the owner, waiting for a YES
  heard,       \* every answer about texts that was written, by customer
  now,         \* clock: raised whenever an answer takes its time from it
  pc, seen,    \* what each task is at, and what it has read
  moved        \* <<task, quote>>: the quote was saved since the task read it

tasks == <<pc, seen, moved>>
vars == <<customers, quote, links, sessions, owner, chat, plans, heard, now, tasks>>

Ids == DOMAIN customers
Answers == BOOLEAN \cup {None}          \* sms_consent

Customer == [email : Emails \cup {None}, phone : Phones \cup {None}, consent : Answers,
             at : 0 .. MaxNow]
LinkRow == [role : {"owner", "customer"}, customer : Nat \cup {None}, to : Emails,
            state : {"queued", "mailed", "dropped", "used"}, expired : BOOLEAN]
Chat == [state : {"none", "live", "over"}, customer : Nat \cup {None}, consent : Answers,
         at : 0 .. MaxNow]
Edit == [customer : Nat, before : Phones \cup {None}, phone : Phones \cup {None},
         email : Emails \cup {None}]
Seen == [email : Emails \cup {None}, holder : Nat \cup {None}, blank : BOOLEAN,
         quotes : SUBSET Quotes, link : Nat \cup {None}, chat : Chats \cup {None},
         consent : Answers, at : 0 .. MaxNow]

Unread == [email |-> None, holder |-> None, blank |-> FALSE, quotes |-> {}, link |-> None,
           chat |-> None, consent |-> None, at |-> 0]
NoChat == [state |-> "none", customer |-> None, consent |-> None, at |-> 0]

TypeOK ==
  /\ customers \in Seq(Customer) /\ Len(customers) <= MaxCustomers
  /\ quote \in [Quotes -> [status : {"awaiting", "approved"}, customer : Nat \cup {None}]]
  /\ links \in Seq(LinkRow)
  /\ sessions \in Seq([link : Nat, live : BOOLEAN])
  /\ owner \in Emails \cup {None}
  /\ chat \in [Chats -> Chat]
  /\ plans \subseteq Edit
  /\ heard \in [1 .. MaxCustomers -> SUBSET ((0 .. MaxNow) \X Answers)]
  /\ now \in 0 .. MaxNow
  /\ pc \in [Tasks -> {"idle", "link", "login", "exchange", "open", "answer"}]
  /\ seen \in [Tasks -> Seen]
  /\ moved \subseteq Tasks \X Quotes

Init ==
  /\ customers = <<>>
  /\ \E old \in SUBSET Quotes :   \* approved before customers were kept
       quote = [q \in Quotes |-> [status |-> IF q \in old THEN "approved" ELSE "awaiting",
                                  customer |-> None]]
  /\ links = <<>> /\ sessions = <<>>
  /\ owner = None
  /\ chat = [c \in Chats |-> NoChat]
  /\ plans = {}
  /\ heard = [c \in 1 .. MaxCustomers |-> {}]
  /\ now = 0
  /\ pc = [t \in Tasks |-> "idle"]
  /\ seen = [t \in Tasks |-> Unread]
  /\ moved = {}

-----------------------------------------------------------------------------
(***************************************************************************)
(* The customers table.                                                    *)
(***************************************************************************)

\* The customer of an e-mail: the unique index of the table allows one.
Holders(e) == {c \in Ids : customers[c].email = e}
Holder(e) == IF Holders(e) = {} THEN None ELSE CHOOSE c \in Holders(e) : TRUE

NewCustomer(e, p) == [email |-> e, phone |-> p, consent |-> None, at |-> 0]
Added(e, p) == Append(customers, NewCustomer(e, p))

\* The blank phone of c is filled: the row is written as it was read.
Filled(c, blank, p) ==
  IF blank /\ p # None THEN [customers EXCEPT ![c].phone = p] ELSE customers

\* upsert, by a task that read the row of the e-mail (or that there is none).
\* Whoever finds the e-mail taken when it inserts reads that row instead.
Upserted(s, p) ==
  LET late == Holder(s.email)
  IN CASE s.holder # None -> Filled(s.holder, s.blank, p)
       [] s.holder = None /\ late # None -> Filled(late, customers[late].phone = None, p)
       [] OTHER -> Added(s.email, p)

\* The customer an upsert returns.
Upsertee(s) ==
  IF s.holder # None THEN s.holder
  ELSE IF Holder(s.email) # None THEN Holder(s.email)
  ELSE Len(customers) + 1

\* Whatever is on file (mutant).
NewerAlways(c, at) == TRUE

\* set_sms_consent: unless the customer already has a newer answer.
Newer(c, at) == customers[c].at <= at
Consented(rows, c, answer, at) ==
  [rows EXCEPT ![c].consent = answer, ![c].at = at]

\* The row of c, as a task keeps what it needs of it.
Read(e) ==
  [Unread EXCEPT !.email = e, !.holder = Holder(e),
     !.blank = Holder(e) # None /\ customers[Holder(e)].phone = None]

Begin(t, step, record) ==
  /\ pc[t] = "idle"
  /\ pc' = [pc EXCEPT ![t] = step]
  /\ seen' = [seen EXCEPT ![t] = record]

\* The task is over; whoever read the quotes it saved has read old versions.
Finish(t, saved) ==
  /\ pc' = [pc EXCEPT ![t] = "idle"]
  /\ seen' = [seen EXCEPT ![t] = Unread]
  /\ moved' = {m \in moved : m[1] # t}
              \cup {m \in Tasks \X saved : m[1] # t /\ m[2] \in seen[m[1]].quotes}

-----------------------------------------------------------------------------
(***************************************************************************)
(* Linking quotes: the owner's approval, and every later step of a quote.   *)
(***************************************************************************)

\* The quote is read, and then the customer it is addressed to.
StartStep(t, q) ==
  /\ Begin(t, "link", [Read(EmailOf[q]) EXCEPT !.quotes = {q}])
  /\ UNCHANGED <<customers, quote, links, sessions, owner, chat, plans, heard, now, moved>>

\* The step changes the quote, which was approved by it at the latest, and
\* fails as a whole when another step came between.
FinishStep(t) ==
  /\ pc[t] = "link"
  /\ \E q \in seen[t].quotes :
       IF <<t, q>> \in moved
       THEN UNCHANGED <<customers, quote>> /\ Finish(t, {})
       ELSE /\ Upsertee(seen[t]) <= MaxCustomers
            /\ customers' = Upserted(seen[t], PhoneOf[q])
            /\ quote' = [quote EXCEPT ![q] = [status |-> "approved",
                                              customer |-> Upsertee(seen[t])]]
            /\ Finish(t, {q})
  /\ UNCHANGED <<links, sessions, owner, chat, plans, heard, now>>

-----------------------------------------------------------------------------
(***************************************************************************)
(* Signing in.                                                             *)
(***************************************************************************)

\* The recipient is not compared (mutant).
UnlinkedOfAnyone(e) ==
  {q \in Quotes : quote[q].status = "approved" /\ quote[q].customer = None}

\* list_unlinked_for_email
Unlinked(e) ==
  {q \in Quotes : EmailOf[q] = e /\ quote[q].status = "approved" /\ quote[q].customer = None}

Link(role, customer, e) ==
  [role |-> role, customer |-> customer, to |-> e, state |-> "queued", expired |-> FALSE]

\* The owner signs in on the same page.
OwnerLogin(e) ==
  /\ owner = e /\ Len(links) < MaxLinks
  /\ links' = Append(links, Link("owner", None, e))
  /\ UNCHANGED <<customers, quote, sessions, owner, chat, plans, heard, now, tasks>>

\* An address nobody knows gets nothing.
StartLogin(t, e) ==
  /\ owner # e
  /\ Holder(e) # None \/ Unlinked(e) # {}
  /\ Begin(t, "login", [Read(e) EXCEPT !.quotes = Unlinked(e)])
  /\ UNCHANGED <<customers, quote, links, sessions, owner, chat, plans, heard, now, moved>>

\* The quotes that still stand as they were read: the others link on their
\* next step.
Linkable(t) == {q \in seen[t].quotes : <<t, q>> \notin moved}

\* request_login: a customer is made of one of the unlinked quotes when the
\* e-mail has none, and a link goes only to one who holds a quote.
FinishLogin(t) ==
  LET c == Upsertee(seen[t])
      linked == [q \in Quotes |-> IF q \in Linkable(t) THEN [quote[q] EXCEPT !.customer = c]
                                                        ELSE quote[q]]
  IN /\ pc[t] = "login" /\ c <= MaxCustomers /\ Len(links) < MaxLinks
     /\ IF seen[t].holder # None
        THEN customers' = customers
        ELSE \E q \in seen[t].quotes : customers' = Upserted(seen[t], PhoneOf[q])
     /\ quote' = linked
     /\ links' = IF \E q \in Quotes : linked[q].customer = c
                 THEN Append(links, Link("customer", c, seen[t].email))
                 ELSE links
     /\ Finish(t, Linkable(t))
     /\ UNCHANGED <<sessions, owner, chat, plans, heard, now>>

\* The worker sends the link to its address, unless it expired on the queue.
SendLink(k) ==
  /\ links[k].state = "queued"
  /\ links' = [links EXCEPT ![k].state = IF links[k].expired THEN "dropped" ELSE "mailed"]
  /\ UNCHANGED <<customers, quote, sessions, owner, chat, plans, heard, now, tasks>>

ExpireLink(k) ==
  /\ ~links[k].expired
  /\ links' = [links EXCEPT ![k].expired = TRUE]
  /\ UNCHANGED <<customers, quote, sessions, owner, chat, plans, heard, now, tasks>>

Usable(k) == links[k].state = "mailed" /\ ~links[k].expired

\* An owner's link is theirs only as long as the business is.
OwnersStill(k) == links[k].role = "owner" => links[k].to = owner

\* A link is opened: the token is read (the owner's table first).
StartExchange(t, k) ==
  /\ Usable(k) /\ OwnersStill(k)
  /\ Begin(t, "exchange", [Unread EXCEPT !.link = k])
  /\ UNCHANGED <<customers, quote, links, sessions, owner, chat, plans, heard, now, moved>>

\* It was unused when it was read (mutant).
UnusedWhenRead(k) == TRUE

\* mark_used, WHERE used_at IS NULL
Unused(k) == links[k].state # "used"

NewSession(k) == [link |-> k, live |-> TRUE]

\* The link is used up and a session opened, by the one whose update counted.
FinishExchange(t) ==
  LET k == seen[t].link
  IN /\ pc[t] = "exchange"
     /\ IF Unused(k)
        THEN /\ links' = [links EXCEPT ![k].state = "used"]
             /\ sessions' = Append(sessions, NewSession(k))
        ELSE UNCHANGED <<links, sessions>>
     /\ Finish(t, {})
     /\ UNCHANGED <<customers, quote, owner, chat, plans, heard, now>>

\* The session is revoked, or its time is up.
EndSession(s) ==
  /\ sessions[s].live
  /\ sessions' = [sessions EXCEPT ![s].live = FALSE]
  /\ UNCHANGED <<customers, quote, links, owner, chat, plans, heard, now, tasks>>

\* configure_business names another owner.
SetOwner(e) ==
  /\ owner' = e /\ e # owner
  /\ UNCHANGED <<customers, quote, links, sessions, chat, plans, heard, now, tasks>>

\* authenticate, of a customer
SignedIn(s) == sessions[s].live /\ links[sessions[s].link].role = "customer"

-----------------------------------------------------------------------------
(***************************************************************************)
(* The owner's edits, by text: read back first, done at YES.                *)
(***************************************************************************)

\* Nobody else has the e-mail: enough to replace one (mutant).
MayTakeAnother(c, e) == Holder(e) = None

\* add_email: a first e-mail, that nobody else has.
MayTake(c, e) == customers[c].email = None /\ Holder(e) = None

\* What a customer's record may become: another number, or a first e-mail.
ProposeEdit(c, p, e) ==
  /\ Cardinality(plans) < MaxPlans
  /\ p # None \/ e # None
  /\ p # customers[c].phone
  /\ e # None => MayTake(c, e)
  /\ plans' = plans \cup {[customer |-> c, before |-> customers[c].phone,
                           phone |-> IF p = None THEN customers[c].phone ELSE p, email |-> e]}
  /\ UNCHANGED <<customers, quote, links, sessions, owner, chat, heard, now, tasks>>

\* update_details, compared under the row's lock
AsReadBack(pl) == customers[pl.customer].phone = pl.before

\* A new number never agreed to texts.
Disagrees(pl) == pl.phone # pl.before /\ customers[pl.customer].consent = TRUE

Edited(pl) ==
  LET row == customers[pl.customer]
  IN [row EXCEPT !.phone = pl.phone,
                 !.email = IF pl.email = None THEN @ ELSE pl.email,
                 !.consent = IF Disagrees(pl) THEN None ELSE @,
                 !.at = IF Disagrees(pl) THEN now + 1 ELSE @]

ApplyEdit(pl) ==
  /\ now < MaxNow
  /\ plans' = plans \ {pl}
  /\ IF AsReadBack(pl) /\ (pl.email # None => MayTake(pl.customer, pl.email))
     THEN /\ customers' = [customers EXCEPT ![pl.customer] = Edited(pl)]
          /\ IF Disagrees(pl)
             THEN /\ now' = now + 1
                  /\ heard' = [heard EXCEPT ![pl.customer] = @ \cup {<<now + 1, None>>}]
             ELSE UNCHANGED <<now, heard>>
     ELSE UNCHANGED <<customers, now, heard>>
  /\ UNCHANGED <<quote, links, sessions, owner, chat, tasks>>

\* change_create_customer, at YES
CreateCustomer(e, p) ==
  /\ e # None \/ p # None
  /\ e # None => Holder(e) = None
  /\ Len(customers) < MaxCustomers
  /\ customers' = Added(e, p)
  /\ UNCHANGED <<quote, links, sessions, owner, chat, plans, heard, now, tasks>>

-----------------------------------------------------------------------------
(***************************************************************************)
(* The answer about texts, given in a chat.                                *)
(***************************************************************************)

\* set_sms_consent on rows, and what was written of it.
Tell(rows, c, answer, at) ==
  IF c # None /\ answer # None /\ (c \in Ids => Newer(c, at))
  THEN /\ customers' = Consented(rows, c, answer, at)
       /\ heard' = [heard EXCEPT ![c] = @ \cup {<<at, answer>>}]
  ELSE /\ customers' = rows
       /\ heard' = IF c \in Ids /\ answer # None
                   THEN [heard EXCEPT ![c] = @ \cup {<<at, answer>>}] ELSE heard

\* A visitor's chat, with the box ticked, unticked or not asked.
StartVisitor(ch, answer) ==
  /\ chat[ch].state = "none" /\ now < MaxNow
  /\ now' = now + 1
  /\ chat' = [chat EXCEPT ![ch] = [state |-> "live", customer |-> None, consent |-> answer,
                                   at |-> IF answer = None THEN 0 ELSE now + 1]]
  /\ UNCHANGED <<customers, quote, links, sessions, owner, plans, heard, tasks>>

\* A signed-in customer opens a chat: their record is read with the session.
StartPortal(t, s, ch) ==
  LET c == links[sessions[s].link].customer
  IN /\ SignedIn(s)
     /\ chat[ch].state = "none"
     /\ Begin(t, "open", [Unread EXCEPT !.chat = ch, !.holder = c,
                            !.consent = customers[c].consent, !.at = customers[c].at])
     /\ UNCHANGED <<customers, quote, links, sessions, owner, chat, plans, heard, now, moved>>

\* An answer given with it reaches the record at once; without one the chat
\* takes over the record's, as it was read.
FinishPortal(t, answer) ==
  LET s == seen[t]
      given == answer # None
      at == IF given THEN now + 1 ELSE s.at
  IN /\ pc[t] = "open" /\ chat[s.chat].state = "none"
     /\ given => now < MaxNow
     /\ now' = IF given THEN now + 1 ELSE now
     /\ chat' = [chat EXCEPT ![s.chat] = [state |-> "live", customer |-> s.holder, at |-> at,
                                          consent |-> IF given THEN answer ELSE s.consent]]
     /\ Tell(customers, s.holder, answer, at)
     /\ Finish(t, {})
     /\ UNCHANGED <<quote, links, sessions, owner, plans>>

\* record_sms_consent takes its time before it waits for the chat's lock.
StartAnswer(t, ch, answer) ==
  /\ chat[ch].state # "none" /\ now < MaxNow
  /\ now' = now + 1
  /\ Begin(t, "answer", [Unread EXCEPT !.chat = ch, !.consent = answer, !.at = now + 1])
  /\ UNCHANGED <<customers, quote, links, sessions, owner, chat, plans, heard, moved>>

\* A finished chat still takes a withdrawal, never a new yes.
Accepts(ch, answer) == chat[ch].consent # answer /\ (answer => chat[ch].state = "live")

FinishAnswer(t) ==
  LET s == seen[t]
  IN /\ pc[t] = "answer"
     /\ IF Accepts(s.chat, s.consent)
        THEN /\ chat' = [chat EXCEPT ![s.chat].consent = s.consent, ![s.chat].at = s.at]
             /\ Tell(customers, chat[s.chat].customer, s.consent, s.at)
        ELSE UNCHANGED <<chat, customers, heard>>
     /\ Finish(t, {})
     /\ UNCHANGED <<quote, links, sessions, owner, plans, now>>

\* A slot is picked, once the visitor gave an e-mail and a phone (a signed-in
\* customer's are not asked): a typed e-mail may start a customer, never join one, and
\* the chat's answer goes on the customer's record with its own time.
PickSlot(ch, e, p) ==
  LET joins == chat[ch].customer = None /\ Holder(e) = None
      rows == IF joins THEN Added(e, p) ELSE customers
      c == IF joins THEN Len(rows) ELSE chat[ch].customer
  IN /\ chat[ch].state = "live"
     /\ Len(rows) <= MaxCustomers
     /\ chat' = [chat EXCEPT ![ch].customer = c]
     /\ Tell(rows, c, chat[ch].consent, chat[ch].at)
     /\ UNCHANGED <<quote, links, sessions, owner, plans, now, tasks>>

CloseChat(ch) ==
  /\ chat[ch].state = "live"
  /\ chat' = [chat EXCEPT ![ch].state = "over"]
  /\ UNCHANGED <<customers, quote, links, sessions, owner, plans, heard, now, tasks>>

-----------------------------------------------------------------------------
Owning ==
  \/ \E e \in Emails : OwnerLogin(e)
  \/ \E e \in OwnerEmails : SetOwner(e)
  \/ \E c \in Ids, p \in Phones \cup {None}, e \in Emails \cup {None} : ProposeEdit(c, p, e)
  \/ \E pl \in plans : ApplyEdit(pl)
  \/ \E p \in Phones \cup {None}, e \in Emails \cup {None} : CreateCustomer(e, p)

SigningIn ==
  \/ \E t \in Tasks, e \in Emails : StartLogin(t, e)
  \/ \E t \in Tasks : FinishLogin(t) \/ FinishExchange(t)
  \/ \E t \in Tasks, k \in DOMAIN links : StartExchange(t, k)
  \/ \E k \in DOMAIN links : SendLink(k) \/ ExpireLink(k)
  \/ \E s \in DOMAIN sessions : EndSession(s)

Chatting ==
  \/ \E ch \in Chats, a \in Answers : StartVisitor(ch, a)
  \/ \E t \in Tasks, s \in DOMAIN sessions, ch \in Chats : StartPortal(t, s, ch)
  \/ \E t \in Tasks, a \in Answers : FinishPortal(t, a)
  \/ \E t \in Tasks, ch \in Chats, a \in BOOLEAN : StartAnswer(t, ch, a)
  \/ \E t \in Tasks : FinishAnswer(t)
  \/ \E ch \in Chats, p \in Phones, e \in Emails : PickSlot(ch, e, p)
  \/ \E ch \in Chats : CloseChat(ch)

Next ==
  \/ \E t \in Tasks, q \in Quotes : StartStep(t, q)
  \/ \E t \in Tasks : FinishStep(t)
  \/ Owning \/ SigningIn \/ Chatting

Spec == Init /\ [][Next]_vars

-----------------------------------------------------------------------------
(***************************************************************************)
(* What the customers' identity promises.                                  *)
(***************************************************************************)

\* A quote is only ever somebody's whose e-mail it is addressed to, whoever
\* linked it and however the rows raced: the portal shows it, with its link to
\* pay, to that customer alone (customer_linking.py:167, portal.py:316).
QuoteFollowsItsEmail ==
  \A q \in Quotes :
    quote[q].customer # None => customers[quote[q].customer].email = EmailOf[q]

\* A link that is opened twice at the same moment signs one of them in
\* (customer_repositories.py:264 and :398).
OneSessionPerLink ==
  \A s, u \in DOMAIN sessions : sessions[s].link = sessions[u].link => s = u

\* A customer's session was opened from the mailbox that is the customer's
\* now: no edit since gave the account to another address
\* (customer_repositories.py:149).
SessionsBelongToReaders ==
  \A s \in DOMAIN sessions :
    LET k == links[sessions[s].link]
    IN k.role = "customer" => customers[k.customer].email = k.to

\* What the record says about texts is the newest of all the answers that
\* reached it, from whatever chat and in whatever order they were written, a
\* number changed by the owner taking back the yes that came before it
\* (customer_repositories.py:191 and :204).
NewestAnswerStands ==
  \A c \in Ids :
    \A a \in heard[c] :
      (\A b \in heard[c] : b[1] <= a[1]) => customers[c].consent = a[2]
=============================================================================
