--------------------------- MODULE CustomersProofs ---------------------------
(***************************************************************************)
(* The customers of a business, for any tasks, quotes, addresses and bounds: *)
(* a quote and a session belong to the mailbox that reads them, a link opens *)
(* one session, and the newest answer about texts stands.  The invariant has *)
(* two halves: who an e-mail belongs to (IdentityInv), and which answer was  *)
(* given when (AnswersInv).                                                 *)
(*                                                                         *)
(* Then the bookings they ask for, a system of its own (IntakeSpec): what    *)
(* is put on the calendar was approved, a link decides the request it was    *)
(* mailed for, and the booking a new request would replace is not lost; and, *)
(* for one worker, a retry of a booking does not offer it again.             *)
(***************************************************************************)
EXTENDS Customers, IntakeBooking, SequenceTheorems, TLAPS

\* A reference to a customer names a row.
Known(c) == c = None \/ c \in Ids

ReferencesFit ==
  /\ \A q \in Quotes : Known(quote[q].customer)
  /\ \A ch \in Chats : Known(chat[ch].customer)
  /\ \A pl \in plans : pl.customer \in Ids
  /\ \A s \in DOMAIN sessions : sessions[s].link \in DOMAIN links

\* What a task read that it still relies on: the customer of the e-mail keeps it.
TaskFits(t) ==
  /\ pc[t] \in {"link", "login"} =>
       /\ seen[t].email \in Emails
       /\ \A q \in seen[t].quotes : EmailOf[q] = seen[t].email
       /\ seen[t].holder # None =>
            seen[t].holder \in Ids /\ customers[seen[t].holder].email = seen[t].email
  /\ pc[t] = "exchange" => seen[t].link \in DOMAIN links
  /\ pc[t] = "open" => seen[t].holder \in Ids
  /\ pc[t] \in {"open", "answer"} => seen[t].chat \in Chats

TasksFit == \A t \in Tasks : TaskFits(t)

\* A customer's link goes to the e-mail on the record.
LinkFits(link) ==
  link.role = "customer" => link.customer \in Ids /\ customers[link.customer].email = link.to

LinksFit == \A k \in DOMAIN links : LinkFits(links[k])

\* A session was opened with a link, and used it up.
UsedUp == \A s \in DOMAIN sessions : links[sessions[s].link].state = "used"

IdentityInv ==
  /\ ReferencesFit /\ TasksFit /\ LinksFit /\ UsedUp
  /\ QuoteFollowsItsEmail /\ OneSessionPerLink

\* Every answer about texts that is on its way or was written, with its time.
OnRecord == {a \in (0 .. MaxNow) \X Answers : \E c \in 1 .. MaxCustomers : a \in heard[c]}
InChats ==
  {a \in (0 .. MaxNow) \X Answers :
     \E ch \in Chats : chat[ch].consent # None /\ a = <<chat[ch].at, chat[ch].consent>>}
InTasks ==
  {a \in (0 .. MaxNow) \X Answers :
     \E t \in Tasks : seen[t].consent # None /\ a = <<seen[t].at, seen[t].consent>>}
Given == OnRecord \cup InChats \cup InTasks

\* The clock gives no time twice.
OneAnswerAtATime ==
  /\ \A a \in Given : 0 < a[1] /\ a[1] <= now
  /\ \A a, b \in Given : a[1] = b[1] => a[2] = b[2]

\* The record has the time and the answer of the newest that was written.
RecordIsNewest ==
  /\ \A c \in (1 .. MaxCustomers) \ Ids : heard[c] = {}
  /\ \A c \in Ids :
       /\ \A a \in heard[c] : a[1] <= customers[c].at
       /\ customers[c].at = 0 => customers[c].consent = None
       /\ customers[c].at # 0 => <<customers[c].at, customers[c].consent>> \in heard[c]

AnswersInv == OneAnswerAtATime /\ RecordIsNewest

IInv == TypeOK /\ IdentityInv /\ AnswersInv

-----------------------------------------------------------------------------
(***************************************************************************)
(* The customers table.                                                    *)
(***************************************************************************)

LEMMA RowFacts ==
  ASSUME TypeOK
  PROVE  /\ Len(customers) \in Nat /\ Ids = 1 .. Len(customers) /\ Ids \subseteq 1 .. MaxCustomers
         /\ \A c \in Ids : c \in Nat /\ c # None /\ customers[c] \in Customer
         /\ \A c \in Ids : /\ customers[c].email \in Emails \cup {None}
                           /\ customers[c].at \in 0 .. MaxNow /\ customers[c].consent \in Answers
<1>1. Len(customers) \in Nat /\ Ids = 1 .. Len(customers) /\ Len(customers) <= MaxCustomers
  BY DEF TypeOK, Ids
<1>2. \A c \in Ids : customers[c] \in Customer
  BY DEF TypeOK, Ids
<1>3. Ids \subseteq 1 .. MaxCustomers /\ \A c \in Ids : c \in Nat /\ c # None
  BY <1>1, CustomersAssumption
<1>4. \A c \in Ids : /\ customers[c].email \in Emails \cup {None}
                     /\ customers[c].at \in 0 .. MaxNow /\ customers[c].consent \in Answers
  BY <1>2 DEF Customer
<1>5. QED
  BY <1>1, <1>2, <1>3, <1>4

\* The customer of an e-mail, if it has one.
LEMMA HolderFacts ==
  ASSUME TypeOK, NEW e
  PROVE  /\ Holder(e) # None => Holder(e) \in Ids /\ customers[Holder(e)].email = e
         /\ Holder(e) = None => \A c \in Ids : customers[c].email # e
<1>1. CASE Holders(e) = {}
  BY <1>1 DEF Holder, Holders
<1>2. CASE Holders(e) # {}
  <2>1. Holder(e) \in Holders(e)
    BY <1>2 DEF Holder
  <2>2. Holder(e) # None
    BY <2>1, RowFacts DEF Holders
  <2>3. QED
    BY <2>1, <2>2 DEF Holders
<1>3. QED
  BY <1>1, <1>2

\* Rows are added, and no e-mail is taken from one.
RowsKept ==
  /\ customers' \in Seq(Customer) /\ Len(customers') <= MaxCustomers
  /\ Ids \subseteq Ids'
  /\ \A c \in Ids : customers[c].email # None => customers'[c].email = customers[c].email

\* No answer is taken either, and a new row has none.
AnswersKept ==
  /\ \A c \in Ids : /\ customers'[c].at = customers[c].at
                    /\ customers'[c].consent = customers[c].consent
  /\ \A c \in Ids' \ Ids : customers'[c].at = 0 /\ customers'[c].consent = None

LEMMA SameRows ==
  ASSUME TypeOK, UNCHANGED customers
  PROVE  RowsKept /\ AnswersKept
  BY DEF RowsKept, AnswersKept, TypeOK, Ids

LEMMA AddedFacts ==
  ASSUME TypeOK, Len(customers) < MaxCustomers,
         NEW e \in Emails \cup {None}, NEW p \in Phones \cup {None}, customers' = Added(e, p)
  PROVE  LET c == Len(customers) + 1 IN
         /\ RowsKept /\ AnswersKept
         /\ Ids' = Ids \cup {c} /\ c \notin Ids /\ customers'[c].email = e
<1> DEFINE row == NewCustomer(e, p)
           c == Len(customers) + 1
<1>1. row \in Customer /\ row.email = e /\ row.at = 0 /\ row.consent = None
  BY CustomersAssumption DEF NewCustomer, Customer, Answers
<1> HIDE DEF row
<1>2. customers' = Append(customers, row)
  BY DEF Added, row
<1>3. /\ customers' \in Seq(Customer) /\ Len(customers') = c /\ customers'[c] = row
      /\ \A d \in Ids : customers'[d] = customers[d]
  BY <1>1, <1>2 DEF TypeOK, Ids
<1>4. Ids' = 1 .. c
  BY <1>3 DEF Ids
<1>5. Ids' = Ids \cup {c} /\ c \notin Ids /\ Len(customers') <= MaxCustomers
  BY <1>3, <1>4, RowFacts, CustomersAssumption
<1>6. QED
  BY <1>1, <1>3, <1>5 DEF RowsKept, AnswersKept

\* A row is written in place.
LEMMA WrittenFacts ==
  ASSUME TypeOK, NEW c \in Ids, NEW row \in Customer, customers' = [customers EXCEPT ![c] = row],
         customers[c].email # None => row.email = customers[c].email
  PROVE  /\ RowsKept /\ Ids' = Ids /\ customers'[c] = row
         /\ \A d \in Ids \ {c} : customers'[d] = customers[d]
<1>1. /\ customers' \in Seq(Customer) /\ Len(customers') = Len(customers)
      /\ Ids' = Ids /\ customers'[c] = row
      /\ \A d \in Ids \ {c} : customers'[d] = customers[d]
  BY DEF TypeOK, Ids
<1>2. QED
  BY <1>1 DEF RowsKept, TypeOK

\* A blank phone is filled, and nothing else.
LEMMA FilledFacts ==
  ASSUME TypeOK, NEW c \in Ids, NEW blank, NEW p \in Phones \cup {None},
         customers' = Filled(c, blank, p)
  PROVE  /\ RowsKept /\ AnswersKept /\ Ids' = Ids
         /\ \A d \in Ids : customers'[d].email = customers[d].email
<1> DEFINE row == [customers[c] EXCEPT !.phone = p]
<1>1. /\ row \in Customer /\ row.email = customers[c].email
      /\ row.at = customers[c].at /\ row.consent = customers[c].consent
  <2>1. customers[c] \in Customer
    BY RowFacts
  <2>2. QED
    BY <2>1 DEF Customer
<1>2. CASE customers' = customers
  BY <1>2, SameRows DEF Ids
<1>3. CASE customers' = [customers EXCEPT ![c] = row]
  <2> HIDE DEF row
  <2>1. /\ RowsKept /\ Ids' = Ids /\ customers'[c] = row
        /\ \A d \in Ids \ {c} : customers'[d] = customers[d]
    BY <1>1, <1>3, WrittenFacts
  <2>2. QED
    BY <1>1, <2>1 DEF AnswersKept
<1>4. customers' = customers \/ customers' = [customers EXCEPT ![c] = row]
  <2>1. customers[c] \in Customer
    BY RowFacts
  <2>2. [customers EXCEPT ![c].phone = p] = [customers EXCEPT ![c] = row]
    BY DEF Ids
  <2>3. QED
    BY <2>2 DEF Filled
<1>5. QED
  BY <1>2, <1>3, <1>4

\* An upsert gives the e-mail to one customer, found early, found late or new.
LEMMA UpsertFacts ==
  ASSUME TypeOK, NEW s \in Seen, s.email \in Emails,
         s.holder # None => s.holder \in Ids /\ customers[s.holder].email = s.email,
         NEW p \in Phones \cup {None}, Upsertee(s) <= MaxCustomers, customers' = Upserted(s, p)
  PROVE  /\ RowsKept /\ AnswersKept
         /\ Upsertee(s) \in Ids' /\ customers'[Upsertee(s)].email = s.email
<1>1. CASE s.holder # None
  <2>1. customers' = Filled(s.holder, s.blank, p) /\ Upsertee(s) = s.holder
    BY <1>1 DEF Upserted, Upsertee
  <2>2. QED
    BY <1>1, <2>1, FilledFacts
<1>2. CASE s.holder = None /\ Holder(s.email) # None
  <2> DEFINE c == Holder(s.email)
             blank == customers[c].phone = None
  <2>1. customers' = Filled(c, blank, p) /\ Upsertee(s) = c
    BY <1>2 DEF Upserted, Upsertee
  <2>2. c \in Ids /\ customers[c].email = s.email
    BY <1>2, HolderFacts
  <2> HIDE DEF c, blank
  <2>3. /\ RowsKept /\ AnswersKept /\ Ids' = Ids
        /\ \A d \in Ids : customers'[d].email = customers[d].email
    BY <2>1, <2>2, FilledFacts
  <2>4. QED
    BY <2>1, <2>2, <2>3
<1>3. CASE s.holder = None /\ Holder(s.email) = None
  <2>1. customers' = Added(s.email, p) /\ Upsertee(s) = Len(customers) + 1
    BY <1>3 DEF Upserted, Upsertee
  <2>2. Len(customers) < MaxCustomers
    BY <2>1, RowFacts, CustomersAssumption
  <2>3. QED
    BY <2>1, <2>2, AddedFacts
<1>4. QED
  BY <1>1, <1>2, <1>3

-----------------------------------------------------------------------------
(***************************************************************************)
(* Tasks: one reads, and later writes.                                     *)
(***************************************************************************)

LEMMA UnreadFacts ==
  /\ Unread \in Seen /\ Unread.consent = None
  /\ \A t \in Tasks : pc[t] = "idle" => TaskFits(t)
<1>1. 0 \in 0 .. MaxNow /\ {} \in SUBSET Quotes
  BY CustomersAssumption
<1>2. Unread \in Seen /\ Unread.consent = None
  BY <1>1 DEF Unread, Seen, Answers
<1>3. QED
  BY <1>2 DEF TaskFits

LEMMA BeginFacts ==
  ASSUME TypeOK, NEW t \in Tasks, NEW record \in Seen,
         NEW step \in {"link", "login", "exchange", "open", "answer"}, Begin(t, step, record)
  PROVE  /\ pc' \in [Tasks -> {"idle", "link", "login", "exchange", "open", "answer"}]
         /\ seen' \in [Tasks -> Seen]
         /\ pc'[t] = step /\ seen'[t] = record
         /\ \A u \in Tasks \ {t} : pc'[u] = pc[u] /\ seen'[u] = seen[u]
  BY DEF Begin, TypeOK

LEMMA FinishFacts ==
  ASSUME TypeOK, NEW t \in Tasks, NEW saved \in SUBSET Quotes, Finish(t, saved)
  PROVE  /\ pc' \in [Tasks -> {"idle", "link", "login", "exchange", "open", "answer"}]
         /\ seen' \in [Tasks -> Seen] /\ moved' \subseteq Tasks \X Quotes
         /\ pc'[t] = "idle" /\ seen'[t] = Unread
         /\ \A u \in Tasks \ {t} : pc'[u] = pc[u] /\ seen'[u] = seen[u]
<1>1. moved' \subseteq Tasks \X Quotes
  BY DEF Finish, TypeOK
<1>2. QED
  BY <1>1, UnreadFacts DEF Finish, TypeOK

\* What another task read stays so.
LEMMA TasksStay ==
  ASSUME IInv, RowsKept, DOMAIN links \subseteq DOMAIN links',
         \A t \in Tasks : TaskFits(t)' \/ (pc'[t] = pc[t] /\ seen'[t] = seen[t])
  PROVE  TasksFit'
<1> SUFFICES ASSUME NEW t \in Tasks, pc'[t] = pc[t], seen'[t] = seen[t]
             PROVE  TaskFits(t)'
  BY DEF TasksFit
<1>1. TaskFits(t)
  BY DEF IInv, IdentityInv, TasksFit
<1>2. \A e \in Emails : e # None
  BY CustomersAssumption
<1>3. QED
  BY <1>1, <1>2 DEF TaskFits, RowsKept

\* The links keep whose they are, and a customer's address is not taken.
LEMMA LinksStay ==
  ASSUME IInv, RowsKept, links \in Seq(LinkRow),
         \A k \in DOMAIN links' :
           \/ LinkFits(links[k])'
           \/ /\ k \in DOMAIN links
              /\ links'[k].role = links[k].role /\ links'[k].customer = links[k].customer
              /\ links'[k].to = links[k].to
  PROVE  LinksFit'
<1> SUFFICES ASSUME NEW k \in DOMAIN links, k \in DOMAIN links',
                    links'[k].role = links[k].role, links'[k].customer = links[k].customer,
                    links'[k].to = links[k].to
             PROVE  LinkFits(links[k])'
  BY DEF LinksFit
<1>1. LinkFits(links[k]) /\ links[k] \in LinkRow
  BY DEF IInv, IdentityInv, LinksFit
<1>2. links[k].to # None
  BY <1>1, CustomersAssumption DEF LinkRow
<1>3. QED
  BY <1>1, <1>2 DEF LinkFits, RowsKept

\* What refers to a customer or a link still does.
LEMMA ReferencesStay ==
  ASSUME IInv, RowsKept, DOMAIN links \subseteq DOMAIN links',
         \A q \in Quotes : Known(quote[q].customer)' \/ quote'[q].customer = quote[q].customer,
         \A ch \in Chats : Known(chat[ch].customer)' \/ chat'[ch].customer = chat[ch].customer,
         \A pl \in plans' : pl.customer \in Ids' \/ pl \in plans,
         \A s \in DOMAIN sessions' :
           \/ sessions'[s].link \in DOMAIN links'
           \/ s \in DOMAIN sessions /\ sessions'[s].link = sessions[s].link
  PROVE  ReferencesFit'
  BY DEF IInv, IdentityInv, ReferencesFit, Known, RowsKept

LEMMA QuoteStays ==
  ASSUME IInv, RowsKept, NEW q \in Quotes, quote[q].customer # None
  PROVE  customers'[quote[q].customer].email = EmailOf[q]
<1>1. quote[q].customer \in Ids /\ customers[quote[q].customer].email = EmailOf[q]
  BY DEF IInv, IdentityInv, ReferencesFit, Known, QuoteFollowsItsEmail
<1>2. EmailOf[q] # None
  BY CustomersAssumption
<1>3. QED
  BY <1>1, <1>2 DEF RowsKept

LEMMA QuotesStay ==
  ASSUME IInv, RowsKept, UNCHANGED quote
  PROVE  QuoteFollowsItsEmail'
  BY QuoteStays DEF QuoteFollowsItsEmail

LEMMA SessionsStay ==
  ASSUME IInv, UNCHANGED sessions, \A k \in DOMAIN links : links[k].state = "used" => links'[k].state = "used"
  PROVE  UsedUp' /\ OneSessionPerLink'
  BY DEF IInv, IdentityInv, ReferencesFit, UsedUp, OneSessionPerLink

\* A step that links no quote, issues no link and opens no session.
LEMMA IdentityStays ==
  ASSUME IInv, RowsKept, UNCHANGED <<quote, links, sessions>>,
         \A ch \in Chats : Known(chat[ch].customer)' \/ chat'[ch].customer = chat[ch].customer,
         \A pl \in plans' : pl.customer \in Ids' \/ pl \in plans,
         \A t \in Tasks : TaskFits(t)' \/ (pc'[t] = pc[t] /\ seen'[t] = seen[t])
  PROVE  IdentityInv'
<1>1. ReferencesFit'
  BY ReferencesStay
<1>2. TasksFit'
  BY TasksStay
<1>3. LinksFit'
  BY LinksStay DEF IInv, TypeOK
<1>4. QuoteFollowsItsEmail' /\ UsedUp' /\ OneSessionPerLink'
  BY QuotesStay, SessionsStay
<1>5. QED
  BY <1>1, <1>2, <1>3, <1>4 DEF IdentityInv

-----------------------------------------------------------------------------
(***************************************************************************)
(* Answers about texts.                                                    *)
(***************************************************************************)

\* No answer is given: those on their way are written in no record.
LEMMA AnswersStay ==
  ASSUME IInv, RowsKept, AnswersKept, UNCHANGED <<heard, now>>, Given' \subseteq Given
  PROVE  AnswersInv'
<1>1. OneAnswerAtATime'
  BY DEF IInv, AnswersInv, OneAnswerAtATime
<1>2. \A c \in (1 .. MaxCustomers) \ Ids' : heard'[c] = {}
  BY DEF IInv, AnswersInv, RecordIsNewest, RowsKept
<1>3. \A c \in Ids' \ Ids : heard'[c] = {} /\ customers'[c].at = 0 /\ customers'[c].consent = None
  <2>1. Ids' \subseteq 1 .. MaxCustomers
    BY CustomersAssumption DEF RowsKept, Ids
  <2>2. QED
    BY <2>1 DEF IInv, AnswersInv, RecordIsNewest, AnswersKept
<1>4. \A c \in Ids : /\ customers'[c].at = customers[c].at
                     /\ customers'[c].consent = customers[c].consent
  BY DEF AnswersKept
<1>5. RecordIsNewest'
  BY <1>2, <1>3, <1>4 DEF IInv, AnswersInv, RecordIsNewest
<1>6. QED
  BY <1>1, <1>5 DEF AnswersInv

LEMMA GivenStays ==
  ASSUME IInv, UNCHANGED <<heard, chat>>,
         \A t \in Tasks : \/ seen'[t].consent = None
                         \/ <<seen'[t].at, seen'[t].consent>> \in Given
                         \/ seen'[t] = seen[t]
  PROVE  Given' \subseteq Given
<1>1. OnRecord' = OnRecord /\ InChats' = InChats
  BY DEF OnRecord, InChats
<1>2. InTasks' \subseteq Given
  <2>1. ASSUME NEW a \in InTasks' PROVE a \in Given
    <3>1. PICK t \in Tasks : seen'[t].consent # None /\ a = <<seen'[t].at, seen'[t].consent>>
      BY DEF InTasks
    <3>2. CASE seen'[t] = seen[t]
      <4>1. a \in InTasks
        BY <3>1, <3>2 DEF InTasks
      <4>2. QED
        BY <4>1 DEF Given
    <3>3. QED
      BY <3>1, <3>2
  <2>2. QED
    BY <2>1
<1>3. QED
  BY <1>1, <1>2 DEF Given

\* What is given after a step: the answers that were, and those of S.
LEMMA GivenGrows ==
  ASSUME IInv, NEW S, Given \subseteq S,
         \A c \in 1 .. MaxCustomers : \A a \in heard'[c] : a \in heard[c] \/ a \in S,
         \A ch \in Chats : \/ chat'[ch].consent = None
                           \/ <<chat'[ch].at, chat'[ch].consent>> \in S
                           \/ chat'[ch].at = chat[ch].at /\ chat'[ch].consent = chat[ch].consent,
         \A t \in Tasks : \/ seen'[t].consent = None
                          \/ <<seen'[t].at, seen'[t].consent>> \in S
                          \/ seen'[t] = seen[t]
  PROVE  Given' \subseteq S
<1>1. ASSUME NEW a \in OnRecord' PROVE a \in S
  <2>1. PICK c \in 1 .. MaxCustomers : a \in heard'[c]
    BY DEF OnRecord
  <2>2. a \in (0 .. MaxNow) \X Answers
    BY DEF OnRecord
  <2>3. a \in heard[c] => a \in OnRecord
    BY <2>2 DEF OnRecord
  <2>4. QED
    BY <2>1, <2>3 DEF Given
<1>2. ASSUME NEW a \in InChats' PROVE a \in S
  <2>1. PICK ch \in Chats : chat'[ch].consent # None /\ a = <<chat'[ch].at, chat'[ch].consent>>
    BY DEF InChats
  <2>2. a \in (0 .. MaxNow) \X Answers
    BY DEF InChats
  <2>3. chat'[ch].at = chat[ch].at /\ chat'[ch].consent = chat[ch].consent => a \in InChats
    BY <2>1, <2>2 DEF InChats
  <2>4. QED
    BY <2>1, <2>3 DEF Given
<1>3. ASSUME NEW a \in InTasks' PROVE a \in S
  <2>1. PICK t \in Tasks : seen'[t].consent # None /\ a = <<seen'[t].at, seen'[t].consent>>
    BY DEF InTasks
  <2>2. a \in (0 .. MaxNow) \X Answers
    BY DEF InTasks
  <2>3. seen'[t] = seen[t] => a \in InTasks
    BY <2>1, <2>2 DEF InTasks
  <2>4. QED
    BY <2>1, <2>3 DEF Given
<1>4. QED
  BY <1>1, <1>2, <1>3 DEF Given

\* What a chat or a task holds, or a record keeps, was given.
LEMMA GivenFacts ==
  ASSUME IInv
  PROVE  /\ \A c \in 1 .. MaxCustomers : heard[c] \subseteq Given
         /\ \A ch \in Chats : chat[ch].consent = None \/ <<chat[ch].at, chat[ch].consent>> \in Given
         /\ \A t \in Tasks : seen[t].consent = None \/ <<seen[t].at, seen[t].consent>> \in Given
<1>1. \A c \in 1 .. MaxCustomers : heard[c] \subseteq OnRecord
  BY DEF IInv, TypeOK, OnRecord
<1>2. ASSUME NEW ch \in Chats, chat[ch].consent # None
      PROVE  <<chat[ch].at, chat[ch].consent>> \in InChats
  <2>1. chat[ch].at \in 0 .. MaxNow /\ chat[ch].consent \in Answers
    BY DEF IInv, TypeOK, Chat
  <2>2. QED
    BY <1>2, <2>1 DEF InChats
<1>3. ASSUME NEW t \in Tasks, seen[t].consent # None
      PROVE  <<seen[t].at, seen[t].consent>> \in InTasks
  <2>1. seen[t].at \in 0 .. MaxNow /\ seen[t].consent \in Answers
    BY DEF IInv, TypeOK, Seen
  <2>2. QED
    BY <1>3, <2>1 DEF InTasks
<1>4. QED
  BY <1>1, <1>2, <1>3 DEF Given

\* An answer takes a time that no other has.
LEMMA ClockFacts ==
  ASSUME IInv, NEW x, \/ now' = now /\ Given' \subseteq Given
                      \/ now' = now + 1 /\ Given' \subseteq Given \cup {<<now + 1, x>>}
  PROVE  OneAnswerAtATime'
<1>1. now \in Nat /\ \A a \in Given : a[1] \in Nat
  BY CustomersAssumption DEF IInv, TypeOK, Given, OnRecord, InChats, InTasks
<1>2. /\ \A a \in Given : 0 < a[1] /\ a[1] <= now
      /\ \A a, b \in Given : a[1] = b[1] => a[2] = b[2]
  BY DEF IInv, AnswersInv, OneAnswerAtATime
<1>3. CASE now' = now /\ Given' \subseteq Given
  BY <1>2, <1>3 DEF OneAnswerAtATime
<1>4. CASE now' = now + 1 /\ Given' \subseteq Given \cup {<<now + 1, x>>}
  <2> DEFINE new == <<now + 1, x>>
  <2>1. new[1] = now + 1 /\ \A a \in Given : a[1] # now + 1
    BY <1>1, <1>2
  <2>2. Given' \subseteq Given \cup {new}
    BY <1>4
  <2> HIDE DEF new
  <2>3. \A a \in Given' : 0 < a[1] /\ a[1] <= now + 1
    BY <1>1, <1>2, <2>1, <2>2
  <2>4. \A a, b \in Given' : a[1] = b[1] => a[2] = b[2]
    BY <1>2, <2>1, <2>2
  <2>5. QED
    BY <1>4, <2>3, <2>4 DEF OneAnswerAtATime
<1>5. QED
  BY <1>3, <1>4

\* An answer goes on the record of c, among rows that are there or just added,
\* unless the record has a newer one.
LEMMA TellFacts ==
  ASSUME IInv, NEW rows \in Seq(Customer), Len(rows) <= MaxCustomers, Ids \subseteq DOMAIN rows,
         \A d \in Ids : /\ rows[d].email = customers[d].email /\ rows[d].at = customers[d].at
                        /\ rows[d].consent = customers[d].consent,
         \A d \in DOMAIN rows \ Ids : rows[d].at = 0 /\ rows[d].consent = None,
         NEW c \in DOMAIN rows \cup {None}, NEW answer \in Answers, NEW at \in 0 .. MaxNow,
         answer # None => 0 < at, Tell(rows, c, answer, at)
  PROVE  /\ RowsKept /\ Ids' = DOMAIN rows /\ RecordIsNewest'
         /\ heard' \in [1 .. MaxCustomers -> SUBSET ((0 .. MaxNow) \X Answers)]
         /\ \A d \in 1 .. MaxCustomers :
              \A a \in heard'[d] : a \in heard[d] \/ (answer # None /\ a = <<at, answer>>)
<1>1. /\ DOMAIN rows = 1 .. Len(rows) /\ DOMAIN rows \subseteq 1 .. MaxCustomers
      /\ None \notin DOMAIN rows /\ at \in Nat
  BY CustomersAssumption
<1>2. /\ \A d \in (1 .. MaxCustomers) \ Ids : heard[d] = {}
      /\ \A d \in DOMAIN rows : /\ \A a \in heard[d] : a[1] <= rows[d].at
                                /\ rows[d].at = 0 => rows[d].consent = None
                                /\ rows[d].at # 0 => <<rows[d].at, rows[d].consent>> \in heard[d]
  BY <1>1 DEF IInv, AnswersInv, RecordIsNewest
<1>3. /\ heard \in [1 .. MaxCustomers -> SUBSET ((0 .. MaxNow) \X Answers)]
      /\ \A d \in 1 .. MaxCustomers : \A a \in heard[d] : a[1] \in Nat
      /\ <<at, answer>> \in (0 .. MaxNow) \X Answers
  BY CustomersAssumption DEF IInv, TypeOK
<1>4. CASE c = None \/ answer = None
  <2>1. customers' = rows /\ heard' = heard
    BY <1>1, <1>4 DEF Tell
  <2>2. Ids' = DOMAIN rows
    BY <2>1 DEF Ids
  <2>3. RowsKept
    BY <2>1, <2>2 DEF RowsKept
  <2>4. QED
    BY <1>1, <1>2, <1>3, <2>1, <2>2, <2>3 DEF RecordIsNewest
<1>5. CASE c # None /\ answer # None /\ c \in Ids /\ ~Newer(c, at)
  <2>1. customers' = rows /\ heard' = [heard EXCEPT ![c] = @ \cup {<<at, answer>>}]
    BY <1>5 DEF Tell
  <2>2. Ids' = DOMAIN rows
    BY <2>1 DEF Ids
  <2>3. RowsKept
    BY <2>1, <2>2 DEF RowsKept
  <2>4. rows[c].at \in Nat /\ at < rows[c].at
    <3>1. customers[c].at \in 0 .. MaxNow
      BY <1>5, RowFacts DEF IInv
    <3>2. QED
      BY <1>5, <3>1, <1>1, CustomersAssumption DEF Newer
  <2>5. /\ heard'[c] = heard[c] \cup {<<at, answer>>}
        /\ \A d \in (1 .. MaxCustomers) \ {c} : heard'[d] = heard[d]
        /\ heard' \in [1 .. MaxCustomers -> SUBSET ((0 .. MaxNow) \X Answers)]
    BY <1>1, <1>3, <1>5, <2>1
  <2>6. /\ \A a \in heard'[c] : a[1] <= rows[c].at
        /\ rows[c].at # 0 => <<rows[c].at, rows[c].consent>> \in heard'[c]
    BY <1>1, <1>2, <1>5, <2>4, <2>5
  <2>7. RecordIsNewest'
    BY <1>1, <1>2, <1>5, <2>1, <2>2, <2>5, <2>6 DEF RecordIsNewest
  <2>8. \A d \in 1 .. MaxCustomers :
          \A a \in heard'[d] : a \in heard[d] \/ (answer # None /\ a = <<at, answer>>)
    BY <1>5, <2>5
  <2>9. QED
    BY <2>2, <2>3, <2>5, <2>7, <2>8
<1>6. CASE c # None /\ answer # None /\ (c \in Ids => Newer(c, at))
  <2> DEFINE row == [rows[c] EXCEPT !.consent = answer, !.at = at]
  <2>1. rows[c] \in Customer /\ c \in DOMAIN rows
    BY <1>6
  <2>2. row \in Customer /\ row.email = rows[c].email /\ row.at = at /\ row.consent = answer
    BY <2>1 DEF Customer
  <2>3. /\ customers' = [rows EXCEPT ![c].consent = answer, ![c].at = at]
        /\ heard' = [heard EXCEPT ![c] = @ \cup {<<at, answer>>}]
    BY <1>6 DEF Tell, Consented
  <2>4. customers' = [rows EXCEPT ![c] = row]
    BY <2>1, <2>3
  <2> HIDE DEF row
  <2>5. /\ customers' \in Seq(Customer) /\ Len(customers') = Len(rows)
        /\ Ids' = DOMAIN rows /\ customers'[c] = row
        /\ \A d \in DOMAIN rows \ {c} : customers'[d] = rows[d]
    BY <2>1, <2>2, <2>4 DEF Ids
  <2>6. RowsKept
    BY <2>2, <2>5 DEF RowsKept
  <2>7. /\ heard'[c] = heard[c] \cup {<<at, answer>>}
        /\ \A d \in (1 .. MaxCustomers) \ {c} : heard'[d] = heard[d]
        /\ heard' \in [1 .. MaxCustomers -> SUBSET ((0 .. MaxNow) \X Answers)]
    BY <1>1, <1>3, <2>1, <2>3
  <2>8. rows[c].at <= at /\ rows[c].at \in Nat
    <3>1. rows[c].at \in Nat
      BY <2>1, CustomersAssumption DEF Customer
    <3>2. QED
      BY <1>1, <1>6, <2>1, <3>1 DEF Newer
  <2>9. /\ \A a \in heard'[c] : a[1] <= at
        /\ <<at, answer>> \in heard'[c]
    <3>1. ASSUME NEW a \in heard[c] PROVE a[1] <= at
      <4>1. a[1] <= rows[c].at /\ a[1] \in Nat
        BY <1>1, <1>2, <1>3, <2>1
      <4>2. QED
        BY <1>1, <2>8, <4>1
    <3>2. <<at, answer>>[1] <= at
      BY <1>1
    <3>3. QED
      BY <2>7, <3>1, <3>2
  <2>10. customers'[c].at = at /\ customers'[c].consent = answer
    BY <2>2, <2>5
  <2>11. at # 0
    BY <1>1, <1>6
  <2>12. ASSUME NEW d \in DOMAIN rows
         PROVE  /\ \A a \in heard'[d] : a[1] <= customers'[d].at
                /\ customers'[d].at = 0 => customers'[d].consent = None
                /\ customers'[d].at # 0 =>
                     <<customers'[d].at, customers'[d].consent>> \in heard'[d]
    <3>1. CASE d = c
      BY <2>9, <2>10, <2>11, <3>1
    <3>2. CASE d # c
      BY <1>1, <1>2, <2>5, <2>7, <3>2
    <3>3. QED
      BY <3>1, <3>2
  <2>13. RecordIsNewest'
    BY ZenonT(40), <1>1, <1>2, <2>1, <2>5, <2>7, <2>12 DEF RecordIsNewest
  <2>14. \A d \in 1 .. MaxCustomers :
           \A a \in heard'[d] : a \in heard[d] \/ (answer # None /\ a = <<at, answer>>)
    BY <1>6, <2>7
  <2>15. QED
    BY <2>5, <2>6, <2>7, <2>13, <2>14
<1>7. QED
  BY <1>4, <1>5, <1>6

-----------------------------------------------------------------------------
(***************************************************************************)
(* The steps.                                                              *)
(***************************************************************************)

LEMMA NoStep ==
  ASSUME IInv, UNCHANGED vars
  PROVE  IInv'
<1> USE DEF vars, tasks
<1>1. RowsKept /\ AnswersKept
  BY SameRows DEF IInv
<1>2. IdentityInv'
  BY <1>1, IdentityStays
<1>3. AnswersInv'
  BY <1>1, AnswersStay, GivenStays
<1>4. QED
  BY <1>2, <1>3 DEF IInv, TypeOK

\* A task reads, and nothing else happens.
LEMMA TaskReads ==
  ASSUME IInv, NEW t \in Tasks, NEW record \in Seen,
         NEW step \in {"link", "login", "exchange", "open"}, Begin(t, step, record), TaskFits(t)',
         UNCHANGED <<customers, quote, links, sessions, owner, chat, plans, heard, now, moved>>,
         record.consent = None \/ <<record.at, record.consent>> \in Given
  PROVE  IInv'
<1>1. /\ pc' \in [Tasks -> {"idle", "link", "login", "exchange", "open", "answer"}]
      /\ seen' \in [Tasks -> Seen] /\ seen'[t] = record
      /\ \A u \in Tasks \ {t} : pc'[u] = pc[u] /\ seen'[u] = seen[u]
  BY BeginFacts DEF IInv
<1>2. RowsKept /\ AnswersKept
  BY SameRows DEF IInv
<1>3. IdentityInv'
  BY <1>1, <1>2, IdentityStays
<1>4. Given' \subseteq Given
  BY <1>1, GivenStays
<1>5. AnswersInv'
  BY <1>2, <1>4, AnswersStay
<1>6. QED
  BY <1>1, <1>3, <1>5 DEF IInv, TypeOK

\* What is read of an e-mail and its quotes.
LEMMA ReadFacts ==
  ASSUME TypeOK, NEW e \in Emails, NEW S \in SUBSET Quotes
  PROVE  LET record == [Read(e) EXCEPT !.quotes = S] IN
         /\ record \in Seen /\ record.consent = None
         /\ record.email = e /\ record.holder = Holder(e) /\ record.quotes = S
<1>1. Holder(e) \in Nat \cup {None}
  BY HolderFacts, RowFacts
<1>2. Read(e) \in Seen
  BY <1>1, UnreadFacts DEF Read, Seen
<1>3. Read(e).consent = None /\ Read(e).email = e /\ Read(e).holder = Holder(e)
  BY DEF Read, Unread
<1> HIDE DEF Read
<1>4. QED
  BY <1>2, <1>3 DEF Seen

LEMMA StartStepSafe ==
  ASSUME IInv, NEW t \in Tasks, NEW q \in Quotes, StartStep(t, q)
  PROVE  IInv'
<1> DEFINE record == [Read(EmailOf[q]) EXCEPT !.quotes = {q}]
<1>1. EmailOf[q] \in Emails
  BY CustomersAssumption
<1>2. /\ record \in Seen /\ record.consent = None /\ record.email = EmailOf[q]
      /\ record.holder = Holder(EmailOf[q]) /\ record.quotes = {q}
  BY <1>1, ReadFacts DEF IInv
<1>3. Begin(t, "link", record)
  BY DEF StartStep
<1> HIDE DEF record
<1>4. pc'[t] = "link" /\ seen'[t] = record
  BY <1>2, <1>3, BeginFacts DEF IInv
<1>5. TaskFits(t)'
  BY <1>1, <1>2, <1>4, HolderFacts DEF TaskFits, StartStep, Ids, IInv
<1>6. QED
  BY <1>2, <1>3, <1>5, TaskReads DEF StartStep

LEMMA StartLoginSafe ==
  ASSUME IInv, NEW t \in Tasks, NEW e \in Emails, StartLogin(t, e)
  PROVE  IInv'
<1> DEFINE record == [Read(e) EXCEPT !.quotes = Unlinked(e)]
<1>1. Unlinked(e) \in SUBSET Quotes /\ \A q \in Unlinked(e) : EmailOf[q] = e
  BY DEF Unlinked
<1>2. /\ record \in Seen /\ record.consent = None /\ record.email = e
      /\ record.holder = Holder(e) /\ record.quotes = Unlinked(e)
  BY <1>1, ReadFacts DEF IInv
<1>3. Begin(t, "login", record)
  BY DEF StartLogin
<1> HIDE DEF record
<1>4. pc'[t] = "login" /\ seen'[t] = record
  BY <1>2, <1>3, BeginFacts DEF IInv
<1>5. TaskFits(t)'
  BY <1>1, <1>2, <1>4, HolderFacts DEF TaskFits, StartLogin, Ids, IInv
<1>6. QED
  BY <1>2, <1>3, <1>5, TaskReads DEF StartLogin

LEMMA StartExchangeSafe ==
  ASSUME IInv, NEW t \in Tasks, NEW k \in DOMAIN links, StartExchange(t, k)
  PROVE  IInv'
<1> DEFINE record == [Unread EXCEPT !.link = k]
<1>1. k \in Nat
  BY DEF IInv, TypeOK
<1>2. record \in Seen
  BY <1>1, UnreadFacts DEF Seen
<1>3. record.link = k /\ record.consent = None
  BY DEF Unread
<1>4. Begin(t, "exchange", record)
  BY DEF StartExchange
<1> HIDE DEF record
<1>5. pc'[t] = "exchange" /\ seen'[t] = record
  BY <1>2, <1>4, BeginFacts DEF IInv
<1>6. TaskFits(t)'
  BY <1>3, <1>5 DEF TaskFits, StartExchange
<1>7. QED
  BY <1>2, <1>3, <1>4, <1>6, TaskReads DEF StartExchange

LEMMA StartPortalSafe ==
  ASSUME IInv, NEW t \in Tasks, NEW s \in DOMAIN sessions, NEW ch \in Chats,
         StartPortal(t, s, ch)
  PROVE  IInv'
<1> DEFINE c == links[sessions[s].link].customer
           record == [Unread EXCEPT !.chat = ch, !.holder = c,
                        !.consent = customers[c].consent, !.at = customers[c].at]
<1>1. c \in Ids
  BY DEF StartPortal, SignedIn, IInv, IdentityInv, ReferencesFit, LinksFit, LinkFits
<1>2. /\ c \in Nat /\ customers[c].at \in 0 .. MaxNow /\ customers[c].consent \in Answers
      /\ c \in 1 .. MaxCustomers
  BY <1>1, RowFacts DEF IInv
<1> HIDE DEF c
<1>3. record \in Seen
  BY <1>2, UnreadFacts DEF Seen
<1>4. /\ record.chat = ch /\ record.holder = c
      /\ record.consent = customers[c].consent /\ record.at = customers[c].at
  BY DEF Unread
<1>5. Begin(t, "open", record)
  BY DEF StartPortal, c
<1> HIDE DEF record
<1>6. pc'[t] = "open" /\ seen'[t] = record
  BY <1>3, <1>5, BeginFacts DEF IInv
<1>7. TaskFits(t)'
  BY <1>1, <1>4, <1>6 DEF TaskFits, StartPortal, Ids
<1>8. record.consent = None \/ <<record.at, record.consent>> \in Given
  <2>1. CASE customers[c].at = 0
    BY <1>1, <1>4, <2>1 DEF IInv, AnswersInv, RecordIsNewest
  <2>2. CASE customers[c].at # 0
    <3>1. <<customers[c].at, customers[c].consent>> \in heard[c]
      BY <1>1, <2>2 DEF IInv, AnswersInv, RecordIsNewest
    <3>2. <<customers[c].at, customers[c].consent>> \in OnRecord
      BY <1>2, <3>1 DEF OnRecord
    <3>3. QED
      BY <1>4, <3>2 DEF Given
  <2>3. QED
    BY <2>1, <2>2
<1>9. QED
  BY <1>3, <1>5, <1>7, <1>8, TaskReads DEF StartPortal

\* A task is over, and no answer was given.
LEMMA TaskEnds ==
  ASSUME IInv, NEW t \in Tasks, NEW saved \in SUBSET Quotes, Finish(t, saved),
         UNCHANGED <<owner, chat, plans, heard, now>>, RowsKept, AnswersKept,
         links' \in Seq(LinkRow), sessions' \in Seq([link : Nat, live : BOOLEAN]),
         quote' \in [Quotes -> [status : {"awaiting", "approved"}, customer : Nat \cup {None}]]
  PROVE  /\ TypeOK' /\ AnswersInv'
         /\ \A u \in Tasks : TaskFits(u)' \/ (pc'[u] = pc[u] /\ seen'[u] = seen[u])
<1>1. /\ pc' \in [Tasks -> {"idle", "link", "login", "exchange", "open", "answer"}]
      /\ seen' \in [Tasks -> Seen] /\ moved' \subseteq Tasks \X Quotes
      /\ pc'[t] = "idle" /\ seen'[t] = Unread
      /\ \A u \in Tasks \ {t} : pc'[u] = pc[u] /\ seen'[u] = seen[u]
  BY FinishFacts DEF IInv
<1>2. AnswersInv'
  BY <1>1, UnreadFacts, GivenStays, AnswersStay
<1>3. TypeOK'
  BY <1>1 DEF IInv, TypeOK, RowsKept
<1>4. TaskFits(t)'
  BY <1>1 DEF TaskFits
<1>5. QED
  BY <1>1, <1>2, <1>3, <1>4

LEMMA FinishStepSafe ==
  ASSUME IInv, NEW t \in Tasks, FinishStep(t)
  PROVE  IInv'
<1>1. PICK q \in seen[t].quotes :
        \/ UNCHANGED <<customers, quote>> /\ Finish(t, {})
        \/ /\ Upsertee(seen[t]) <= MaxCustomers
           /\ customers' = Upserted(seen[t], PhoneOf[q])
           /\ quote' = [quote EXCEPT ![q] = [status |-> "approved",
                                             customer |-> Upsertee(seen[t])]]
           /\ Finish(t, {q})
  BY DEF FinishStep
<1>2. /\ seen[t] \in Seen /\ q \in Quotes /\ EmailOf[q] = seen[t].email /\ seen[t].email \in Emails
      /\ seen[t].holder # None =>
           seen[t].holder \in Ids /\ customers[seen[t].holder].email = seen[t].email
  BY DEF FinishStep, IInv, TypeOK, Seen, IdentityInv, TasksFit, TaskFits
<1>3. UNCHANGED <<links, sessions, owner, chat, plans, heard, now>>
  BY DEF FinishStep
<1>4. CASE UNCHANGED <<customers, quote>> /\ Finish(t, {})
  <2>1. RowsKept /\ AnswersKept
    BY <1>4, SameRows DEF IInv
  <2>2. /\ TypeOK' /\ AnswersInv'
        /\ \A u \in Tasks : TaskFits(u)' \/ (pc'[u] = pc[u] /\ seen'[u] = seen[u])
    BY <1>3, <1>4, <2>1, TaskEnds DEF IInv, TypeOK
  <2>3. IdentityInv'
    BY <1>3, <1>4, <2>1, <2>2, IdentityStays
  <2>4. QED
    BY <2>2, <2>3 DEF IInv
<1>5. CASE /\ Upsertee(seen[t]) <= MaxCustomers
           /\ customers' = Upserted(seen[t], PhoneOf[q])
           /\ quote' = [quote EXCEPT ![q] = [status |-> "approved",
                                             customer |-> Upsertee(seen[t])]]
           /\ Finish(t, {q})
  <2> DEFINE c == Upsertee(seen[t])
  <2>1. PhoneOf[q] \in Phones \cup {None}
    BY <1>2, CustomersAssumption
  <2>2. /\ RowsKept /\ AnswersKept /\ c \in Ids' /\ customers'[c].email = EmailOf[q]
    BY <1>2, <1>5, <2>1, UpsertFacts DEF IInv
  <2>3. c \in Nat
    BY <2>2 DEF RowsKept, Ids
  <2> HIDE DEF c
  <2>4. /\ quote' \in [Quotes -> [status : {"awaiting", "approved"}, customer : Nat \cup {None}]]
        /\ quote'[q].customer = c
        /\ \A r \in Quotes \ {q} : quote'[r] = quote[r]
    BY <1>2, <1>5, <2>3 DEF IInv, TypeOK, c
  <2>5. /\ TypeOK' /\ AnswersInv'
        /\ \A u \in Tasks : TaskFits(u)' \/ (pc'[u] = pc[u] /\ seen'[u] = seen[u])
    BY <1>2, <1>3, <1>5, <2>2, <2>4, TaskEnds DEF IInv, TypeOK
  <2>6. ReferencesFit'
    BY <1>3, <2>2, <2>4, ReferencesStay DEF Known
  <2>7. TasksFit' /\ LinksFit'
    BY <1>3, <2>2, <2>5, TasksStay, LinksStay DEF IInv, TypeOK
  <2>8. UsedUp' /\ OneSessionPerLink'
    BY <1>3, SessionsStay
  <2>9. QuoteFollowsItsEmail'
    <3>1. ASSUME NEW r \in Quotes \ {q}, quote[r].customer # None
          PROVE  customers'[quote[r].customer].email = EmailOf[r]
      BY <2>2, <3>1, QuoteStays
    <3>2. QED
      BY <2>2, <2>4, <3>1 DEF QuoteFollowsItsEmail
  <2>10. QED
    BY <2>5, <2>6, <2>7, <2>8, <2>9 DEF IInv, IdentityInv
<1>6. QED
  BY <1>1, <1>4, <1>5

\* A link is issued after the ones there are.
LEMMA IssuedFacts ==
  ASSUME TypeOK, NEW link \in LinkRow, links' = Append(links, link)
  PROVE  /\ links' \in Seq(LinkRow) /\ DOMAIN links \subseteq DOMAIN links'
         /\ \A k \in DOMAIN links : links'[k] = links[k]
         /\ \A k \in DOMAIN links' \ DOMAIN links : links'[k] = link
  BY DEF TypeOK

\* A sign-in links the quotes that were read, all of them addressed to the e-mail.
LEMMA FinishLoginSafe ==
  ASSUME IInv, NEW t \in Tasks, FinishLogin(t)
  PROVE  IInv'
<1> DEFINE c == Upsertee(seen[t])
           linked == [q \in Quotes |-> IF q \in Linkable(t) THEN [quote[q] EXCEPT !.customer = c]
                                                            ELSE quote[q]]
           link == Link("customer", c, seen[t].email)
<1>1. /\ seen[t] \in Seen /\ seen[t].email \in Emails
      /\ \A q \in seen[t].quotes : q \in Quotes /\ EmailOf[q] = seen[t].email
      /\ seen[t].holder # None =>
           seen[t].holder \in Ids /\ customers[seen[t].holder].email = seen[t].email
  BY DEF FinishLogin, IInv, TypeOK, Seen, IdentityInv, TasksFit, TaskFits
<1>2. /\ UNCHANGED <<sessions, owner, chat, plans, heard, now>> /\ Finish(t, Linkable(t))
      /\ quote' = linked /\ links' \in {links, Append(links, link)}
      /\ c <= MaxCustomers
  BY DEF FinishLogin
<1>3. RowsKept /\ AnswersKept /\ c \in Ids' /\ customers'[c].email = seen[t].email
  <2>1. CASE seen[t].holder # None
    <3>1. UNCHANGED customers /\ c = seen[t].holder
      BY <2>1 DEF FinishLogin, Upsertee
    <3>2. Ids' = Ids
      BY <3>1 DEF Ids
    <3>3. QED
      BY <1>1, <2>1, <3>1, <3>2, SameRows DEF IInv
  <2>2. CASE seen[t].holder = None
    <3>1. PICK q \in seen[t].quotes : customers' = Upserted(seen[t], PhoneOf[q])
      BY <2>2 DEF FinishLogin
    <3>2. PhoneOf[q] \in Phones \cup {None}
      BY <1>1, CustomersAssumption
    <3>3. QED
      BY <1>1, <1>2, <3>1, <3>2, UpsertFacts DEF IInv
  <2>3. QED
    BY <2>1, <2>2
<1>4. c \in Nat
  BY <1>3 DEF RowsKept, Ids
<1>5. Linkable(t) \in SUBSET Quotes /\ \A q \in Linkable(t) : EmailOf[q] = seen[t].email
  BY <1>1 DEF Linkable
<1>6. link \in LinkRow /\ link.customer = c /\ link.to = seen[t].email
  BY <1>1, <1>4 DEF Link, LinkRow
<1> HIDE DEF c, link
<1>7. /\ quote' \in [Quotes -> [status : {"awaiting", "approved"}, customer : Nat \cup {None}]]
      /\ \A q \in Linkable(t) : quote'[q].customer = c
      /\ \A q \in Quotes \ Linkable(t) : quote'[q] = quote[q]
  BY <1>2, <1>4, <1>5 DEF IInv, TypeOK
<1>8. /\ links' \in Seq(LinkRow) /\ DOMAIN links \subseteq DOMAIN links'
      /\ \A k \in DOMAIN links : links'[k] = links[k]
      /\ \A k \in DOMAIN links' \ DOMAIN links : links'[k] = link
  BY <1>2, <1>6, IssuedFacts DEF IInv, TypeOK
<1>9. /\ TypeOK' /\ AnswersInv'
      /\ \A u \in Tasks : TaskFits(u)' \/ (pc'[u] = pc[u] /\ seen'[u] = seen[u])
  BY <1>2, <1>3, <1>5, <1>7, <1>8, TaskEnds DEF IInv, TypeOK
<1>10. ReferencesFit'
  BY <1>2, <1>3, <1>7, <1>8, ReferencesStay DEF Known
<1>11. TasksFit'
  BY <1>3, <1>8, <1>9, TasksStay
<1>12. LinksFit'
  <2>1. \A k \in DOMAIN links' \ DOMAIN links : LinkFits(links[k])'
    BY <1>3, <1>6, <1>8 DEF LinkFits
  <2>2. QED
    BY <1>3, <1>8, <2>1, LinksStay DEF IInv, TypeOK
<1>13. UsedUp' /\ OneSessionPerLink'
  BY <1>2, <1>8, SessionsStay
<1>14. QuoteFollowsItsEmail'
  <2>1. ASSUME NEW q \in Quotes \ Linkable(t), quote[q].customer # None
        PROVE  customers'[quote[q].customer].email = EmailOf[q]
    BY <1>3, <2>1, QuoteStays
  <2>2. QED
    BY <1>3, <1>5, <1>7, <2>1 DEF QuoteFollowsItsEmail
<1>15. QED
  BY <1>9, <1>10, <1>11, <1>12, <1>13, <1>14 DEF IInv, IdentityInv

\* A step on the links and the sessions alone.
LEMMA LinksStep ==
  ASSUME IInv, UNCHANGED <<customers, quote, owner, chat, plans, heard, now, tasks>>,
         links' \in Seq(LinkRow), sessions' \in Seq([link : Nat, live : BOOLEAN]),
         DOMAIN links \subseteq DOMAIN links', LinksFit',
         \A s \in DOMAIN sessions' :
           s \in DOMAIN sessions /\ sessions'[s].link = sessions[s].link,
         \A k \in DOMAIN links : links[k].state = "used" => links'[k].state = "used"
  PROVE  IInv'
<1>1. RowsKept /\ AnswersKept
  BY SameRows DEF IInv
<1>2. AnswersInv'
  BY <1>1, GivenStays, AnswersStay DEF tasks
<1>3. TypeOK'
  BY DEF IInv, TypeOK, tasks
<1>4. ReferencesFit' /\ TasksFit' /\ QuoteFollowsItsEmail'
  BY <1>1, ReferencesStay, TasksStay, QuotesStay DEF tasks
<1>5. UsedUp' /\ OneSessionPerLink'
  BY DEF IInv, IdentityInv, ReferencesFit, UsedUp, OneSessionPerLink
<1>6. QED
  BY <1>2, <1>3, <1>4, <1>5 DEF IInv, IdentityInv

LEMMA OwnerLoginSafe ==
  ASSUME IInv, NEW e \in Emails, OwnerLogin(e)
  PROVE  IInv'
<1> DEFINE link == Link("owner", None, e)
<1>1. link \in LinkRow /\ link.role = "owner"
  BY DEF Link, LinkRow
<1> HIDE DEF link
<1>2. links' = Append(links, link)
  BY DEF OwnerLogin, link
<1>3. /\ links' \in Seq(LinkRow) /\ DOMAIN links \subseteq DOMAIN links'
      /\ \A k \in DOMAIN links : links'[k] = links[k]
      /\ \A k \in DOMAIN links' \ DOMAIN links : links'[k] = link
  BY <1>1, <1>2, IssuedFacts DEF IInv
<1>4. RowsKept
  BY SameRows DEF OwnerLogin, IInv
<1>5. LinksFit'
  <2>1. \A k \in DOMAIN links' \ DOMAIN links : LinkFits(links[k])'
    BY <1>1, <1>3 DEF LinkFits
  <2>2. QED
    BY <1>3, <1>4, <2>1, LinksStay DEF IInv, TypeOK
<1>6. QED
  BY <1>3, <1>5, LinksStep DEF OwnerLogin, IInv, TypeOK

LEMMA LinkChanges ==
  ASSUME IInv, NEW k \in DOMAIN links, SendLink(k) \/ ExpireLink(k)
  PROVE  IInv'
<1> DEFINE sent == [links[k] EXCEPT !.state = IF links[k].expired THEN "dropped" ELSE "mailed"]
           late == [links[k] EXCEPT !.expired = TRUE]
<1>1. links[k] \in LinkRow
  BY DEF IInv, TypeOK
<1>2. /\ sent \in LinkRow /\ late \in LinkRow
      /\ sent.role = links[k].role /\ sent.customer = links[k].customer /\ sent.to = links[k].to
      /\ late.role = links[k].role /\ late.customer = links[k].customer /\ late.to = links[k].to
      /\ late.state = links[k].state
  BY <1>1 DEF LinkRow
<1>3. PICK row \in {sent, late} : /\ links' = [links EXCEPT ![k] = row]
                                  /\ links[k].state = "used" => row.state = "used"
  <2>1. SendLink(k) => links' = [links EXCEPT ![k] = sent] /\ links[k].state = "queued"
    BY DEF SendLink
  <2>2. ExpireLink(k) => links' = [links EXCEPT ![k] = late]
    BY DEF ExpireLink
  <2>3. QED
    BY <1>2, <2>1, <2>2
<1> HIDE DEF sent, late
<1>4. /\ row \in LinkRow /\ row.role = links[k].role /\ row.customer = links[k].customer
      /\ row.to = links[k].to
  BY <1>2
<1>5. /\ links' \in Seq(LinkRow) /\ DOMAIN links' = DOMAIN links /\ links'[k] = row
      /\ \A j \in DOMAIN links \ {k} : links'[j] = links[j]
  BY <1>3, <1>4 DEF IInv, TypeOK
<1>6. UNCHANGED <<customers, quote, sessions, owner, chat, plans, heard, now, tasks>>
  BY DEF SendLink, ExpireLink
<1>7. RowsKept
  BY <1>6, SameRows DEF IInv
<1>8. LinksFit'
  BY <1>4, <1>5, <1>7, LinksStay DEF IInv, TypeOK
<1>9. QED
  BY <1>3, <1>5, <1>6, <1>8, LinksStep DEF IInv, TypeOK

LEMMA EndSessionSafe ==
  ASSUME IInv, NEW s \in DOMAIN sessions, EndSession(s)
  PROVE  IInv'
<1> DEFINE row == [sessions[s] EXCEPT !.live = FALSE]
<1>1. row \in [link : Nat, live : BOOLEAN] /\ row.link = sessions[s].link
  <2> DEFINE Row == [link : Nat, live : BOOLEAN]
  <2>1. sessions \in Seq(Row)
    BY DEF IInv, TypeOK
  <2> HIDE DEF Row
  <2>2. sessions[s] \in Row
    BY <2>1
  <2>3. QED
    BY <2>2 DEF Row
<1>2. sessions' = [sessions EXCEPT ![s] = row]
  BY DEF EndSession
<1> HIDE DEF row
<1>3. /\ sessions' \in Seq([link : Nat, live : BOOLEAN]) /\ DOMAIN sessions' = DOMAIN sessions
      /\ \A u \in DOMAIN sessions : sessions'[u].link = sessions[u].link
  BY <1>1, <1>2 DEF IInv, TypeOK
<1>4. RowsKept /\ UNCHANGED links
  BY SameRows DEF EndSession, IInv
<1>5. LinksFit'
  BY <1>4, LinksStay DEF IInv, TypeOK
<1>6. QED
  BY <1>3, <1>5, LinksStep DEF EndSession, IInv, TypeOK

\* The update that counted is the one that found the link unused.
LEMMA FinishExchangeSafe ==
  ASSUME IInv, NEW t \in Tasks, FinishExchange(t)
  PROVE  IInv'
<1> DEFINE k == seen[t].link
           row == [links[k] EXCEPT !.state = "used"]
           session == NewSession(k)
<1>1. k \in DOMAIN links /\ k \in Nat /\ links[k] \in LinkRow
  BY DEF FinishExchange, IInv, IdentityInv, TasksFit, TaskFits, TypeOK
<1>2. Finish(t, {}) /\ UNCHANGED <<customers, quote, owner, chat, plans, heard, now>>
  BY DEF FinishExchange
<1>3. RowsKept /\ AnswersKept
  BY <1>2, SameRows DEF IInv
<1>4. CASE ~Unused(k)
  <2>1. UNCHANGED <<links, sessions>>
    BY <1>4 DEF FinishExchange
  <2>2. /\ TypeOK' /\ AnswersInv'
        /\ \A u \in Tasks : TaskFits(u)' \/ (pc'[u] = pc[u] /\ seen'[u] = seen[u])
    BY <1>2, <1>3, <2>1, TaskEnds DEF IInv, TypeOK
  <2>3. IdentityInv'
    BY <1>2, <1>3, <2>1, <2>2, IdentityStays
  <2>4. QED
    BY <2>2, <2>3 DEF IInv
<1>5. CASE Unused(k)
  <2>1. /\ links' = [links EXCEPT ![k] = row] /\ sessions' = Append(sessions, session)
        /\ links[k].state # "used"
    BY <1>5 DEF FinishExchange, Unused
  <2>2. /\ row \in LinkRow /\ row.role = links[k].role /\ row.customer = links[k].customer
        /\ row.to = links[k].to /\ row.state = "used"
    BY <1>1 DEF LinkRow
  <2>3. session \in [link : Nat, live : BOOLEAN] /\ session.link = k
    BY <1>1 DEF NewSession
  <2> HIDE DEF k, row, session
  <2>4. /\ links' \in Seq(LinkRow) /\ DOMAIN links' = DOMAIN links /\ links'[k] = row
        /\ \A j \in DOMAIN links \ {k} : links'[j] = links[j]
    BY <1>1, <2>1, <2>2 DEF IInv, TypeOK
  <2>5. /\ sessions' \in Seq([link : Nat, live : BOOLEAN]) /\ DOMAIN sessions \subseteq DOMAIN sessions'
        /\ \A s \in DOMAIN sessions : sessions'[s] = sessions[s]
        /\ \A s, u \in DOMAIN sessions' \ DOMAIN sessions : s = u
        /\ \A s \in DOMAIN sessions' \ DOMAIN sessions : sessions'[s] = session
    BY <2>1, <2>3 DEF IInv, TypeOK
  <2>6. /\ TypeOK' /\ AnswersInv'
        /\ \A u \in Tasks : TaskFits(u)' \/ (pc'[u] = pc[u] /\ seen'[u] = seen[u])
    BY <1>2, <1>3, <2>4, <2>5, TaskEnds DEF IInv, TypeOK
  <2>7. ReferencesFit'
    BY <1>1, <1>2, <1>3, <2>3, <2>4, <2>5, ReferencesStay
  <2>8. TasksFit' /\ QuoteFollowsItsEmail'
    BY <1>2, <1>3, <2>4, <2>6, TasksStay, QuotesStay
  <2>9. LinksFit'
    BY <1>3, <2>2, <2>4, LinksStay DEF IInv, TypeOK
  <2>10. \A s \in DOMAIN sessions :
           /\ sessions[s].link \in DOMAIN links /\ links[sessions[s].link].state = "used"
           /\ sessions[s].link # k
    BY <2>1 DEF IInv, IdentityInv, ReferencesFit, UsedUp
  <2>11. UsedUp' /\ OneSessionPerLink'
    <3>1. UsedUp'
      BY <2>2, <2>3, <2>4, <2>5, <2>10 DEF UsedUp
    <3>2. OneSessionPerLink'
      BY <2>3, <2>5, <2>10 DEF IInv, IdentityInv, OneSessionPerLink
    <3>3. QED
      BY <3>1, <3>2
  <2>12. QED
    BY <2>6, <2>7, <2>8, <2>9, <2>11 DEF IInv, IdentityInv
<1>6. QED
  BY <1>4, <1>5

\* The owner's e-mail, an edit that is read back, a chat that ends, a new customer.
LEMMA SetOwnerSafe ==
  ASSUME IInv, NEW e \in OwnerEmails, SetOwner(e)
  PROVE  IInv'
<1>1. RowsKept /\ AnswersKept
  BY SameRows DEF SetOwner, IInv
<1>2. IdentityInv' /\ AnswersInv'
  BY <1>1, IdentityStays, AnswersStay, GivenStays DEF SetOwner, tasks
<1>3. owner' \in Emails
  BY CustomersAssumption DEF SetOwner
<1>4. QED
  BY <1>2, <1>3 DEF SetOwner, tasks, IInv, TypeOK

LEMMA ProposeEditSafe ==
  ASSUME IInv, NEW c \in Ids, NEW p \in Phones \cup {None}, NEW e \in Emails \cup {None},
         ProposeEdit(c, p, e)
  PROVE  IInv'
<1> DEFINE phone == IF p = None THEN customers[c].phone ELSE p
           edit == [customer |-> c, before |-> customers[c].phone, phone |-> phone, email |-> e]
<1>1. edit \in Edit /\ edit.customer \in Ids
  <2>1. c \in Nat /\ customers[c].phone \in Phones \cup {None}
    BY RowFacts DEF IInv, Customer
  <2>2. QED
    BY <2>1 DEF Edit
<1>2. plans' = plans \cup {edit}
  BY DEF ProposeEdit
<1> HIDE DEF edit
<1>3. RowsKept /\ AnswersKept /\ Ids' = Ids
  BY SameRows DEF ProposeEdit, IInv, Ids
<1>4. IdentityInv' /\ AnswersInv'
  BY <1>1, <1>2, <1>3, IdentityStays, AnswersStay, GivenStays DEF ProposeEdit, tasks
<1>5. QED
  BY <1>1, <1>2, <1>4 DEF ProposeEdit, tasks, IInv, TypeOK

LEMMA CreateCustomerSafe ==
  ASSUME IInv, NEW p \in Phones \cup {None}, NEW e \in Emails \cup {None}, CreateCustomer(e, p)
  PROVE  IInv'
<1>1. RowsKept /\ AnswersKept
  BY AddedFacts DEF CreateCustomer, IInv
<1>2. IdentityInv' /\ AnswersInv'
  BY <1>1, IdentityStays, AnswersStay, GivenStays DEF CreateCustomer, tasks
<1>3. QED
  BY <1>1, <1>2 DEF CreateCustomer, tasks, IInv, TypeOK, RowsKept

\* An edit at YES: an e-mail is only ever a first one, and a new number takes
\* back the yes, with a time of its own.
LEMMA ApplyEditSafe ==
  ASSUME IInv, NEW pl \in plans, ApplyEdit(pl)
  PROVE  IInv'
<1> DEFINE c == pl.customer
           row == Edited(pl)
           new == <<now + 1, None>>
<1>1. /\ plans' \subseteq plans /\ UNCHANGED <<quote, links, sessions, owner, chat, tasks>>
      /\ now < MaxNow
  BY DEF ApplyEdit
<1>2. c \in Ids /\ pl \in Edit /\ customers[c] \in Customer /\ c \in 1 .. MaxCustomers
  BY RowFacts DEF IInv, TypeOK, IdentityInv, ReferencesFit
<1>3. now \in 0 .. MaxNow /\ now + 1 \in 0 .. MaxNow /\ now \in Nat
  BY <1>1, CustomersAssumption DEF IInv, TypeOK
<1>4. CASE UNCHANGED <<customers, now, heard>>
  <2>1. RowsKept /\ AnswersKept /\ Ids' = Ids
    BY <1>4, SameRows DEF IInv, Ids
  <2>2. IdentityInv' /\ AnswersInv'
    BY <1>1, <1>4, <2>1, IdentityStays, AnswersStay, GivenStays DEF tasks
  <2>3. QED
    BY <1>1, <1>4, <2>2 DEF tasks, IInv, TypeOK
<1>5. CASE /\ customers' = [customers EXCEPT ![c] = row]
           /\ pl.email # None => MayTake(c, pl.email)
  <2> DEFINE email == IF pl.email = None THEN customers[c].email ELSE pl.email
             consent == IF Disagrees(pl) THEN None ELSE customers[c].consent
             at == IF Disagrees(pl) THEN now + 1 ELSE customers[c].at
  <2>1. row = [email |-> email, phone |-> pl.phone, consent |-> consent, at |-> at]
    <3> HIDE DEF email, consent, at
    <3>1. row = [customers[c] EXCEPT !.phone = pl.phone, !.email = email, !.consent = consent,
                                     !.at = at]
      BY DEF Edited, email, consent, at
    <3>2. QED
      BY <1>2, <3>1 DEF Customer
  <2>2. /\ customers[c].email \in Emails \cup {None} /\ customers[c].at \in 0 .. MaxNow
        /\ customers[c].consent \in Answers /\ None \in Answers
        /\ pl.phone \in Phones \cup {None} /\ pl.email \in Emails \cup {None}
    BY <1>2 DEF Customer, Edit, Answers
  <2> HIDE DEF row
  <2>3. row.email \in Emails \cup {None} /\ row.consent \in Answers /\ row.at \in 0 .. MaxNow
    BY <1>3, <2>1, <2>2
  <2>4. row \in Customer
    BY <2>1, <2>2, <2>3 DEF Customer
  <2>5. customers[c].email # None => row.email = customers[c].email
    BY <1>5, <2>1 DEF MayTake
  <2> HIDE DEF c
  <2>6. /\ RowsKept /\ Ids' = Ids /\ customers'[c] = row
        /\ \A d \in Ids \ {c} : customers'[d] = customers[d]
    BY <1>2, <1>5, <2>4, <2>5, WrittenFacts DEF IInv
  <2>7. IdentityInv'
    BY <1>1, <2>6, IdentityStays DEF tasks
  <2>8. CASE UNCHANGED <<now, heard>> /\ ~Disagrees(pl)
    <3>1. AnswersKept
      BY <2>1, <2>6, <2>8 DEF AnswersKept
    <3>2. AnswersInv'
      BY <1>1, <2>6, <2>8, <3>1, AnswersStay, GivenStays DEF tasks
    <3>3. QED
      BY <1>1, <2>6, <2>7, <2>8, <3>2 DEF tasks, IInv, TypeOK, RowsKept
  <2>9. CASE /\ now' = now + 1 /\ heard' = [heard EXCEPT ![c] = @ \cup {new}]
             /\ Disagrees(pl)
    <3>1. new[1] = now + 1 /\ new \in (0 .. MaxNow) \X Answers
      BY <1>3, <2>2
    <3>2. row.at = now + 1 /\ row.consent = None /\ new = <<row.at, row.consent>>
      BY <2>1, <2>9
    <3> HIDE DEF new
    <3>3. /\ heard' \in [1 .. MaxCustomers -> SUBSET ((0 .. MaxNow) \X Answers)]
          /\ heard'[c] = heard[c] \cup {new}
          /\ \A d \in (1 .. MaxCustomers) \ {c} : heard'[d] = heard[d]
      BY <1>2, <2>9, <3>1 DEF IInv, TypeOK, c
    <3>4. TypeOK'
      BY <1>1, <1>3, <2>6, <2>9, <3>3 DEF tasks, IInv, TypeOK, RowsKept
    <3>5. Given' \subseteq Given \cup {new}
      BY ZenonT(40), <1>1, <3>3, GivenGrows DEF tasks
    <3>6. OneAnswerAtATime'
      BY <2>9, <3>5, ClockFacts DEF new
    <3>7. /\ \A a \in heard'[c] : a[1] <= row.at
          /\ new \in heard'[c] /\ row.at # 0
      <4>1. ASSUME NEW a \in heard[c] PROVE a[1] <= now + 1
        <5>1. a \in Given
          BY <1>2, GivenFacts DEF c
        <5>2. a[1] \in Nat /\ a[1] <= now
          BY <5>1, CustomersAssumption
             DEF IInv, AnswersInv, OneAnswerAtATime, Given, OnRecord, InChats, InTasks
        <5>3. QED
          BY <1>3, <5>2
      <4>2. QED
        BY <1>3, <3>1, <3>2, <3>3, <4>1
    <3>8. ASSUME NEW d \in Ids
          PROVE  /\ \A a \in heard'[d] : a[1] <= customers'[d].at
                 /\ customers'[d].at = 0 => customers'[d].consent = None
                 /\ customers'[d].at # 0 => <<customers'[d].at, customers'[d].consent>> \in heard'[d]
      <4>1. CASE d = c
        BY <2>6, <3>2, <3>7, <4>1
      <4>2. CASE d # c
        <5>1. customers'[d] = customers[d] /\ heard'[d] = heard[d]
          BY <2>6, <3>3, <4>2, RowFacts DEF IInv
        <5>2. QED
          BY <5>1 DEF IInv, AnswersInv, RecordIsNewest
      <4>3. QED
        BY <4>1, <4>2
    <3>9. \A d \in (1 .. MaxCustomers) \ Ids' : heard'[d] = {}
      BY <1>2, <2>6, <3>3 DEF IInv, AnswersInv, RecordIsNewest, c
    <3>10. RecordIsNewest'
      BY <2>6, <3>8, <3>9 DEF RecordIsNewest
    <3>11. QED
      BY <2>7, <3>4, <3>6, <3>10 DEF IInv, AnswersInv
  <2>10. QED
    BY <1>4, <1>5, <2>8, <2>9 DEF ApplyEdit, c
<1>6. QED
  BY <1>4, <1>5 DEF ApplyEdit

\* A visitor's chat begins, with an answer or without.
LEMMA StartVisitorSafe ==
  ASSUME IInv, NEW ch \in Chats, NEW answer \in Answers, StartVisitor(ch, answer)
  PROVE  IInv'
<1> DEFINE at == IF answer = None THEN 0 ELSE now + 1
           row == [state |-> "live", customer |-> None, consent |-> answer, at |-> at]
<1>1. /\ chat' = [chat EXCEPT ![ch] = row] /\ now' = now + 1 /\ now < MaxNow
      /\ UNCHANGED <<customers, quote, links, sessions, owner, plans, heard, tasks>>
  BY DEF StartVisitor
<1>2. now + 1 \in 0 .. MaxNow /\ at \in 0 .. MaxNow
  BY <1>1, CustomersAssumption DEF IInv, TypeOK
<1>3. /\ row \in Chat /\ row.customer = None /\ row.consent = answer
      /\ answer # None => row.at = now + 1
  BY <1>2 DEF Chat
<1> HIDE DEF row, at
<1>4. chat' \in [Chats -> Chat] /\ chat'[ch] = row /\ \A d \in Chats \ {ch} : chat'[d] = chat[d]
  BY <1>1, <1>3 DEF IInv, TypeOK
<1>5. RowsKept
  BY <1>1, SameRows DEF IInv
<1>6. IdentityInv'
  BY <1>1, <1>3, <1>4, <1>5, IdentityStays DEF Known, tasks
<1>7. Given' \subseteq Given \cup {<<now + 1, answer>>}
  <2> DEFINE S == Given \cup {<<now + 1, answer>>}
  <2>1. /\ \A d \in Chats : \/ chat'[d].consent = None
                            \/ <<chat'[d].at, chat'[d].consent>> \in S
                            \/ chat'[d].at = chat[d].at /\ chat'[d].consent = chat[d].consent
        /\ Given \subseteq S
    BY <1>3, <1>4
  <2> HIDE DEF S
  <2>2. Given' \subseteq S
    BY <1>1, <2>1, GivenGrows DEF tasks
  <2>3. QED
    BY <2>2 DEF S
<1>8. OneAnswerAtATime'
  BY <1>1, <1>7, ClockFacts
<1>9. RecordIsNewest'
  BY <1>1 DEF IInv, AnswersInv, RecordIsNewest, Ids
<1>10. TypeOK'
  BY <1>1, <1>2, <1>4 DEF IInv, TypeOK, tasks
<1>11. QED
  BY <1>6, <1>8, <1>9, <1>10 DEF IInv, AnswersInv

\* An answer goes on a record: what is left to show of the step.
LEMMA RecordStep ==
  ASSUME IInv, RowsKept, RecordIsNewest', OneAnswerAtATime',
         heard' \in [1 .. MaxCustomers -> SUBSET ((0 .. MaxNow) \X Answers)],
         UNCHANGED <<quote, links, sessions, owner, plans>>,
         NEW ch \in Chats, NEW row \in Chat, chat' = [chat EXCEPT ![ch] = row],
         Known(row.customer)' \/ row.customer = chat[ch].customer, now' \in 0 .. MaxNow,
         pc' \in [Tasks -> {"idle", "link", "login", "exchange", "open", "answer"}],
         seen' \in [Tasks -> Seen], moved' \subseteq Tasks \X Quotes,
         \A t \in Tasks : TaskFits(t)' \/ (pc'[t] = pc[t] /\ seen'[t] = seen[t])
  PROVE  IInv'
<1>1. /\ chat' \in [Chats -> Chat] /\ chat'[ch] = row
      /\ \A d \in Chats \ {ch} : chat'[d] = chat[d]
  BY DEF IInv, TypeOK
<1>2. IdentityInv'
  <2>1. \A d \in Chats : Known(chat[d].customer)' \/ chat'[d].customer = chat[d].customer
    BY <1>1 DEF Known
  <2>2. QED
    BY <2>1, IdentityStays
<1>3. TypeOK'
  BY <1>1 DEF IInv, TypeOK, RowsKept
<1>4. QED
  BY <1>2, <1>3 DEF IInv, AnswersInv

\* A signed-in customer's chat begins, with an answer of theirs or the record's.
LEMMA FinishPortalSafe ==
  ASSUME IInv, NEW t \in Tasks, NEW answer \in Answers, FinishPortal(t, answer)
  PROVE  IInv'
<1> DEFINE c == seen[t].holder
           ch == seen[t].chat
           at == IF answer # None THEN now + 1 ELSE seen[t].at
           consent == IF answer # None THEN answer ELSE seen[t].consent
           row == [state |-> "live", customer |-> c, at |-> at, consent |-> consent]
           S == IF answer # None THEN Given \cup {<<now + 1, answer>>} ELSE Given
<1>1. /\ chat' = [chat EXCEPT ![ch] = row] /\ Tell(customers, c, answer, at) /\ Finish(t, {})
      /\ now' = (IF answer # None THEN now + 1 ELSE now) /\ (answer # None => now < MaxNow)
      /\ UNCHANGED <<quote, links, sessions, owner, plans>>
  BY DEF FinishPortal
<1>2. /\ c \in Ids /\ ch \in Chats /\ seen[t].at \in 0 .. MaxNow
      /\ seen[t].consent \in Answers
  BY DEF FinishPortal, IInv, IdentityInv, TasksFit, TaskFits, TypeOK, Seen
<1>3. /\ now \in Nat /\ (answer # None => now + 1 \in 0 .. MaxNow) /\ at \in 0 .. MaxNow
      /\ now' \in 0 .. MaxNow /\ (answer # None => 0 < at)
  BY <1>1, <1>2, CustomersAssumption DEF IInv, TypeOK
<1>4. consent = None \/ <<at, consent>> \in S
  BY GivenFacts
<1>5. consent \in Answers /\ c \in Nat
  BY <1>2, RowFacts DEF IInv
<1> HIDE DEF c, at, consent
<1>6. row \in Chat /\ row.customer = c /\ row.at = at /\ row.consent = consent
  BY <1>3, <1>5 DEF Chat
<1> HIDE DEF row
<1>7. /\ RowsKept /\ Ids' = Ids /\ RecordIsNewest'
      /\ heard' \in [1 .. MaxCustomers -> SUBSET ((0 .. MaxNow) \X Answers)]
      /\ \A d \in 1 .. MaxCustomers :
           \A a \in heard'[d] : a \in heard[d] \/ (answer # None /\ a = <<at, answer>>)
  BY <1>1, <1>2, <1>3, TellFacts DEF IInv, TypeOK, Ids
<1>8. /\ pc' \in [Tasks -> {"idle", "link", "login", "exchange", "open", "answer"}]
      /\ seen' \in [Tasks -> Seen] /\ moved' \subseteq Tasks \X Quotes
      /\ pc'[t] = "idle" /\ seen'[t] = Unread
      /\ \A u \in Tasks \ {t} : pc'[u] = pc[u] /\ seen'[u] = seen[u]
  BY <1>1, FinishFacts DEF IInv
<1>9. Given' \subseteq S
  <2>1. \A d \in 1 .. MaxCustomers : \A a \in heard'[d] : a \in heard[d] \/ a \in S
    BY <1>7 DEF at
  <2>2. \A d \in Chats : \/ chat'[d].consent = None
                         \/ <<chat'[d].at, chat'[d].consent>> \in S
                         \/ chat'[d].at = chat[d].at /\ chat'[d].consent = chat[d].consent
    BY <1>1, <1>2, <1>4, <1>6 DEF IInv, TypeOK
  <2>3. \A u \in Tasks : seen'[u].consent = None \/ seen'[u] = seen[u]
    BY <1>8, UnreadFacts
  <2>4. Given \subseteq S
    OBVIOUS
  <2> HIDE DEF S
  <2>5. QED
    BY <2>1, <2>2, <2>3, <2>4, GivenGrows
<1>10. OneAnswerAtATime'
  BY <1>1, <1>9, ClockFacts
<1>11. \A u \in Tasks : TaskFits(u)' \/ (pc'[u] = pc[u] /\ seen'[u] = seen[u])
  BY <1>8 DEF TaskFits
<1>12. QED
  BY <1>1, <1>2, <1>3, <1>6, <1>7, <1>8, <1>10, <1>11, RecordStep DEF Known

\* An answer takes its time before it waits for the chat.
LEMMA StartAnswerSafe ==
  ASSUME IInv, NEW t \in Tasks, NEW ch \in Chats, NEW answer \in BOOLEAN,
         StartAnswer(t, ch, answer)
  PROVE  IInv'
<1> DEFINE record == [Unread EXCEPT !.chat = ch, !.consent = answer, !.at = now + 1]
<1>1. /\ Begin(t, "answer", record) /\ now' = now + 1 /\ now < MaxNow
      /\ UNCHANGED <<customers, quote, links, sessions, owner, chat, plans, heard, moved>>
  BY DEF StartAnswer
<1>2. now + 1 \in 0 .. MaxNow /\ answer \in Answers
  BY <1>1, CustomersAssumption DEF IInv, TypeOK, Answers
<1>3. record \in Seen
  BY <1>2, UnreadFacts DEF Seen
<1>4. record.chat = ch /\ record.consent = answer /\ record.at = now + 1
  BY DEF Unread
<1> HIDE DEF record
<1>5. /\ pc' \in [Tasks -> {"idle", "link", "login", "exchange", "open", "answer"}]
      /\ seen' \in [Tasks -> Seen] /\ pc'[t] = "answer" /\ seen'[t] = record
      /\ \A u \in Tasks \ {t} : pc'[u] = pc[u] /\ seen'[u] = seen[u]
  BY <1>1, <1>3, BeginFacts DEF IInv
<1>6. TaskFits(t)'
  BY <1>4, <1>5 DEF TaskFits
<1>7. RowsKept
  BY <1>1, SameRows DEF IInv
<1>8. IdentityInv'
  BY <1>1, <1>5, <1>6, <1>7, IdentityStays
<1>9. Given' \subseteq Given \cup {<<now + 1, answer>>}
  <2> DEFINE S == Given \cup {<<now + 1, answer>>}
  <2>1. /\ \A u \in Tasks : <<seen'[u].at, seen'[u].consent>> \in S \/ seen'[u] = seen[u]
        /\ Given \subseteq S
    BY <1>4, <1>5
  <2> HIDE DEF S
  <2>2. Given' \subseteq S
    BY <1>1, <2>1, GivenGrows
  <2>3. QED
    BY <2>2 DEF S
<1>10. OneAnswerAtATime'
  BY <1>1, <1>9, ClockFacts
<1>11. RecordIsNewest'
  BY <1>1 DEF IInv, AnswersInv, RecordIsNewest, Ids
<1>12. TypeOK'
  BY <1>1, <1>2, <1>5 DEF IInv, TypeOK
<1>13. QED
  BY <1>8, <1>10, <1>11, <1>12 DEF IInv, AnswersInv

\* An answer that the chat takes goes on its customer's record.
LEMMA FinishAnswerSafe ==
  ASSUME IInv, NEW t \in Tasks, FinishAnswer(t)
  PROVE  IInv'
<1> DEFINE ch == seen[t].chat
           answer == seen[t].consent
           at == seen[t].at
           c == chat[ch].customer
           row == [chat[ch] EXCEPT !.consent = answer, !.at = at]
<1>1. /\ Finish(t, {}) /\ UNCHANGED <<quote, links, sessions, owner, plans, now>>
      /\ ch \in Chats
  BY DEF FinishAnswer, IInv, IdentityInv, TasksFit, TaskFits
<1>2. /\ answer \in Answers /\ at \in 0 .. MaxNow /\ c \in Ids \cup {None}
      /\ chat[ch] \in Chat
  BY <1>1 DEF IInv, TypeOK, Seen, IdentityInv, ReferencesFit, Known
<1>3. /\ answer # None => <<at, answer>> \in Given
      /\ answer # None => 0 < at
  <2>1. answer # None => <<at, answer>> \in Given
    BY GivenFacts
  <2>2. \A a \in Given : 0 < a[1]
    BY DEF IInv, AnswersInv, OneAnswerAtATime
  <2> HIDE DEF answer, at
  <2>3. QED
    BY <2>1, <2>2
<1>4. row \in Chat /\ row.customer = c /\ row.at = at /\ row.consent = answer
  <2> HIDE DEF answer, at
  <2>1. QED
    BY <1>2 DEF Chat
<1>5. /\ pc' \in [Tasks -> {"idle", "link", "login", "exchange", "open", "answer"}]
      /\ seen' \in [Tasks -> Seen] /\ moved' \subseteq Tasks \X Quotes
      /\ pc'[t] = "idle" /\ seen'[t] = Unread
      /\ \A u \in Tasks \ {t} : pc'[u] = pc[u] /\ seen'[u] = seen[u]
  BY <1>1, FinishFacts DEF IInv
<1>6. /\ \A u \in Tasks : TaskFits(u)' \/ (pc'[u] = pc[u] /\ seen'[u] = seen[u])
      /\ \A u \in Tasks : seen'[u].consent = None \/ seen'[u] = seen[u]
  BY <1>5, UnreadFacts DEF TaskFits
<1>7. CASE Accepts(ch, answer)
  <2>1. /\ chat' = [chat EXCEPT ![ch].consent = answer, ![ch].at = at]
        /\ Tell(customers, c, answer, at)
    BY <1>7 DEF FinishAnswer
  <2>2. chat' = [chat EXCEPT ![ch] = row]
    BY <1>1, <2>1 DEF IInv, TypeOK
  <2> HIDE DEF row, ch, c, answer, at
  <2>3. /\ RowsKept /\ Ids' = Ids /\ RecordIsNewest'
        /\ heard' \in [1 .. MaxCustomers -> SUBSET ((0 .. MaxNow) \X Answers)]
        /\ \A d \in 1 .. MaxCustomers :
             \A a \in heard'[d] : a \in heard[d] \/ (answer # None /\ a = <<at, answer>>)
    BY <1>2, <1>3, <2>1, TellFacts DEF IInv, TypeOK, Ids
  <2>4. \A d \in Chats : \/ chat'[d].consent = None
                         \/ <<chat'[d].at, chat'[d].consent>> \in Given
                         \/ chat'[d].at = chat[d].at /\ chat'[d].consent = chat[d].consent
    BY <1>1, <1>3, <1>4, <2>2 DEF IInv, TypeOK
  <2>5. Given' \subseteq Given
    BY <1>3, <1>6, <2>3, <2>4, GivenGrows
  <2>6. OneAnswerAtATime'
    BY <1>1, <2>5, ClockFacts
  <2>7. now' \in 0 .. MaxNow
    BY <1>1 DEF IInv, TypeOK
  <2>8. QED
    BY <1>1, <1>4, <1>5, <1>6, <2>2, <2>3, <2>6, <2>7, RecordStep DEF c
<1>8. CASE ~Accepts(ch, answer)
  <2>1. UNCHANGED <<chat, customers, heard>>
    BY <1>8 DEF FinishAnswer
  <2>2. RowsKept /\ AnswersKept
    BY <2>1, SameRows DEF IInv
  <2>3. IdentityInv'
    BY <1>1, <1>6, <2>1, <2>2, IdentityStays
  <2>4. Given' \subseteq Given
    BY <1>6, <2>1, GivenStays
  <2>5. AnswersInv'
    BY <1>1, <2>1, <2>2, <2>4, AnswersStay
  <2>6. QED
    BY <1>1, <1>5, <2>1, <2>3, <2>5 DEF IInv, TypeOK
<1>9. QED
  BY <1>7, <1>8

\* A slot is picked: the chat's answer goes on the record it joins.
LEMMA PickSlotSafe ==
  ASSUME IInv, NEW ch \in Chats, NEW p \in Phones, NEW e \in Emails, PickSlot(ch, e, p)
  PROVE  IInv'
<1> DEFINE joins == chat[ch].customer = None /\ Holder(e) = None
           rows == IF joins THEN Added(e, p) ELSE customers
           c == IF joins THEN Len(rows) ELSE chat[ch].customer
           answer == chat[ch].consent
           at == chat[ch].at
           row == [chat[ch] EXCEPT !.customer = c]
<1>1. /\ Len(rows) <= MaxCustomers /\ chat' = [chat EXCEPT ![ch].customer = c]
      /\ Tell(rows, c, answer, at) /\ UNCHANGED <<quote, links, sessions, owner, plans, now, tasks>>
  BY DEF PickSlot
<1>2. /\ answer \in Answers /\ at \in 0 .. MaxNow /\ chat[ch].customer \in Ids \cup {None}
      /\ chat[ch] \in Chat
  BY DEF IInv, TypeOK, Chat, IdentityInv, ReferencesFit, Known
<1>3. /\ answer # None => <<at, answer>> \in Given
      /\ answer # None => 0 < at
  <2>1. answer # None => <<at, answer>> \in Given
    BY GivenFacts
  <2>2. \A a \in Given : 0 < a[1]
    BY DEF IInv, AnswersInv, OneAnswerAtATime
  <2> HIDE DEF answer, at
  <2>3. QED
    BY <2>1, <2>2
<1>4. /\ rows \in Seq(Customer) /\ Ids \subseteq DOMAIN rows /\ c \in DOMAIN rows \cup {None}
      /\ \A d \in Ids : /\ rows[d].email = customers[d].email /\ rows[d].at = customers[d].at
                        /\ rows[d].consent = customers[d].consent
      /\ \A d \in DOMAIN rows \ Ids : rows[d].at = 0 /\ rows[d].consent = None
  <2>1. CASE ~joins
    BY <1>2, <2>1 DEF IInv, TypeOK, Ids
  <2>2. CASE joins
    <3> DEFINE new == NewCustomer(e, p)
    <3>1. new \in Customer /\ new.at = 0 /\ new.consent = None
      BY CustomersAssumption DEF NewCustomer, Customer, Answers
    <3>2. rows = Append(customers, new) /\ c = Len(rows)
      BY <2>2 DEF Added
    <3> HIDE DEF new, rows, c
    <3>3. customers \in Seq(Customer) /\ Ids = 1 .. Len(customers)
      BY RowFacts DEF IInv, TypeOK
    <3>4. /\ rows \in Seq(Customer) /\ Len(rows) = Len(customers) + 1
          /\ rows[Len(customers) + 1] = new
          /\ \A d \in Ids : rows[d] = customers[d]
      BY <3>1, <3>2, <3>3
    <3>5. DOMAIN rows = 1 .. Len(customers) + 1
      BY <3>4
    <3>6. QED
      BY <3>1, <3>2, <3>3, <3>4, <3>5
  <2>3. QED
    BY <2>1, <2>2
<1>5. c \in Nat \cup {None}
  BY <1>4
<1> HIDE DEF rows, c, answer, at
<1>6. row \in Chat /\ row.customer = c /\ row.at = at /\ row.consent = answer
  BY <1>2, <1>5 DEF Chat, at, answer
<1>7. chat' = [chat EXCEPT ![ch] = row]
  BY <1>1 DEF IInv, TypeOK
<1> HIDE DEF row
<1>8. /\ RowsKept /\ Ids' = DOMAIN rows /\ RecordIsNewest'
      /\ heard' \in [1 .. MaxCustomers -> SUBSET ((0 .. MaxNow) \X Answers)]
      /\ \A d \in 1 .. MaxCustomers :
           \A a \in heard'[d] : a \in heard[d] \/ (answer # None /\ a = <<at, answer>>)
  <2>1. Len(rows) <= MaxCustomers /\ Tell(rows, c, answer, at)
    BY <1>1
  <2>2. answer \in Answers /\ at \in 0 .. MaxNow /\ (answer # None => 0 < at)
    BY <1>2, <1>3
  <2>3. QED
    BY <1>4, <2>1, <2>2, TellFacts
<1>9. \A d \in Chats : chat'[d].at = chat[d].at /\ chat'[d].consent = chat[d].consent
  BY <1>6, <1>7 DEF IInv, TypeOK, at, answer
<1>10. Given' \subseteq Given
  BY <1>1, <1>3, <1>8, <1>9, GivenGrows DEF tasks
<1>11. OneAnswerAtATime'
  BY <1>1, <1>10, ClockFacts
<1>12. /\ now' \in 0 .. MaxNow
       /\ pc' \in [Tasks -> {"idle", "link", "login", "exchange", "open", "answer"}]
       /\ seen' \in [Tasks -> Seen] /\ moved' \subseteq Tasks \X Quotes
       /\ pc' = pc /\ seen' = seen
  BY <1>1 DEF IInv, TypeOK, tasks
<1>13. row.customer = None \/ row.customer \in Ids'
  BY <1>4, <1>6, <1>8
<1>14. QED
  BY <1>1, <1>6, <1>7, <1>8, <1>11, <1>12, <1>13, RecordStep DEF Known

LEMMA CloseChatSafe ==
  ASSUME IInv, NEW ch \in Chats, CloseChat(ch)
  PROVE  IInv'
<1> DEFINE row == [chat[ch] EXCEPT !.state = "over"]
<1>1. /\ chat' = [chat EXCEPT ![ch] = row]
      /\ UNCHANGED <<customers, quote, links, sessions, owner, plans, heard, now, tasks>>
  BY DEF CloseChat
<1>2. chat[ch] \in Chat
  BY DEF IInv, TypeOK
<1>3. /\ row \in Chat /\ row.customer = chat[ch].customer /\ row.at = chat[ch].at
      /\ row.consent = chat[ch].consent
  BY <1>2 DEF Chat
<1> HIDE DEF row
<1>4. /\ chat' \in [Chats -> Chat]
      /\ \A d \in Chats : /\ chat'[d].at = chat[d].at /\ chat'[d].consent = chat[d].consent
                          /\ chat'[d].customer = chat[d].customer
  BY <1>1, <1>3 DEF IInv, TypeOK
<1>5. RowsKept /\ AnswersKept
  BY <1>1, SameRows DEF IInv
<1>6. IdentityInv'
  BY <1>1, <1>4, <1>5, IdentityStays DEF tasks
<1>7. Given' \subseteq Given
  BY <1>1, <1>4, GivenGrows DEF tasks
<1>8. AnswersInv'
  BY <1>1, <1>5, <1>7, AnswersStay
<1>9. QED
  BY <1>1, <1>4, <1>6, <1>8 DEF IInv, TypeOK, tasks

LEMMA NextSafe ==
  ASSUME IInv, Next
  PROVE  IInv'
<1>1. CASE \E t \in Tasks, q \in Quotes : StartStep(t, q)
  BY <1>1, StartStepSafe
<1>2. CASE \E t \in Tasks : FinishStep(t)
  BY <1>2, FinishStepSafe
<1>3. CASE Owning
  BY <1>3, OwnerLoginSafe, SetOwnerSafe, ProposeEditSafe, ApplyEditSafe, CreateCustomerSafe
     DEF Owning
<1>4. CASE SigningIn
  BY <1>4, StartLoginSafe, FinishLoginSafe, FinishExchangeSafe, StartExchangeSafe, LinkChanges,
     EndSessionSafe DEF SigningIn
<1>5. CASE Chatting
  BY <1>5, StartVisitorSafe, StartPortalSafe, FinishPortalSafe, StartAnswerSafe,
     FinishAnswerSafe, PickSlotSafe, CloseChatSafe DEF Chatting
<1>6. QED
  BY <1>1, <1>2, <1>3, <1>4, <1>5 DEF Next

LEMMA InitSafe ==
  ASSUME Init
  PROVE  IInv
<1>1. PICK old \in SUBSET Quotes :
        quote = [q \in Quotes |-> [status |-> IF q \in old THEN "approved" ELSE "awaiting",
                                   customer |-> None]]
  BY DEF Init
<1>2. /\ customers = <<>> /\ links = <<>> /\ sessions = <<>> /\ plans = {} /\ moved = {}
      /\ owner = None /\ now = 0 /\ heard = [c \in 1 .. MaxCustomers |-> {}]
      /\ chat = [c \in Chats |-> NoChat]
      /\ pc = [t \in Tasks |-> "idle"] /\ seen = [t \in Tasks |-> Unread]
  BY DEF Init
<1>3. /\ 0 \in 0 .. MaxNow /\ None \in Answers
      /\ NoChat \in Chat /\ NoChat.customer = None /\ NoChat.consent = None
  BY CustomersAssumption DEF NoChat, Chat, Answers
<1>4. TypeOK
  <2>1. customers \in Seq(Customer) /\ Len(customers) <= MaxCustomers
    BY <1>2, CustomersAssumption
  <2>2. /\ links \in Seq(LinkRow) /\ sessions \in Seq([link : Nat, live : BOOLEAN])
        /\ owner \in Emails \cup {None} /\ plans \subseteq Edit /\ moved \subseteq Tasks \X Quotes
        /\ now \in 0 .. MaxNow
    BY <1>2, <1>3
  <2>3. quote \in [Quotes -> [status : {"awaiting", "approved"}, customer : Nat \cup {None}]]
    BY <1>1
  <2>4. chat \in [Chats -> Chat]
    BY <1>2, <1>3
  <2>5. heard \in [1 .. MaxCustomers -> SUBSET ((0 .. MaxNow) \X Answers)]
    BY <1>2
  <2>6. /\ pc \in [Tasks -> {"idle", "link", "login", "exchange", "open", "answer"}]
        /\ seen \in [Tasks -> Seen]
    BY <1>2, UnreadFacts
  <2>7. QED
    BY <2>1, <2>2, <2>3, <2>4, <2>5, <2>6 DEF TypeOK
<1>5. Ids = {} /\ DOMAIN links = {} /\ DOMAIN sessions = {}
  BY <1>2 DEF Ids
<1>6. IdentityInv
  <2>1. ReferencesFit /\ QuoteFollowsItsEmail
    BY <1>1, <1>2, <1>3, <1>5 DEF ReferencesFit, Known, QuoteFollowsItsEmail
  <2>2. TasksFit
    BY <1>2, UnreadFacts DEF TasksFit
  <2>3. LinksFit /\ UsedUp /\ OneSessionPerLink
    BY <1>5 DEF LinksFit, UsedUp, OneSessionPerLink
  <2>4. QED
    BY <2>1, <2>2, <2>3 DEF IdentityInv
<1>7. AnswersInv
  <2>1. OnRecord = {} /\ InChats = {} /\ InTasks = {}
    BY <1>2, <1>3, UnreadFacts DEF OnRecord, InChats, InTasks
  <2>2. OneAnswerAtATime
    BY <2>1 DEF OneAnswerAtATime, Given
  <2>3. RecordIsNewest
    BY <1>2, <1>5 DEF RecordIsNewest
  <2>4. QED
    BY <2>2, <2>3 DEF AnswersInv
<1>8. QED
  BY <1>4, <1>6, <1>7 DEF IInv

-----------------------------------------------------------------------------
(***************************************************************************)
(* The theorems.                                                           *)
(***************************************************************************)

\* The invariant holds of every state the requests and the worker reach.
THEOREM Invariance == Spec => []IInv
<1>1. Init => IInv
  BY InitSafe
<1>2. IInv /\ [Next]_vars => IInv'
  BY NextSafe, NoStep
<1>3. QED
  BY <1>1, <1>2, PTL DEF Spec

\* Rows, links, sessions and chats have their types and stay within the bounds.
THEOREM TypeCorrect == Spec => []TypeOK
<1>1. IInv => TypeOK
  BY DEF IInv
<1>2. QED
  BY <1>1, Invariance, PTL

\* A linked quote belongs to the customer whose e-mail it is addressed to,
\* however the tasks that link quotes and the owner's edits interleave.
THEOREM QuotesFollowTheirEmail == Spec => []QuoteFollowsItsEmail
<1>1. IInv => QuoteFollowsItsEmail
  BY DEF IInv, IdentityInv
<1>2. QED
  BY <1>1, Invariance, PTL

\* A link by mail opens one session, however many tasks read it unused.
THEOREM LinksOpenOneSession == Spec => []OneSessionPerLink
<1>1. IInv => OneSessionPerLink
  BY DEF IInv, IdentityInv
<1>2. QED
  BY <1>1, Invariance, PTL

\* A customer's session was opened from the mailbox of the customer's record:
\* a link keeps the e-mail it went to, and no edit takes an e-mail from a row.
THEOREM SessionsAreReaders == Spec => []SessionsBelongToReaders
<1>1. IInv => SessionsBelongToReaders
  BY DEF IInv, IdentityInv, ReferencesFit, LinksFit, LinkFits, SessionsBelongToReaders
<1>2. QED
  BY <1>1, Invariance, PTL

\* The record says what the newest of the answers that reached it said: the
\* record holds the highest time, and no time was given to two answers.
THEOREM NewestStands == Spec => []NewestAnswerStands
<1>1. IInv => NewestAnswerStands
  <2> SUFFICES ASSUME IInv, NEW c \in Ids, NEW a \in heard[c],
                      \A b \in heard[c] : b[1] <= a[1]
               PROVE  customers[c].consent = a[2]
    BY DEF NewestAnswerStands
  <2> DEFINE top == <<customers[c].at, customers[c].consent>>
  <2>1. c \in 1 .. MaxCustomers /\ customers[c].at \in Nat
    BY RowFacts, CustomersAssumption DEF IInv
  <2>2. a \in Given /\ a[1] \in Nat /\ 0 < a[1]
    <3>1. a \in Given
      BY <2>1, GivenFacts
    <3>2. QED
      BY <3>1, CustomersAssumption
         DEF IInv, AnswersInv, OneAnswerAtATime, Given, OnRecord, InChats, InTasks
  <2>3. a[1] <= customers[c].at
    BY DEF IInv, AnswersInv, RecordIsNewest
  <2>4. customers[c].at # 0
    BY <2>1, <2>2, <2>3
  <2>5. top \in heard[c]
    BY <2>4 DEF IInv, AnswersInv, RecordIsNewest
  <2>6. top \in Given /\ top[1] = customers[c].at /\ top[2] = customers[c].consent
    BY <2>1, <2>5, GivenFacts
  <2> HIDE DEF top
  <2>7. top[1] = a[1]
    BY <2>1, <2>2, <2>3, <2>5, <2>6
  <2>8. QED
    BY <2>2, <2>6, <2>7 DEF IInv, AnswersInv, OneAnswerAtATime
<1>2. QED
  BY <1>1, Invariance, PTL

-----------------------------------------------------------------------------
(***************************************************************************)
(* Requests for a time, for any conversations, times and workers: the rows  *)
(* that workers save without a lock stay those of approved times.           *)
(***************************************************************************)
\* A row that says approved names a time the owner approved, and so does the booking
\* that waits beside it; the events it names are on the calendar.
RowFits(row, slots, ns) ==
  /\ row.state = "approved" => row.booking.slot \in slots \cup {Nothing}
  /\ row.custody.slot \in slots \cup {Nothing}
  /\ row.booking.event \in {NoEvent} \cup ns
  /\ row.custody.event \in {NoEvent} \cup ns

RowsFit == \A c \in Conversations : RowFits(conv[c], approved, DOMAIN events)

\* A worker arranges an approved time, and saves a row that was approved when it was read.
WorkFits(w) ==
  /\ work[w].stage # "idle" => work[w].slot \in approved /\ work[w].conv \in Conversations
  /\ work[w].stage \in {"mark", "store"} => work[w].row.state = "approved"
  /\ RowFits(work[w].row, approved, DOMAIN events)

\* What awaits a decision is what the owner was asked last of that conversation.
AwaitsWhatWasAsked(c) ==
  conv[c].state = "awaiting" =>
    /\ conv[c].stamp \in DOMAIN mails \ decided
    /\ mails[conv[c].stamp] = Asked(c, conv[c].booking.slot)

IntakeInv ==
  /\ IntakeTypeOK
  /\ RowsFit
  /\ \A w \in Workers : WorkFits(w)
  /\ \A c \in Conversations : AwaitsWhatWasAsked(c)
  /\ BookedWasApproved

-----------------------------------------------------------------------------
LEMMA RowTypes ==
  /\ NoBooking \in Bookings /\ NewRow \in Rows /\ Idle \in Jobs
  /\ NoBooking.slot = Nothing /\ NoBooking.event = NoEvent
  /\ NewRow.state # "approved" /\ NewRow.state # "awaiting"
  /\ NewRow.booking = NoBooking /\ NewRow.custody = NoBooking
  /\ Idle.stage = "idle" /\ Idle.row = NewRow
BY DEF NoBooking, Bookings, NewRow, Rows, Idle, Jobs, Kinds, States, Stages, NoEvent

\* Everything only grows but the rows and the work.
Grows ==
  /\ approved \subseteq approved' /\ approved' \subseteq Slots
  /\ DOMAIN mails \subseteq DOMAIN mails' /\ \A n \in DOMAIN mails : mails'[n] = mails[n]
  /\ DOMAIN events \subseteq DOMAIN events'

\* What fits goes on fitting.
LEMMA FitsStays ==
  ASSUME Grows, NEW row, RowFits(row, approved, DOMAIN events)
  PROVE  RowFits(row, approved', DOMAIN events')
BY DEF Grows, RowFits

\* A step that leaves the work alone and writes rows that fit.
LEMMA BookingRowsKept ==
  ASSUME IntakeInv, Grows,
         \A c \in Conversations :
           \/ conv'[c] = conv[c] /\ (conv[c].state = "awaiting" => conv[c].stamp \notin decided' \ decided)
           \/ RowFits(conv'[c], approved', DOMAIN events') /\ AwaitsWhatWasAsked(c)'
  PROVE  RowsFit' /\ \A c \in Conversations : AwaitsWhatWasAsked(c)'
<1>1. RowsFit'
  <2> SUFFICES ASSUME NEW c \in Conversations
               PROVE  RowFits(conv'[c], approved', DOMAIN events')
    BY DEF RowsFit
  <2>1. RowFits(conv[c], approved', DOMAIN events')
    BY FitsStays DEF IntakeInv, RowsFit
  <2> QED BY <2>1
<1>2. ASSUME NEW c \in Conversations
      PROVE  AwaitsWhatWasAsked(c)'
  <2>1. AwaitsWhatWasAsked(c)
    BY DEF IntakeInv
  <2>2. CASE conv'[c] = conv[c] /\ (conv[c].state = "awaiting" => conv[c].stamp \notin decided' \ decided)
    BY <2>1, <2>2 DEF AwaitsWhatWasAsked, Grows, Asked
  <2> QED BY <2>2
<1> QED BY <1>1, <1>2

\* A step that leaves the work alone.
LEMMA WorkKept ==
  ASSUME IntakeInv, Grows, NEW w \in Workers, work'[w] = work[w]
  PROVE  WorkFits(w)'
<1>1. WorkFits(w)
  BY DEF IntakeInv
<1>2. RowFits(work[w].row, approved', DOMAIN events')
  BY <1>1, FitsStays DEF WorkFits
<1> QED BY <1>1, <1>2 DEF WorkFits, Grows

\* A row that changes in nothing the invariant speaks of but its flags.
LEMMA TellDetailsKeeps ==
  ASSUME IntakeInv, NEW c \in Conversations, TellDetails(c) PROVE IntakeInv'
<1>1. /\ conv[c].state = "collecting" /\ conv' = [conv EXCEPT ![c].state = "ready"]
      /\ UNCHANGED <<mails, decided, approved, events, cancels, bookingLinks, arranges, work, faults>>
  BY DEF TellDetails, ownerVars, calendarVars, arrangeVars
<1>2. conv \in [Conversations -> Rows]
  BY DEF IntakeInv, IntakeTypeOK
<1>3. /\ conv' \in [Conversations -> Rows]
      /\ conv'[c].state = "ready" /\ conv'[c].booking = conv[c].booking /\ conv'[c].custody = conv[c].custody
      /\ \A d \in Conversations \ {c} : conv'[d] = conv[d]
  BY <1>1, <1>2 DEF Rows, States
<1>4. Grows
  BY <1>1 DEF Grows, IntakeInv, IntakeTypeOK
<1>5. RowFits(conv'[c], approved', DOMAIN events') /\ AwaitsWhatWasAsked(c)'
  BY <1>1, <1>3 DEF RowFits, AwaitsWhatWasAsked, IntakeInv, RowsFit
<1>6. RowsFit' /\ \A d \in Conversations : AwaitsWhatWasAsked(d)'
  BY <1>1, <1>3, <1>4, <1>5, BookingRowsKept
<1>7. \A w \in Workers : WorkFits(w)'
  BY <1>1, <1>4, WorkKept
<1>8. BookedWasApproved'
  BY <1>1 DEF IntakeInv, BookedWasApproved
<1>9. IntakeTypeOK'
  BY <1>1, <1>3, <1>6 DEF IntakeInv, IntakeTypeOK, RowsFit, RowFits
<1> QED BY <1>6, <1>7, <1>8, <1>9 DEF IntakeInv

\* A turn that changes one row, with nothing new for the owner or on the calendar.
LEMMA RowStep ==
  ASSUME IntakeInv, NEW c \in Conversations,
         UNCHANGED <<mails, decided, approved, events, work>>,
         cancels' \subseteq Nat, bookingLinks' \in [Conversations -> Nat],
         arranges' \in [Conversations -> Nat], faults' \in Nat,
         conv' \in [Conversations -> Rows],
         \A d \in Conversations \ {c} : conv'[d] = conv[d],
         RowFits(conv'[c], approved, DOMAIN events),
         AwaitsWhatWasAsked(c)'
  PROVE  IntakeInv'
<1>1. Grows
  BY DEF Grows, IntakeInv, IntakeTypeOK
<1>2. RowsFit' /\ \A d \in Conversations : AwaitsWhatWasAsked(d)'
  BY <1>1, BookingRowsKept
<1>3. \A w \in Workers : WorkFits(w)'
  BY <1>1, WorkKept
<1>4. BookedWasApproved'
  BY DEF IntakeInv, BookedWasApproved
<1>5. IntakeTypeOK'
  BY <1>2 DEF IntakeInv, IntakeTypeOK, RowsFit, RowFits
<1> QED BY <1>2, <1>3, <1>4, <1>5 DEF IntakeInv

\* The ids of events are numbers, and so are those a command cancels.
LEMMA EventsAreNumbers ==
  ASSUME IntakeInv, NEW c \in Conversations
  PROVE  /\ DOMAIN events \subseteq Nat
         /\ conv[c] \in Rows /\ conv[c].booking \in Bookings /\ conv[c].custody \in Bookings
         /\ conv[c].booking.event \in Nat /\ conv[c].custody.event \in Nat
BY DEF IntakeInv, IntakeTypeOK, Rows, Bookings

LEMMA OfferSlotsKeeps ==
  ASSUME IntakeInv, NEW c \in Conversations, OfferSlots(c) PROVE IntakeInv'
<1>1. Offered \subseteq Slots
  BY DEF Offered, Free
<1>2. /\ conv' = [conv EXCEPT ![c].state = "proposing", ![c].proposed = Offered]
      /\ UNCHANGED <<mails, decided, approved, events, cancels, bookingLinks, arranges, work, faults>>
  BY DEF OfferSlots, ownerVars, calendarVars, arrangeVars
<1> HIDE DEF Offered
<1>3. conv \in [Conversations -> Rows] /\ conv[c] \in Rows
  BY DEF IntakeInv, IntakeTypeOK
<1>4. conv' = [conv EXCEPT ![c] = [conv[c] EXCEPT !.state = "proposing", !.proposed = Offered]]
  BY <1>2, <1>3
<1>5. [conv[c] EXCEPT !.state = "proposing", !.proposed = Offered] \in Rows
  BY <1>1, <1>3 DEF Rows, States
<1>6. /\ conv' \in [Conversations -> Rows]
      /\ conv'[c] = [conv[c] EXCEPT !.state = "proposing", !.proposed = Offered]
      /\ \A d \in Conversations \ {c} : conv'[d] = conv[d]
  BY <1>3, <1>4, <1>5
<1>7. conv'[c].state = "proposing" /\ conv'[c].booking = conv[c].booking /\ conv'[c].custody = conv[c].custody
  BY <1>3, <1>6 DEF Rows
<1>8. RowFits(conv'[c], approved, DOMAIN events) /\ AwaitsWhatWasAsked(c)'
  BY <1>7 DEF RowFits, AwaitsWhatWasAsked, IntakeInv, RowsFit
<1> QED BY <1>2, <1>6, <1>8, RowStep DEF IntakeInv, IntakeTypeOK

LEMMA OfferRescheduleKeeps ==
  ASSUME IntakeInv, NEW c \in Conversations, OfferReschedule(c) PROVE IntakeInv'
<1>1. Offered \subseteq Slots
  BY DEF Offered, Free
<1>2. /\ conv' = [conv EXCEPT ![c].choosing = TRUE, ![c].proposed = Offered]
      /\ UNCHANGED <<mails, decided, approved, events, cancels, bookingLinks, arranges, work, faults>>
  BY DEF OfferReschedule, ownerVars, calendarVars, arrangeVars
<1> HIDE DEF Offered
<1>3. conv \in [Conversations -> Rows] /\ conv[c] \in Rows
  BY DEF IntakeInv, IntakeTypeOK
<1>4. conv' = [conv EXCEPT ![c] = [conv[c] EXCEPT !.choosing = TRUE, !.proposed = Offered]]
  BY <1>2, <1>3
<1>5. [conv[c] EXCEPT !.choosing = TRUE, !.proposed = Offered] \in Rows
  BY <1>1, <1>3 DEF Rows
<1>6. /\ conv' \in [Conversations -> Rows]
      /\ conv'[c] = [conv[c] EXCEPT !.choosing = TRUE, !.proposed = Offered]
      /\ \A d \in Conversations \ {c} : conv'[d] = conv[d]
  BY <1>3, <1>4, <1>5
<1>7. /\ conv'[c].state = conv[c].state /\ conv'[c].stamp = conv[c].stamp
      /\ conv'[c].booking = conv[c].booking /\ conv'[c].custody = conv[c].custody
  BY <1>3, <1>6 DEF Rows
<1>8. RowFits(conv'[c], approved, DOMAIN events) /\ AwaitsWhatWasAsked(c)'
  BY <1>2, <1>7 DEF RowFits, AwaitsWhatWasAsked, Asked, IntakeInv, RowsFit
<1> QED BY <1>2, <1>6, <1>8, RowStep DEF IntakeInv, IntakeTypeOK

LEMMA ReachMessageLimitKeeps ==
  ASSUME IntakeInv, NEW c \in Conversations, ReachMessageLimit(c) PROVE IntakeInv'
<1>1. /\ conv' = [conv EXCEPT ![c].state = "closed"]
      /\ UNCHANGED <<mails, decided, approved, events, cancels, bookingLinks, arranges, work, faults>>
  BY DEF ReachMessageLimit, ownerVars, calendarVars, arrangeVars
<1>2. conv \in [Conversations -> Rows]
  BY DEF IntakeInv, IntakeTypeOK
<1>3. /\ conv' \in [Conversations -> Rows]
      /\ conv'[c].state = "closed" /\ conv'[c].booking = conv[c].booking /\ conv'[c].custody = conv[c].custody
      /\ \A d \in Conversations \ {c} : conv'[d] = conv[d]
  BY <1>1, <1>2 DEF Rows, States
<1>4. RowFits(conv'[c], approved, DOMAIN events) /\ AwaitsWhatWasAsked(c)'
  BY <1>3 DEF RowFits, AwaitsWhatWasAsked, IntakeInv, RowsFit
<1> QED BY <1>1, <1>3, <1>4, RowStep DEF IntakeInv, IntakeTypeOK

LEMMA CustomerCancelsKeeps ==
  ASSUME IntakeInv, NEW c \in Conversations, NEW holder \in Conversations, CustomerCancels(c, holder)
  PROVE  IntakeInv'
<1>1. /\ conv' = [conv EXCEPT ![holder].state = "closed"]
      /\ cancels' = Cancelling({conv[holder].booking.event})
      /\ UNCHANGED <<mails, decided, approved, events, bookingLinks, arranges, work, faults>>
  BY DEF CustomerCancels, ownerVars, arrangeVars
<1>2. conv \in [Conversations -> Rows]
  BY DEF IntakeInv, IntakeTypeOK
<1>3. /\ conv' \in [Conversations -> Rows]
      /\ conv'[holder].state = "closed" /\ conv'[holder].booking = conv[holder].booking
      /\ conv'[holder].custody = conv[holder].custody
      /\ \A d \in Conversations \ {holder} : conv'[d] = conv[d]
  BY <1>1, <1>2 DEF Rows, States
<1>4. RowFits(conv'[holder], approved, DOMAIN events) /\ AwaitsWhatWasAsked(holder)'
  BY <1>3 DEF RowFits, AwaitsWhatWasAsked, IntakeInv, RowsFit
<1>5. cancels' \subseteq Nat
  BY <1>1, EventsAreNumbers DEF Cancelling, IntakeInv, IntakeTypeOK
<1> QED BY <1>1, <1>3, <1>4, <1>5, RowStep DEF IntakeInv, IntakeTypeOK

LEMMA OwnerCancelsKeeps ==
  ASSUME IntakeInv, NEW c \in Conversations, OwnerCancels(c) PROVE IntakeInv'
<1> DEFINE row == [conv[c] EXCEPT !.state = "closed", !.custody = NoBooking, !.choosing = FALSE]
<1>1. /\ conv' = [conv EXCEPT ![c].state = "closed", ![c].custody = NoBooking, ![c].choosing = FALSE]
      /\ cancels' = Cancelling({conv[c].booking.event, conv[c].custody.event})
      /\ UNCHANGED <<mails, decided, approved, events, bookingLinks, arranges, work, faults>>
  BY DEF OwnerCancels, ownerVars, arrangeVars
<1>2. conv \in [Conversations -> Rows] /\ conv[c] \in Rows
  BY DEF IntakeInv, IntakeTypeOK
<1>3. conv' = [conv EXCEPT ![c] = row]
  BY <1>1, <1>2
<1>4. row \in Rows /\ row.state = "closed" /\ row.booking = conv[c].booking /\ row.custody = NoBooking
  BY <1>2, RowTypes DEF Rows, States
<1> HIDE DEF row
<1>5. conv' \in [Conversations -> Rows] /\ conv'[c] = row /\ \A d \in Conversations \ {c} : conv'[d] = conv[d]
  BY <1>2, <1>3, <1>4
<1>6. RowFits(conv'[c], approved, DOMAIN events) /\ AwaitsWhatWasAsked(c)'
  BY <1>4, <1>5, RowTypes DEF RowFits, AwaitsWhatWasAsked, IntakeInv, RowsFit
<1>7. cancels' \subseteq Nat
  BY <1>1, EventsAreNumbers DEF Cancelling, IntakeInv, IntakeTypeOK
<1> QED BY <1>1, <1>5, <1>6, <1>7, RowStep DEF IntakeInv, IntakeTypeOK

LEMMA HookSupersededCancelledKeeps ==
  ASSUME IntakeInv, NEW n \in DOMAIN events, NEW c \in Conversations, HookSupersededCancelled(n, c)
  PROVE  IntakeInv'
<1> DEFINE row == CustodyWithoutEvent(conv[c])
<1>1. conv' = [conv EXCEPT ![c] = row]
      /\ UNCHANGED <<mails, decided, approved, events, cancels, bookingLinks, arranges, work, faults>>
  BY DEF HookSupersededCancelled, ownerVars, calendarVars, arrangeVars, IntakeInv, IntakeTypeOK
<1>2. conv \in [Conversations -> Rows] /\ conv[c] \in Rows
  BY DEF IntakeInv, IntakeTypeOK
<1>3. /\ row \in Rows /\ row.state = conv[c].state /\ row.stamp = conv[c].stamp
      /\ row.booking = conv[c].booking
      /\ row.custody.slot = conv[c].custody.slot /\ row.custody.event = NoEvent
  BY <1>2 DEF CustodyWithoutEvent, Rows, Bookings, NoEvent
<1> HIDE DEF row
<1>4. conv' \in [Conversations -> Rows] /\ conv'[c] = row /\ \A d \in Conversations \ {c} : conv'[d] = conv[d]
  BY <1>1, <1>2, <1>3
<1>5. RowFits(conv'[c], approved, DOMAIN events) /\ AwaitsWhatWasAsked(c)'
  BY <1>1, <1>3, <1>4 DEF RowFits, AwaitsWhatWasAsked, Asked, IntakeInv, RowsFit
<1> QED BY <1>1, <1>4, <1>5, RowStep DEF IntakeInv, IntakeTypeOK

LEMMA HookCancelledKeeps ==
  ASSUME IntakeInv, NEW n \in DOMAIN events, NEW c \in Conversations, HookCancelled(n, c)
  PROVE  IntakeInv'
<1> DEFINE row == IF conv[c].custody.event # NoEvent
                  THEN [conv[c] EXCEPT !.state = "approved", !.booking = conv[c].custody, !.custody = NoBooking]
                  ELSE [conv[c] EXCEPT !.state = "closed"]
<1>1. conv' = [conv EXCEPT ![c] = row]
      /\ UNCHANGED <<mails, decided, approved, events, cancels, bookingLinks, arranges, work, faults>>
  BY DEF HookCancelled, ownerVars, calendarVars, arrangeVars, IntakeInv, IntakeTypeOK
<1>2. conv \in [Conversations -> Rows] /\ conv[c] \in Rows /\ conv[c].custody \in Bookings
  BY EventsAreNumbers DEF IntakeInv, IntakeTypeOK
<1>3. /\ row \in Rows
      /\ \/ row.state = "approved" /\ row.booking = conv[c].custody /\ row.custody = NoBooking
         \/ row.state = "closed" /\ row.booking = conv[c].booking /\ row.custody = conv[c].custody
  BY <1>2, RowTypes DEF Rows, States
<1> HIDE DEF row
<1>4. conv' \in [Conversations -> Rows] /\ conv'[c] = row /\ \A d \in Conversations \ {c} : conv'[d] = conv[d]
  BY <1>1, <1>2, <1>3
<1>5. RowFits(conv'[c], approved, DOMAIN events) /\ AwaitsWhatWasAsked(c)'
  BY <1>3, <1>4, RowTypes DEF RowFits, AwaitsWhatWasAsked, IntakeInv, RowsFit
<1> QED BY <1>1, <1>4, <1>5, RowStep DEF IntakeInv, IntakeTypeOK

\* A turn or a decision: what the owner was asked, decided and approved grows.
LEMMA OwnerStep ==
  ASSUME IntakeInv, Grows, UNCHANGED <<events, work>>,
         mails' \in Seq(Mails), decided' \subseteq DOMAIN mails',
         cancels' \subseteq Nat, bookingLinks' \in [Conversations -> Nat],
         arranges' \in [Conversations -> Nat], faults' \in Nat,
         conv' \in [Conversations -> Rows],
         \A d \in Conversations :
           \/ conv'[d] = conv[d] /\ (conv[d].state = "awaiting" => conv[d].stamp \notin decided' \ decided)
           \/ RowFits(conv'[d], approved', DOMAIN events') /\ AwaitsWhatWasAsked(d)'
  PROVE  IntakeInv'
<1>1. RowsFit' /\ \A d \in Conversations : AwaitsWhatWasAsked(d)'
  BY BookingRowsKept
<1>2. \A w \in Workers : WorkFits(w)'
  BY WorkKept
<1>3. BookedWasApproved'
  BY DEF IntakeInv, BookedWasApproved, Grows
<1>4. IntakeTypeOK'
  BY <1>1 DEF IntakeInv, IntakeTypeOK, RowsFit, RowFits, Grows
<1> QED BY <1>1, <1>2, <1>3, <1>4 DEF IntakeInv

LEMMA AdoptBookingKeeps ==
  ASSUME IntakeInv, NEW c \in Conversations, NEW holder \in Conversations, AdoptBooking(c, holder)
  PROVE  IntakeInv'
<1>1. PICK offered \in {{}, Offered} : conv' = [conv EXCEPT
          ![c] = Adopted(conv[c], conv[holder], offered), ![holder] = HandedOver(conv[holder])]
  BY DEF AdoptBooking
<1>2. /\ c # holder /\ conv[holder].state = "approved"
      /\ UNCHANGED <<mails, decided, approved, events, cancels, bookingLinks, arranges, work, faults>>
  BY DEF AdoptBooking, ownerVars, calendarVars, arrangeVars
<1>3. offered \subseteq Slots
  BY DEF Offered, Free
<1> HIDE DEF Offered
<1> DEFINE mine == Adopted(conv[c], conv[holder], offered)
           theirs == HandedOver(conv[holder])
<1>4. /\ conv \in [Conversations -> Rows] /\ conv[c] \in Rows /\ conv[holder] \in Rows
      /\ conv[holder].booking \in Bookings
  BY DEF IntakeInv, IntakeTypeOK, Rows
<1>5. conv' = [conv EXCEPT ![c] = mine, ![holder] = theirs]
  BY <1>1, <1>2, <1>4
<1>6. /\ mine \in Rows /\ mine.state = "approved" /\ mine.booking = conv[holder].booking
      /\ mine.custody = conv[c].custody
  BY <1>3, <1>4 DEF Adopted, Rows, States
<1>7. [conv[holder].booking EXCEPT !.event = NoEvent] \in Bookings
  BY <1>4 DEF Bookings, NoEvent
<1>8. /\ theirs \in Rows /\ theirs.state = "closed" /\ theirs.booking.event = NoEvent
      /\ theirs.custody = NoBooking
  BY <1>4, <1>7, RowTypes DEF HandedOver, Rows, States, Bookings
<1> HIDE DEF mine, theirs
<1>9. /\ conv' \in [Conversations -> Rows] /\ conv'[c] = mine /\ conv'[holder] = theirs
      /\ \A d \in Conversations \ {c, holder} : conv'[d] = conv[d]
  BY <1>2, <1>4, <1>5, <1>6, <1>8
<1>10. RowFits(conv'[c], approved, DOMAIN events) /\ AwaitsWhatWasAsked(c)'
  BY <1>2, <1>6, <1>9 DEF RowFits, AwaitsWhatWasAsked, IntakeInv, RowsFit
<1>11. RowFits(conv'[holder], approved, DOMAIN events) /\ AwaitsWhatWasAsked(holder)'
  BY <1>8, <1>9, RowTypes DEF RowFits, AwaitsWhatWasAsked
<1>12. Grows /\ mails \in Seq(Mails) /\ decided \subseteq DOMAIN mails
  BY <1>2 DEF Grows, IntakeInv, IntakeTypeOK
<1>13. \A d \in Conversations :
         \/ conv'[d] = conv[d] /\ (conv[d].state = "awaiting" => conv[d].stamp \notin decided' \ decided)
         \/ RowFits(conv'[d], approved', DOMAIN events') /\ AwaitsWhatWasAsked(d)'
  BY <1>2, <1>9, <1>10, <1>11
<1>14. /\ cancels' \subseteq Nat /\ bookingLinks' \in [Conversations -> Nat]
       /\ arranges' \in [Conversations -> Nat] /\ faults' \in Nat
  BY <1>2 DEF IntakeInv, IntakeTypeOK
<1> QED BY <1>2, <1>9, <1>12, <1>13, <1>14, OwnerStep

\* A request that is put to the owner goes to the end of the mails.
LEMMA MailsGrow ==
  ASSUME IntakeInv, NEW c \in Conversations, NEW s \in Slots,
         mails' = Append(mails, Asked(c, s)), UNCHANGED <<decided, approved, events>>
  PROVE  /\ Grows /\ mails' \in Seq(Mails) /\ decided' \subseteq DOMAIN mails'
         /\ Len(mails) + 1 \in DOMAIN mails' \ decided'
         /\ mails'[Len(mails) + 1] = Asked(c, s)
<1>1. Asked(c, s) \in Mails /\ mails \in Seq(Mails)
  BY DEF Asked, Mails, IntakeInv, IntakeTypeOK
<1>2. /\ mails' \in Seq(Mails) /\ Len(mails) \in Nat
      /\ DOMAIN mails = 1 .. Len(mails) /\ DOMAIN mails' = 1 .. Len(mails) + 1
      /\ \A n \in DOMAIN mails : mails'[n] = mails[n]
      /\ mails'[Len(mails) + 1] = Asked(c, s)
  BY <1>1
<1>3. decided \subseteq DOMAIN mails /\ approved \subseteq Slots
  BY DEF IntakeInv, IntakeTypeOK
<1>4. DOMAIN mails \subseteq DOMAIN mails' /\ Len(mails) + 1 \in DOMAIN mails' \ DOMAIN mails
  BY <1>2
<1> QED BY <1>2, <1>3, <1>4 DEF Grows

LEMMA HandleSlotPickKeeps ==
  ASSUME IntakeInv, NEW c \in Conversations, NEW s \in Slots, HandleSlotPick(c, s) PROVE IntakeInv'
<1> DEFINE row == [conv[c] EXCEPT !.state = "awaiting", !.booking = Requested(s),
                                  !.custody = Superseded(conv[c]), !.choosing = FALSE,
                                  !.stamp = Len(mails) + 1]
<1>1. /\ conv' = [conv EXCEPT ![c].state = "awaiting", ![c].booking = Requested(s),
                              ![c].custody = Superseded(conv[c]), ![c].choosing = FALSE,
                              ![c].stamp = Len(mails) + 1]
      /\ mails' = Append(mails, Asked(c, s))
      /\ UNCHANGED <<decided, approved, events, cancels, bookingLinks, arranges, work, faults>>
  BY DEF HandleSlotPick, calendarVars, arrangeVars
<1>2. /\ conv \in [Conversations -> Rows] /\ conv[c] \in Rows /\ Len(mails) \in Nat
      /\ conv[c].booking \in Bookings /\ conv[c].custody \in Bookings
  BY EventsAreNumbers DEF IntakeInv, IntakeTypeOK
<1>3. conv' = [conv EXCEPT ![c] = row]
  BY <1>1, <1>2
<1>4. Requested(s) \in Bookings /\ Requested(s).slot = s /\ Requested(s).event = NoEvent
  BY DEF Requested, NoBooking, Bookings, Kinds, NoEvent
<1>5. Superseded(conv[c]) \in Bookings
  BY <1>2 DEF Superseded
<1>6. /\ row \in Rows /\ row.state = "awaiting" /\ row.booking = Requested(s)
      /\ row.custody = Superseded(conv[c]) /\ row.stamp = Len(mails) + 1
  <2> DEFINE was == conv[c]  b == Requested(s)  k == Superseded(conv[c])  n == Len(mails) + 1
  <2>1. row = [was EXCEPT !.state = "awaiting", !.booking = b, !.custody = k,
                          !.choosing = FALSE, !.stamp = n]
    BY DEF row
  <2>2. was \in Rows /\ b \in Bookings /\ k \in Bookings /\ n \in Nat
    BY <1>2, <1>4, <1>5
  <2> HIDE DEF row, was, b, k, n
  <2>3. row \in Rows /\ row.state = "awaiting" /\ row.booking = b /\ row.custody = k /\ row.stamp = n
    BY <2>1, <2>2 DEF Rows, States
  <2> QED BY <2>3 DEF b, k, n
<1> HIDE DEF row
<1>7. conv' \in [Conversations -> Rows] /\ conv'[c] = row /\ \A d \in Conversations \ {c} : conv'[d] = conv[d]
  BY <1>2, <1>3, <1>6
<1>8. /\ Grows /\ mails' \in Seq(Mails) /\ decided' \subseteq DOMAIN mails'
      /\ Len(mails) + 1 \in DOMAIN mails' \ decided'
      /\ mails'[Len(mails) + 1] = Asked(c, s)
  BY <1>1, MailsGrow
<1>9. RowFits(conv'[c], approved', DOMAIN events')
  BY <1>1, <1>4, <1>6, <1>7 DEF RowFits, IntakeInv, RowsFit, Superseded
<1>10. AwaitsWhatWasAsked(c)'
  BY <1>4, <1>6, <1>7, <1>8 DEF AwaitsWhatWasAsked, Asked
<1>11. \A d \in Conversations :
         \/ conv'[d] = conv[d] /\ (conv[d].state = "awaiting" => conv[d].stamp \notin decided' \ decided)
         \/ RowFits(conv'[d], approved', DOMAIN events') /\ AwaitsWhatWasAsked(d)'
  BY <1>1, <1>7, <1>9, <1>10
<1>12. /\ cancels' \subseteq Nat /\ bookingLinks' \in [Conversations -> Nat]
       /\ arranges' \in [Conversations -> Nat] /\ faults' \in Nat
  BY <1>1 DEF IntakeInv, IntakeTypeOK
<1> QED BY <1>1, <1>7, <1>8, <1>11, <1>12, OwnerStep

\* A decision is about one request: no other awaits under its stamp.
LEMMA DecisionIsOfOne ==
  ASSUME IntakeInv, NEW c \in Conversations, conv[c].state = "awaiting"
  PROVE  /\ conv[c].stamp \in DOMAIN mails /\ conv[c].booking.slot \in Slots
         /\ \A d \in Conversations \ {c} : conv[d].state = "awaiting" => conv[d].stamp # conv[c].stamp
<1>1. /\ conv[c].stamp \in DOMAIN mails /\ mails[conv[c].stamp] = Asked(c, conv[c].booking.slot)
      /\ mails[conv[c].stamp] \in Mails
  BY DEF IntakeInv, AwaitsWhatWasAsked, IntakeTypeOK
<1>2. conv[c].booking.slot \in Slots
  BY <1>1 DEF Asked, Mails
<1>3. ASSUME NEW d \in Conversations \ {c}, conv[d].state = "awaiting"
      PROVE  conv[d].stamp # conv[c].stamp
  <2>1. mails[conv[d].stamp] = Asked(d, conv[d].booking.slot)
    BY <1>3 DEF IntakeInv, AwaitsWhatWasAsked
  <2>2. Asked(d, conv[d].booking.slot).conv = d /\ Asked(c, conv[c].booking.slot).conv = c
    BY DEF Asked
  <2> QED BY <1>1, <2>1, <2>2
<1> QED BY <1>1, <1>2, <1>3

LEMMA ApproveKeeps ==
  ASSUME IntakeInv, NEW c \in Conversations, Approve(c), decided' = decided \cup {conv[c].stamp}
  PROVE  IntakeInv'
<1> DEFINE was == conv[c]
           row == [was EXCEPT !.state = "approved", !.custody = NoBooking, !.choosing = FALSE]
<1>1. /\ was.state = "awaiting"
      /\ conv' = [conv EXCEPT ![c].state = "approved", ![c].custody = NoBooking, ![c].choosing = FALSE]
      /\ approved' = approved \cup {was.booking.slot}
      /\ cancels' = Cancelling({was.custody.event})
      /\ arranges' = [arranges EXCEPT ![c] = @ + 1]
      /\ UNCHANGED <<mails, events, bookingLinks, work, faults>>
  BY DEF Approve, Arranging
<1>2. conv \in [Conversations -> Rows] /\ was \in Rows
  BY DEF IntakeInv, IntakeTypeOK
<1>3. conv' = [conv EXCEPT ![c] = row]
  BY <1>1, <1>2
<1> HIDE DEF was
<1>4. row \in Rows /\ row.state = "approved" /\ row.booking = was.booking /\ row.custody = NoBooking
  BY <1>2, RowTypes DEF Rows, States
<1> HIDE DEF row
<1>5. conv' \in [Conversations -> Rows] /\ conv'[c] = row /\ \A d \in Conversations \ {c} : conv'[d] = conv[d]
  BY <1>2, <1>3, <1>4
<1>6. /\ was.stamp \in DOMAIN mails /\ was.booking.slot \in Slots
      /\ \A d \in Conversations \ {c} : conv[d].state = "awaiting" => conv[d].stamp # was.stamp
  BY <1>1, DecisionIsOfOne DEF was
<1>7. Grows /\ mails' \in Seq(Mails) /\ decided' \subseteq DOMAIN mails'
  BY <1>1, <1>6 DEF Grows, IntakeInv, IntakeTypeOK, was
<1>8. RowFits(conv'[c], approved', DOMAIN events') /\ AwaitsWhatWasAsked(c)'
  <2>1. was.booking.event \in {NoEvent} \cup DOMAIN events
    BY DEF IntakeInv, RowsFit, RowFits, was
  <2>2. conv'[c].state = "approved" /\ conv'[c].booking = was.booking /\ conv'[c].custody = NoBooking
    BY <1>4, <1>5
  <2>3. was.booking.slot \in approved' /\ DOMAIN events' = DOMAIN events
    BY <1>1
  <2>4. RowFits(conv'[c], approved', DOMAIN events')
    BY <2>1, <2>2, <2>3, RowTypes DEF RowFits
  <2>5. AwaitsWhatWasAsked(c)'
    BY <2>2 DEF AwaitsWhatWasAsked
  <2> QED BY <2>4, <2>5
<1>9. \A d \in Conversations :
         \/ conv'[d] = conv[d] /\ (conv[d].state = "awaiting" => conv[d].stamp \notin decided' \ decided)
         \/ RowFits(conv'[d], approved', DOMAIN events') /\ AwaitsWhatWasAsked(d)'
  BY <1>5, <1>6, <1>8 DEF was
<1>10. cancels' \subseteq Nat
  BY <1>1, EventsAreNumbers DEF Cancelling, IntakeInv, IntakeTypeOK, was
<1>11. bookingLinks' \in [Conversations -> Nat] /\ arranges' \in [Conversations -> Nat] /\ faults' \in Nat
  BY <1>1 DEF IntakeInv, IntakeTypeOK
<1> QED BY <1>1, <1>5, <1>7, <1>9, <1>10, <1>11, OwnerStep

LEMMA DeclineKeeps ==
  ASSUME IntakeInv, NEW c \in Conversations, Decline(c), decided' = decided \cup {conv[c].stamp}
  PROVE  IntakeInv'
<1> DEFINE was == conv[c]
           row == IF was.custody.slot = Nothing THEN [was EXCEPT !.state = "declined"] ELSE PutBack(was)
<1>1. /\ was.state = "awaiting"
      /\ UNCHANGED <<mails, approved, events, bookingLinks, arranges, work, faults>>
      /\ cancels' = cancels \/ cancels' = Cancelling({was.booking.event})
  BY DEF Decline, arrangeVars
<1>2. conv \in [Conversations -> Rows] /\ was \in Rows /\ was.custody \in Bookings
  BY EventsAreNumbers DEF IntakeInv, IntakeTypeOK
<1>3. conv' = [conv EXCEPT ![c] = row]
  BY <1>2 DEF Decline
<1> HIDE DEF was
<1>4. /\ row \in Rows
      /\ \/ row.state = "declined" /\ row.booking = was.booking /\ row.custody = was.custody
         \/ row.state = "approved" /\ row.booking = was.custody /\ row.custody = NoBooking
  BY <1>2, RowTypes DEF Rows, States, PutBack
<1> HIDE DEF row
<1>5. conv' \in [Conversations -> Rows] /\ conv'[c] = row /\ \A d \in Conversations \ {c} : conv'[d] = conv[d]
  BY <1>2, <1>3, <1>4
<1>6. /\ was.stamp \in DOMAIN mails
      /\ \A d \in Conversations \ {c} : conv[d].state = "awaiting" => conv[d].stamp # was.stamp
  BY <1>1, DecisionIsOfOne DEF was
<1>7. Grows /\ mails' \in Seq(Mails) /\ decided' \subseteq DOMAIN mails'
  BY <1>1, <1>6 DEF Grows, IntakeInv, IntakeTypeOK, was
<1>8. RowFits(conv'[c], approved', DOMAIN events') /\ AwaitsWhatWasAsked(c)'
  <2>1. RowFits(was, approved, DOMAIN events)
    BY DEF IntakeInv, RowsFit, was
  <2> QED BY <1>1, <1>4, <1>5, <2>1, RowTypes DEF RowFits, AwaitsWhatWasAsked
<1>9. \A d \in Conversations :
         \/ conv'[d] = conv[d] /\ (conv[d].state = "awaiting" => conv[d].stamp \notin decided' \ decided)
         \/ RowFits(conv'[d], approved', DOMAIN events') /\ AwaitsWhatWasAsked(d)'
  BY <1>5, <1>6, <1>8 DEF was
<1>10. cancels' \subseteq Nat
  <2>1. was.booking.event \in Nat /\ cancels \subseteq Nat
    BY EventsAreNumbers DEF IntakeInv, IntakeTypeOK, was
  <2>2. Cancelling({was.booking.event}) \subseteq Nat
    BY <2>1 DEF Cancelling
  <2> QED BY <1>1, <2>1, <2>2
<1>11. bookingLinks' \in [Conversations -> Nat] /\ arranges' \in [Conversations -> Nat] /\ faults' \in Nat
  BY <1>1 DEF IntakeInv, IntakeTypeOK
<1> QED BY <1>1, <1>5, <1>7, <1>9, <1>10, <1>11, OwnerStep

LEMMA DecideKeeps ==
  ASSUME IntakeInv, NEW c \in Conversations, Decide(c) PROVE IntakeInv'
BY ApproveKeeps, DeclineKeeps DEF Decide

LEMMA HookCreatedKeeps ==
  ASSUME IntakeInv, NEW n \in DOMAIN events, NEW c \in Conversations, HookCreated(n, c) PROVE IntakeInv'
<1> DEFINE was == conv[c]
<1>1. /\ conv \in [Conversations -> Rows] /\ was \in Rows /\ was.booking \in Bookings
      /\ n \in Nat /\ events[n].slot \in Slots /\ Len(mails) + 1 \in Nat
      /\ RowFits(was, approved, DOMAIN events)
  <2>1. conv \in [Conversations -> Rows] /\ mails \in Seq(Mails) /\ events \in Seq(Events)
    BY DEF IntakeInv, IntakeTypeOK
  <2>2. n \in Nat /\ events[n] \in Events /\ Len(mails) + 1 \in Nat
    BY <2>1
  <2>3. events[n].slot \in Slots
    BY <2>2 DEF Events
  <2>4. RowFits(was, approved, DOMAIN events)
    BY DEF IntakeInv, RowsFit
  <2> QED BY <2>1, <2>2, <2>3, <2>4, EventsAreNumbers
<1>2. UNCHANGED <<decided, approved, events, cancels, bookingLinks, arranges, work, faults>>
  BY DEF HookCreated, calendarVars, arrangeVars
<1>3. /\ cancels' \subseteq Nat /\ bookingLinks' \in [Conversations -> Nat]
      /\ arranges' \in [Conversations -> Nat] /\ faults' \in Nat
  BY <1>2 DEF IntakeInv, IntakeTypeOK
<1>4. CASE events[n].slot = was.booking.slot
  <2> DEFINE row == [was EXCEPT !.booking = [was.booking EXCEPT !.event = n, !.kind = "booked"],
                                !.choosing = FALSE]
  <2>1. /\ conv' = [conv EXCEPT ![c].booking.event = n, ![c].booking.kind = "booked", ![c].choosing = FALSE]
        /\ UNCHANGED mails
    BY <1>4 DEF HookCreated
  <2>2. conv' = [conv EXCEPT ![c] = row]
    BY <1>1, <2>1 DEF Rows, Bookings
  <2>3. [was.booking EXCEPT !.event = n, !.kind = "booked"] \in Bookings
    BY <1>1 DEF Bookings, Kinds
  <2> HIDE DEF was
  <2>4. /\ row \in Rows /\ row.state = was.state /\ row.stamp = was.stamp /\ row.custody = was.custody
        /\ row.booking.slot = was.booking.slot /\ row.booking.event = n
    BY <1>1, <2>3 DEF Rows, Bookings
  <2> HIDE DEF row
  <2>5. conv' \in [Conversations -> Rows] /\ conv'[c] = row /\ \A d \in Conversations \ {c} : conv'[d] = conv[d]
    BY <1>1, <2>2, <2>4
  <2>6. RowFits(conv'[c], approved, DOMAIN events)
    BY <1>1, <2>4, <2>5 DEF RowFits
  <2>7. AwaitsWhatWasAsked(c)'
    BY <1>2, <2>1, <2>4, <2>5 DEF AwaitsWhatWasAsked, Asked, IntakeInv, was
  <2> QED BY <1>2, <1>3, <2>1, <2>5, <2>6, <2>7, RowStep
<1>5. CASE events[n].slot # was.booking.slot
  <2> DEFINE row == Rerouted(was, n)
  <2>1. /\ conv' = [conv EXCEPT ![c] = row]
        /\ mails' = Append(mails, Asked(c, events[n].slot))
    BY <1>1, <1>5 DEF HookCreated
  <2>2. [was.booking EXCEPT !.slot = events[n].slot, !.event = n, !.kind = "none"] \in Bookings
    BY <1>1 DEF Bookings, Kinds
  <2> HIDE DEF was
  <2>3. /\ row \in Rows /\ row.state = "awaiting" /\ row.stamp = Len(mails) + 1 /\ row.custody = was.custody
        /\ row.booking = [was.booking EXCEPT !.slot = events[n].slot, !.event = n, !.kind = "none"]
    BY <1>1, <2>2 DEF Rows, States, Rerouted
  <2>4. row.booking.slot = events[n].slot /\ row.booking.event = n
    BY <1>1, <2>3 DEF Bookings
  <2> HIDE DEF row
  <2>5. conv' \in [Conversations -> Rows] /\ conv'[c] = row /\ \A d \in Conversations \ {c} : conv'[d] = conv[d]
    BY <1>1, <2>1, <2>3
  <2>6. /\ Grows /\ mails' \in Seq(Mails) /\ decided' \subseteq DOMAIN mails'
        /\ Len(mails) + 1 \in DOMAIN mails' \ decided'
        /\ mails'[Len(mails) + 1] = Asked(c, events[n].slot)
    BY <1>1, <1>2, <2>1, MailsGrow
  <2>7. RowFits(conv'[c], approved', DOMAIN events')
    BY <1>1, <1>2, <2>3, <2>4, <2>5 DEF RowFits
  <2>8. AwaitsWhatWasAsked(c)'
    BY <2>3, <2>4, <2>5, <2>6 DEF AwaitsWhatWasAsked
  <2>9. \A d \in Conversations :
         \/ conv'[d] = conv[d] /\ (conv[d].state = "awaiting" => conv[d].stamp \notin decided' \ decided)
         \/ RowFits(conv'[d], approved', DOMAIN events') /\ AwaitsWhatWasAsked(d)'
    BY <1>2, <2>5, <2>7, <2>8
  <2> QED BY <1>2, <1>3, <2>5, <2>6, <2>9, OwnerStep
<1> QED BY <1>4, <1>5

\* A step of a worker: it changes its own work and at most the row it works on.
LEMMA WorkStep ==
  ASSUME IntakeInv, NEW w \in Workers, UNCHANGED <<mails, decided, approved, cancels>>,
         DOMAIN events \subseteq DOMAIN events', events' \in Seq(Events),
         bookingLinks' \in [Conversations -> Nat], arranges' \in [Conversations -> Nat], faults' \in Nat,
         conv' \in [Conversations -> Rows],
         \A d \in Conversations :
           conv'[d] = conv[d] \/ (RowFits(conv'[d], approved', DOMAIN events') /\ AwaitsWhatWasAsked(d)'),
         work' \in [Workers -> Jobs], \A v \in Workers \ {w} : work'[v] = work[v],
         WorkFits(w)', BookedWasApproved'
  PROVE  IntakeInv'
<1>1. Grows
  BY DEF Grows, IntakeInv, IntakeTypeOK
<1>2. \A d \in Conversations :
         \/ conv'[d] = conv[d] /\ (conv[d].state = "awaiting" => conv[d].stamp \notin decided' \ decided)
         \/ RowFits(conv'[d], approved', DOMAIN events') /\ AwaitsWhatWasAsked(d)'
  OBVIOUS
<1>3. RowsFit' /\ \A c \in Conversations : AwaitsWhatWasAsked(c)'
  BY <1>1, <1>2, BookingRowsKept
<1>4. \A v \in Workers : WorkFits(v)'
  BY <1>1, WorkKept
<1>5. IntakeTypeOK'
  BY <1>3 DEF IntakeInv, IntakeTypeOK, RowsFit, RowFits
<1> QED BY <1>3, <1>4, <1>5 DEF IntakeInv

\* A worker that drops its work, or goes on with what it holds.
LEMMA IdleFits ==
  ASSUME NEW w \in Workers, work'[w] = Idle, IntakeInv PROVE WorkFits(w)'
BY RowTypes DEF WorkFits, RowFits

\* What a worker holds.
LEMMA JobFacts ==
  ASSUME IntakeInv, NEW w \in Workers
  PROVE  /\ work \in [Workers -> Jobs] /\ work[w] \in Jobs /\ work[w].row \in Rows
         /\ work[w].row.booking \in Bookings /\ work[w].result \in Kinds
         /\ WorkFits(w) /\ RowFits(work[w].row, approved, DOMAIN events)
         /\ work[w].stage # "idle" =>
              work[w].conv \in Conversations /\ work[w].slot \in approved /\ work[w].slot \in Slots
         /\ approved \subseteq Slots /\ conv \in [Conversations -> Rows] /\ events \in Seq(Events)
<1>1. work \in [Workers -> Jobs] /\ WorkFits(w) /\ approved \subseteq Slots
      /\ conv \in [Conversations -> Rows] /\ events \in Seq(Events)
  BY DEF IntakeInv, IntakeTypeOK
<1>2. work[w] \in Jobs
  BY <1>1
<1>3. work[w].row \in Rows /\ work[w].result \in Kinds
  BY <1>2 DEF Jobs
<1>4. work[w].row.booking \in Bookings
  BY <1>3 DEF Rows
<1> QED BY <1>1, <1>2, <1>3, <1>4 DEF WorkFits

LEMMA BookedStays ==
  ASSUME IntakeInv, UNCHANGED <<events, approved>> PROVE BookedWasApproved'
BY DEF IntakeInv, BookedWasApproved

LEMMA ArrangeReadKeeps ==
  ASSUME IntakeInv, NEW w \in Workers, NEW c \in Conversations, ArrangeRead(w, c) PROVE IntakeInv'
<1> DEFINE base == [Idle EXCEPT !.conv = c, !.slot = conv[c].booking.slot, !.stamp = conv[c].stamp]
           job == IF ~Arrangeable(conv[c]) THEN Idle
                  ELSE IF MayBeBooked(conv[c])
                       THEN [base EXCEPT !.stage = "find"]
                       ELSE [base EXCEPT !.stage = "mark", !.row = conv[c]]
<1>1. /\ arranges[c] > 0 /\ arranges' = [arranges EXCEPT ![c] = @ - 1]
      /\ work' = [work EXCEPT ![w] = job]
      /\ UNCHANGED <<conv, mails, decided, approved, events, cancels, bookingLinks, faults>>
  BY DEF ArrangeRead, ownerVars, calendarVars
<1>2. /\ conv[c] \in Rows /\ conv[c].stamp \in Nat /\ conv[c].booking.slot \in Slots \cup {Nothing}
      /\ RowFits(conv[c], approved, DOMAIN events)
  BY EventsAreNumbers DEF IntakeInv, RowsFit, Rows, Bookings
<1>3. /\ base \in Jobs /\ base.conv = c /\ base.slot = conv[c].booking.slot /\ base.row = NewRow
  BY <1>2, RowTypes DEF Idle, Jobs, Stages, Kinds
<1> HIDE DEF base
<1>4. /\ job \in Jobs
      /\ \/ job = Idle
         \/ /\ Arrangeable(conv[c]) /\ job.conv = c /\ job.slot = conv[c].booking.slot
            /\ \/ job.stage = "find" /\ job.row = NewRow
               \/ job.stage = "mark" /\ job.row = conv[c]
  BY <1>2, <1>3, RowTypes DEF Jobs, Stages
<1> HIDE DEF job
<1>5. work' \in [Workers -> Jobs] /\ work'[w] = job /\ \A v \in Workers \ {w} : work'[v] = work[v]
  BY <1>1, <1>4, JobFacts
<1>6. WorkFits(w)'
  <2>1. CASE job = Idle
    BY <1>5, <2>1, IdleFits
  <2>2. CASE job # Idle
    <3>1. conv[c].state = "approved" /\ job.slot \in approved /\ job.conv \in Conversations
      BY <1>2, <1>4, <2>2 DEF Arrangeable, RowFits
    <3>2. RowFits(job.row, approved, DOMAIN events)
      BY <1>2, <1>4, <2>2, RowTypes DEF RowFits
    <3>3. job.stage \in {"mark", "store"} => job.row.state = "approved"
      BY <1>4, <2>2, <3>1
    <3> QED BY <1>1, <1>5, <3>1, <3>2, <3>3 DEF WorkFits
  <2> QED BY <2>1, <2>2
<1>7. arranges' \in [Conversations -> Nat]
  BY <1>1 DEF IntakeInv, IntakeTypeOK
<1>8. bookingLinks' \in [Conversations -> Nat] /\ faults' \in Nat /\ conv' \in [Conversations -> Rows]
      /\ events' \in Seq(Events)
  BY <1>1 DEF IntakeInv, IntakeTypeOK
<1> QED BY <1>1, <1>5, <1>6, <1>7, <1>8, BookedStays, WorkStep

LEMMA ArrangeMarkKeeps ==
  ASSUME IntakeInv, NEW w \in Workers, ArrangeMark(w) PROVE IntakeInv'
<1>0. PICK c : c = work[w].conv
  OBVIOUS
<1> DEFINE row == Marked(work[w].row)
           job == [work[w] EXCEPT !.stage = "book", !.row = NewRow]
<1>1. /\ work[w].stage = "mark"
      /\ conv' = [conv EXCEPT ![c] = row]
      /\ work' = [work EXCEPT ![w].stage = "book", ![w].row = NewRow]
      /\ UNCHANGED <<mails, decided, approved, events, cancels, bookingLinks, arranges, faults>>
  BY <1>0 DEF ArrangeMark, ownerVars, calendarVars
<1>2. /\ c \in Conversations /\ work[w] \in Jobs /\ work[w].row.state = "approved"
      /\ RowFits(work[w].row, approved, DOMAIN events)
  BY <1>0, <1>1, JobFacts DEF WorkFits
<1>3. work' = [work EXCEPT ![w] = job]
  BY <1>1, JobFacts
<1>4. /\ row \in Rows /\ row.state = "approved" /\ row.booking.slot = work[w].row.booking.slot
      /\ row.booking.event = work[w].row.booking.event /\ row.custody = work[w].row.custody
  BY <1>2, JobFacts DEF Marked, Rows, Bookings
<1>5. job \in Jobs /\ job.stage = "book" /\ job.conv = c /\ job.slot = work[w].slot /\ job.row = NewRow
  BY <1>0, <1>2, RowTypes DEF Jobs, Stages
<1> HIDE DEF row, job
<1>6. conv' \in [Conversations -> Rows] /\ conv'[c] = row /\ \A d \in Conversations \ {c} : conv'[d] = conv[d]
  BY <1>1, <1>2, <1>4, JobFacts
<1>7. work' \in [Workers -> Jobs] /\ work'[w] = job /\ \A v \in Workers \ {w} : work'[v] = work[v]
  BY <1>3, <1>5, JobFacts
<1>8. RowFits(conv'[c], approved', DOMAIN events') /\ AwaitsWhatWasAsked(c)'
  <2>1. RowFits(row, approved, DOMAIN events)
    BY <1>2, <1>4 DEF RowFits
  <2>2. RowFits(conv'[c], approved', DOMAIN events')
    BY <1>1, <1>6, <2>1
  <2>3. AwaitsWhatWasAsked(c)'
    BY <1>4, <1>6 DEF AwaitsWhatWasAsked
  <2> QED BY <2>2, <2>3
<1>9. WorkFits(w)'
  BY <1>1, <1>5, <1>7, JobFacts, RowTypes DEF WorkFits, RowFits
<1>10. bookingLinks' \in [Conversations -> Nat] /\ arranges' \in [Conversations -> Nat] /\ faults' \in Nat
       /\ events' \in Seq(Events)
  BY <1>1 DEF IntakeInv, IntakeTypeOK
<1>11. \A d \in Conversations :
         conv'[d] = conv[d] \/ (RowFits(conv'[d], approved', DOMAIN events') /\ AwaitsWhatWasAsked(d)')
  BY <1>6, <1>8
<1> QED BY <1>1, <1>6, <1>7, <1>9, <1>10, <1>11, BookedStays, WorkStep

LEMMA ArrangeFindKeeps ==
  ASSUME IntakeInv, NEW w \in Workers, ArrangeFind(w) PROVE IntakeInv'
<1> DEFINE job == IF work[w].slot \notin Free
                  THEN [work[w] EXCEPT !.stage = "answered", !.result = "booked"]
                  ELSE [work[w] EXCEPT !.stage = "book"]
<1>1. /\ work[w].stage = "find"
      /\ UNCHANGED <<conv, mails, decided, approved, events, cancels, bookingLinks, arranges, faults>>
  BY DEF ArrangeFind, ownerVars, calendarVars
<1>2. work' = [work EXCEPT ![w] = job]
  BY JobFacts DEF ArrangeFind, Answered
<1>3. job \in Jobs /\ job.stage \in {"answered", "book"} /\ job.conv = work[w].conv /\ job.slot = work[w].slot
      /\ job.row = work[w].row
  BY JobFacts DEF Jobs, Stages, Kinds
<1> HIDE DEF job
<1>4. work' \in [Workers -> Jobs] /\ work'[w] = job /\ \A v \in Workers \ {w} : work'[v] = work[v]
  BY <1>2, <1>3, JobFacts
<1>5. WorkFits(w)'
  BY <1>1, <1>3, <1>4, JobFacts DEF WorkFits
<1>6. bookingLinks' \in [Conversations -> Nat] /\ arranges' \in [Conversations -> Nat] /\ faults' \in Nat
       /\ events' \in Seq(Events) /\ conv' \in [Conversations -> Rows]
  BY <1>1 DEF IntakeInv, IntakeTypeOK
<1> QED BY <1>1, <1>4, <1>5, <1>6, BookedStays, WorkStep

LEMMA ArrangeReloadKeeps ==
  ASSUME IntakeInv, NEW w \in Workers, ArrangeReload(w) PROVE IntakeInv'
<1>0. PICK c : c = work[w].conv
  OBVIOUS
<1> DEFINE job == IF Arrangeable(conv[c])
                  THEN [work[w] EXCEPT !.stage = "store", !.row = conv[c]]
                  ELSE Idle
<1>1. /\ work[w].stage = "answered"
      /\ work' = [work EXCEPT ![w] = job]
      /\ UNCHANGED <<conv, mails, decided, approved, events, cancels, bookingLinks, arranges, faults>>
  BY <1>0, JobFacts DEF ArrangeReload, RowOf, ownerVars, calendarVars
<1>2. c \in Conversations /\ work[w] \in Jobs /\ conv[c] \in Rows /\ RowFits(conv[c], approved, DOMAIN events)
  BY <1>0, <1>1, JobFacts DEF IntakeInv, RowsFit
<1>3. /\ job \in Jobs
      /\ \/ job = Idle
         \/ /\ conv[c].state = "approved" /\ job.stage = "store" /\ job.row = conv[c]
            /\ job.conv = work[w].conv /\ job.slot = work[w].slot
  BY <1>2, RowTypes DEF Jobs, Stages, Arrangeable
<1> HIDE DEF job
<1>4. work' \in [Workers -> Jobs] /\ work'[w] = job /\ \A v \in Workers \ {w} : work'[v] = work[v]
  BY <1>1, <1>3, JobFacts
<1>5. WorkFits(w)'
  <2>1. CASE job = Idle
    BY <1>4, <2>1, IdleFits
  <2>2. CASE job # Idle
    BY <1>1, <1>2, <1>3, <1>4, <2>2, JobFacts DEF WorkFits
  <2> QED BY <2>1, <2>2
<1>6. /\ bookingLinks' \in [Conversations -> Nat] /\ arranges' \in [Conversations -> Nat] /\ faults' \in Nat
      /\ events' \in Seq(Events) /\ conv' \in [Conversations -> Rows]
  BY <1>1 DEF IntakeInv, IntakeTypeOK
<1> QED BY <1>1, <1>4, <1>5, <1>6, BookedStays, WorkStep

LEMMA ArrangeStoreKeeps ==
  ASSUME IntakeInv, NEW w \in Workers, ArrangeStore(w) PROVE IntakeInv'
<1>0. PICK c : c = work[w].conv
  OBVIOUS
<1>1. PICK job : job = work[w]
  OBVIOUS
<1> DEFINE row == [job.row EXCEPT !.booking = [job.row.booking EXCEPT !.kind = job.result]]
<1>2. /\ job.stage = "store" /\ job \in Jobs /\ job.row \in Rows /\ job.row.booking \in Bookings
      /\ job.result \in Kinds /\ c \in Conversations /\ job.row.state = "approved"
      /\ RowFits(job.row, approved, DOMAIN events)
  BY <1>0, <1>1, JobFacts DEF ArrangeStore, WorkFits
<1>3. /\ conv' = [conv EXCEPT ![c] = [job.row EXCEPT !.booking.kind = job.result]]
      /\ bookingLinks' = LinkSent(c, job.result)
      /\ work' = [work EXCEPT ![w] = Idle]
      /\ UNCHANGED <<mails, decided, approved, events, cancels, arranges, faults>>
  BY <1>0, <1>1 DEF ArrangeStore, ownerVars
<1>4. conv' = [conv EXCEPT ![c] = row]
  BY <1>2, <1>3 DEF Rows
<1>5. [job.row.booking EXCEPT !.kind = job.result] \in Bookings
  BY <1>2 DEF Bookings
<1>6. /\ row \in Rows /\ row.state = "approved" /\ row.booking.slot = job.row.booking.slot
      /\ row.booking.event = job.row.booking.event /\ row.custody = job.row.custody
  BY <1>2, <1>5 DEF Rows, Bookings
<1> HIDE DEF row
<1>7. conv' \in [Conversations -> Rows] /\ conv'[c] = row /\ \A d \in Conversations \ {c} : conv'[d] = conv[d]
  BY <1>2, <1>4, <1>6, JobFacts
<1>8. work' \in [Workers -> Jobs] /\ work'[w] = Idle /\ \A v \in Workers \ {w} : work'[v] = work[v]
  BY <1>3, RowTypes, JobFacts
<1>9. RowFits(conv'[c], approved', DOMAIN events') /\ AwaitsWhatWasAsked(c)'
  <2>1. RowFits(row, approved, DOMAIN events)
    BY <1>2, <1>6 DEF RowFits
  <2>2. RowFits(conv'[c], approved', DOMAIN events')
    BY <1>3, <1>7, <2>1
  <2>3. AwaitsWhatWasAsked(c)'
    BY <1>6, <1>7 DEF AwaitsWhatWasAsked
  <2> QED BY <2>2, <2>3
<1>10. WorkFits(w)'
  BY <1>8, IdleFits
<1>11. bookingLinks' \in [Conversations -> Nat]
  BY <1>2, <1>3 DEF LinkSent, IntakeInv, IntakeTypeOK
<1>12. arranges' \in [Conversations -> Nat] /\ faults' \in Nat /\ events' \in Seq(Events)
  BY <1>3 DEF IntakeInv, IntakeTypeOK
<1>13. \A d \in Conversations :
         conv'[d] = conv[d] \/ (RowFits(conv'[d], approved', DOMAIN events') /\ AwaitsWhatWasAsked(d)')
  BY <1>7, <1>9
<1> QED BY <1>3, <1>7, <1>8, <1>10, <1>11, <1>12, <1>13, BookedStays, WorkStep

\* What a worker books is the approved slot it holds.
LEMMA ArrangeBookKeeps ==
  ASSUME IntakeInv, NEW w \in Workers, ArrangeBook(w) PROVE IntakeInv'
<1>1. PICK job : job = work[w]
  OBVIOUS
<1>2. /\ job.stage = "book" /\ job \in Jobs /\ job.slot \in approved /\ job.slot \in Slots
      /\ job.conv \in Conversations /\ job.stamp \in Nat
      /\ UNCHANGED <<conv, mails, decided, approved, cancels, bookingLinks, arranges, faults>>
  BY <1>1, JobFacts DEF ArrangeBook, ownerVars, Jobs
<1>3. PICK result \in {"booked", "link"} : work' = [work EXCEPT ![w].stage = "answered", ![w].result = result]
  BY DEF ArrangeBook, Answered
<1> DEFINE new == [job EXCEPT !.stage = "answered", !.result = result]
<1>4. work' = [work EXCEPT ![w] = new]
  BY <1>1, <1>3, JobFacts
<1>5. /\ new \in Jobs /\ new.stage = "answered" /\ new.conv = job.conv /\ new.slot = job.slot
      /\ new.row = job.row
  BY <1>2 DEF Jobs, Stages, Kinds
<1> HIDE DEF new
<1>6. work' \in [Workers -> Jobs] /\ work'[w] = new /\ \A v \in Workers \ {w} : work'[v] = work[v]
  BY <1>4, <1>5, JobFacts
<1>7. /\ DOMAIN events \subseteq DOMAIN events' /\ events' \in Seq(Events)
      /\ BookedWasApproved'
  <2>1. CASE UNCHANGED events
    BY <1>2, <2>1, BookedStays, JobFacts
  <2>2. CASE events' = Append(events, Invitee(job))
    <3>1. Invitee(job) \in Events /\ Invitee(job).slot = job.slot
      BY <1>2 DEF Invitee, Events
    <3>2. /\ events' \in Seq(Events) /\ DOMAIN events' = DOMAIN events \cup {Len(events) + 1}
          /\ DOMAIN events \subseteq DOMAIN events'
          /\ \A n \in DOMAIN events : events'[n] = events[n]
          /\ events'[Len(events) + 1] = Invitee(job)
      BY <2>2, <3>1, JobFacts
    <3> QED BY <1>2, <3>1, <3>2 DEF BookedWasApproved, IntakeInv
  <2> QED BY <1>1, <2>1, <2>2 DEF ArrangeBook
<1>8. WorkFits(w)'
  <2>1. RowFits(job.row, approved, DOMAIN events)
    BY <1>1, JobFacts
  <2>2. RowFits(job.row, approved', DOMAIN events')
    BY <1>2, <1>7, <2>1 DEF RowFits
  <2> QED BY <1>2, <1>5, <1>6, <2>2 DEF WorkFits
<1>9. /\ bookingLinks' \in [Conversations -> Nat] /\ arranges' \in [Conversations -> Nat] /\ faults' \in Nat
      /\ conv' \in [Conversations -> Rows]
  BY <1>2 DEF IntakeInv, IntakeTypeOK
<1> QED BY <1>2, <1>6, <1>7, <1>8, <1>9, WorkStep

LEMMA ArrangeFailsKeeps ==
  ASSUME IntakeInv, NEW w \in Workers, ArrangeFails(w) \/ Reclaim(w) PROVE IntakeInv'
<1>0. PICK c : c = work[w].conv
  OBVIOUS
<1>1. /\ work[w].stage # "idle" /\ arranges' = [arranges EXCEPT ![c] = @ + 1] /\ faults' = faults + 1
      /\ UNCHANGED <<conv, mails, decided, approved, events, cancels, bookingLinks>>
      /\ work' = work \/ work' = [work EXCEPT ![w] = Idle]
  BY <1>0 DEF ArrangeFails, Reclaim, ownerVars, calendarVars
<1>2. /\ work' \in [Workers -> Jobs] /\ \A v \in Workers \ {w} : work'[v] = work[v]
      /\ work'[w] = Idle \/ work'[w] = work[w]
  BY <1>1, RowTypes, JobFacts
<1>3. WorkFits(w)'
  <2>1. CASE work'[w] = Idle
    BY <2>1, IdleFits
  <2>2. CASE work'[w] = work[w]
    BY <1>1, <2>2, JobFacts DEF WorkFits
  <2> QED BY <1>2, <2>1, <2>2
<1>4. c \in Conversations
  BY <1>0, <1>1, JobFacts
<1>5. arranges' \in [Conversations -> Nat] /\ faults' \in Nat
  BY <1>1, <1>4 DEF IntakeInv, IntakeTypeOK
<1>6. bookingLinks' \in [Conversations -> Nat] /\ conv' \in [Conversations -> Rows] /\ events' \in Seq(Events)
  BY <1>1 DEF IntakeInv, IntakeTypeOK
<1> QED BY <1>1, <1>2, <1>3, <1>5, <1>6, BookedStays, WorkStep

\* What happens at the provider alone.
LEMMA ProviderStep ==
  ASSUME IntakeInv, UNCHANGED <<conv, mails, decided, approved, cancels, arranges, work, faults>>,
         DOMAIN events \subseteq DOMAIN events', events' \in Seq(Events),
         bookingLinks' \in [Conversations -> Nat], BookedWasApproved'
  PROVE  IntakeInv'
<1>1. Grows
  BY DEF Grows, IntakeInv, IntakeTypeOK
<1>2. RowsFit' /\ \A c \in Conversations : AwaitsWhatWasAsked(c)'
  <2>1. \A c \in Conversations :
          \/ conv'[c] = conv[c] /\ (conv[c].state = "awaiting" => conv[c].stamp \notin decided' \ decided)
          \/ RowFits(conv'[c], approved', DOMAIN events') /\ AwaitsWhatWasAsked(c)'
    OBVIOUS
  <2> QED BY <1>1, <2>1, BookingRowsKept
<1>3. \A v \in Workers : WorkFits(v)'
  BY <1>1, WorkKept
<1>4. IntakeTypeOK'
  BY <1>2 DEF IntakeInv, IntakeTypeOK, RowsFit, RowFits
<1> QED BY <1>2, <1>3, <1>4 DEF IntakeInv

LEMMA BookByLinkKeeps ==
  ASSUME IntakeInv, NEW c \in Conversations, NEW s \in Slots, BookByLink(c, s) PROVE IntakeInv'
<1> DEFINE new == [slot |-> s, for |-> c, stamp |-> conv[c].stamp, linked |-> TRUE, active |-> TRUE]
<1>1. /\ events' = Append(events, new)
      /\ bookingLinks[c] > 0 /\ bookingLinks' = [bookingLinks EXCEPT ![c] = @ - 1]
      /\ UNCHANGED <<conv, mails, decided, approved, cancels, arranges, work, faults>>
  BY DEF BookByLink, ownerVars, arrangeVars
<1>2. conv[c].stamp \in Nat
  BY EventsAreNumbers DEF Rows
<1>3. new \in Events /\ new.linked /\ events \in Seq(Events)
  BY <1>2 DEF Events, IntakeInv, IntakeTypeOK
<1> HIDE DEF new
<1>4. /\ events' \in Seq(Events) /\ DOMAIN events' = DOMAIN events \cup {Len(events) + 1}
      /\ DOMAIN events \subseteq DOMAIN events'
      /\ \A n \in DOMAIN events : events'[n] = events[n]
      /\ events'[Len(events) + 1] = new
  BY <1>1, <1>3
<1>5. BookedWasApproved'
  BY <1>1, <1>3, <1>4 DEF BookedWasApproved, IntakeInv
<1>6. bookingLinks' \in [Conversations -> Nat]
  BY <1>1 DEF IntakeInv, IntakeTypeOK
<1> QED BY <1>1, <1>4, <1>5, <1>6, ProviderStep

LEMMA EventCancelledKeeps ==
  ASSUME IntakeInv, NEW n \in DOMAIN events, EventCancelled(n) PROVE IntakeInv'
<1> DEFINE new == [events[n] EXCEPT !.active = FALSE]
<1>1. /\ events' = [events EXCEPT ![n].active = FALSE]
      /\ UNCHANGED <<conv, mails, decided, approved, cancels, bookingLinks, arranges, work, faults>>
  BY DEF EventCancelled, ownerVars, arrangeVars
<1>2. events \in Seq(Events) /\ events[n] \in Events
  BY DEF IntakeInv, IntakeTypeOK
<1>3. events' = [events EXCEPT ![n] = new]
  BY <1>1, <1>2
<1>4. new \in Events /\ new.slot = events[n].slot /\ new.linked = events[n].linked
  BY <1>2 DEF Events
<1> HIDE DEF new
<1>5. events' \in Seq(Events) /\ DOMAIN events' = DOMAIN events
  BY <1>2, <1>3, <1>4
<1>6. \A m \in DOMAIN events : events'[m].slot = events[m].slot /\ events'[m].linked = events[m].linked
  BY <1>2, <1>3, <1>4
<1>7. BookedWasApproved'
  BY <1>1, <1>5, <1>6 DEF BookedWasApproved, IntakeInv
<1>8. bookingLinks' \in [Conversations -> Nat]
  BY <1>1 DEF IntakeInv, IntakeTypeOK
<1> QED BY <1>1, <1>5, <1>7, <1>8, ProviderStep

-----------------------------------------------------------------------------
LEMMA CustomerTurnKeeps ==
  ASSUME IntakeInv, NEW c \in Conversations, CustomerTurn(c) PROVE IntakeInv'
<1>1. CASE UNCHANGED intakeVars
  BY <1>1 DEF intakeVars, ownerVars, calendarVars, arrangeVars, IntakeInv, IntakeTypeOK, RowsFit, RowFits,
              WorkFits, AwaitsWhatWasAsked, Asked, BookedWasApproved
<1>2. CASE ~UNCHANGED intakeVars
  BY <1>2, TellDetailsKeeps, OfferSlotsKeeps, OfferRescheduleKeeps, HandleSlotPickKeeps, AdoptBookingKeeps,
     CustomerCancelsKeeps, ReachMessageLimitKeeps DEF CustomerTurn, UnverifiedChange
<1> QED BY <1>1, <1>2

LEMMA ArrangeKeeps ==
  ASSUME IntakeInv, NEW w \in Workers, Arrange(w) PROVE IntakeInv'
BY ArrangeReadKeeps, ArrangeMarkKeeps, ArrangeFindKeeps, ArrangeBookKeeps, ArrangeReloadKeeps,
   ArrangeStoreKeeps, ArrangeFailsKeeps DEF Arrange

\* A mail of the owner names a conversation.
LEMMA MailTypes ==
  ASSUME IntakeInv, NEW n \in DOMAIN mails PROVE mails[n].conv \in Conversations
<1>1. mails \in Seq(Mails)
  BY DEF IntakeInv, IntakeTypeOK
<1>2. mails[n] \in Mails
  BY <1>1
<1> QED BY <1>2 DEF Mails

LEMMA IntakeStepKeeps ==
  ASSUME IntakeInv, [IntakeNext]_intakeVars PROVE IntakeInv'
<1>1. ASSUME NEW c \in Conversations, CustomerTurn(c) PROVE IntakeInv'
  BY <1>1, CustomerTurnKeeps
<1>2. ASSUME NEW c \in Conversations, OwnerDecides(c) PROVE IntakeInv'
  BY <1>2, DecideKeeps, OwnerCancelsKeeps DEF OwnerDecides
<1>3. ASSUME NEW c \in Conversations, NEW s \in Slots, BookByLink(c, s) PROVE IntakeInv'
  BY <1>3, BookByLinkKeeps
<1>4. ASSUME NEW n \in DOMAIN mails, DecideByLink(n) PROVE IntakeInv'
  <2>1. mails[n].conv \in Conversations
    BY MailTypes
  <2> QED BY <1>4, <2>1, DecideKeeps DEF DecideByLink, LinkedConversation
<1>5. ASSUME NEW w \in Workers, Arrange(w) PROVE IntakeInv'
  BY <1>5, ArrangeKeeps
<1>6. ASSUME NEW n \in DOMAIN events, EventCancelled(n) PROVE IntakeInv'
  BY <1>6, EventCancelledKeeps
<1>7. ASSUME NEW n \in DOMAIN events, NEW c \in Conversations, Hook(n, c) PROVE IntakeInv'
  BY <1>7, HookCreatedKeeps, HookCancelledKeeps, HookSupersededCancelledKeeps DEF Hook
<1>8. CASE UNCHANGED intakeVars
  BY <1>8 DEF intakeVars, ownerVars, calendarVars, arrangeVars, IntakeInv, IntakeTypeOK, RowsFit, RowFits,
              WorkFits, AwaitsWhatWasAsked, Asked, BookedWasApproved
<1> QED BY <1>1, <1>2, <1>3, <1>4, <1>5, <1>6, <1>7, <1>8 DEF IntakeNext

\* The argument behind the intake theorems: in every reachable state, with any number of
\* conversations, times and workers, a row that says approved and the row a worker is about to
\* save name an approved time, and what awaits a decision is what the owner was last asked.
THEOREM IntakeInvariance == IntakeSpec => []IntakeInv
<1>1. IntakeInit => IntakeInv
  <2> SUFFICES ASSUME IntakeInit PROVE IntakeInv
    OBVIOUS
  <2>1. IntakeTypeOK
    BY RowTypes, IntakeAssumption DEF IntakeInit, IntakeTypeOK, NoEvent
  <2>2. RowsFit /\ \A c \in Conversations : AwaitsWhatWasAsked(c)
    BY RowTypes DEF IntakeInit, RowsFit, RowFits, AwaitsWhatWasAsked
  <2>3. \A w \in Workers : WorkFits(w)
    BY RowTypes DEF IntakeInit, WorkFits, RowFits
  <2>4. BookedWasApproved
    BY DEF IntakeInit, BookedWasApproved
  <2> QED BY <2>1, <2>2, <2>3, <2>4 DEF IntakeInv
<1>2. IntakeInv /\ [IntakeNext]_intakeVars => IntakeInv'
  BY IntakeStepKeeps
<1> QED BY <1>1, <1>2, PTL DEF IntakeSpec

\* Rows, mails, events and jobs have their types, and a conversation names no event that is not
\* on the calendar.
THEOREM IntakeTypeCorrect == IntakeSpec => []IntakeTypeOK
BY IntakeInvariance, PTL DEF IntakeInv

\* Whatever a worker books at the provider itself, the owner approved, however old the row it
\* works on (ArrangeIntakeBookingService.arrange saves rows it read without a lock).
THEOREM AppBooksOnlyApproved == IntakeSpec => []BookedWasApproved
BY IntakeInvariance, PTL DEF IntakeInv

\* A link in the owner's mail decides the time that mail named, and never a request that was
\* decided before (IntakeDecisionLinkService.decide).
THEOREM LinkDecidesItsRequest == IntakeSpec => LinkDecidesWhatItSaid
<1>1. ASSUME IntakeInv, NEW n \in DOMAIN mails, DecideByLink(n)
      PROVE  mails[n].slot = conv[mails[n].conv].booking.slot /\ n \notin decided
  <2>1. PICK c : c = mails[n].conv
    OBVIOUS
  <2>2. c \in Conversations
    BY <1>1, <2>1, MailTypes
  <2>3. conv[c].stamp = n /\ conv[c].state = "awaiting"
    BY <1>1, <2>1 DEF DecideByLink, LinkedConversation, StillThatRequest, Decide, Approve, Decline
  <2>4. n \notin decided /\ mails[n] = Asked(c, conv[c].booking.slot)
    BY <1>1, <2>2, <2>3 DEF IntakeInv, AwaitsWhatWasAsked
  <2> QED BY <2>1, <2>4 DEF Asked
<1>2. IntakeInv => [\A n \in DOMAIN mails :
                      DecideByLink(n) => /\ mails[n].slot = conv[mails[n].conv].booking.slot
                                         /\ n \notin decided]_intakeVars
  BY <1>1
<1> QED BY <1>2, IntakeInvariance, PTL DEF LinkDecidesWhatItSaid

\* What a step may do to the booking that waits beside a request.
WaitsOn(c) ==
  (/\ conv[c].state = "awaiting" /\ conv'[c].state = "awaiting"
   /\ conv[c].custody.slot # Nothing)
  => conv'[c].custody.slot = conv[c].custody.slot

LEMMA TurnsKeepCustody ==
  ASSUME IntakeInv, NEW d \in Conversations, CustomerTurn(d), NEW c \in Conversations PROVE WaitsOn(c)
<1>1. conv \in [Conversations -> Rows] /\ conv[c] \in Rows
  BY DEF IntakeInv, IntakeTypeOK
<1>2. ASSUME TellDetails(d) PROVE WaitsOn(c)
  BY <1>1, <1>2 DEF TellDetails, WaitsOn, Rows
<1>3. ASSUME OfferSlots(d) PROVE WaitsOn(c)
  BY <1>1, <1>3 DEF OfferSlots, WaitsOn, Rows
<1>4. ASSUME OfferReschedule(d) PROVE WaitsOn(c)
  BY <1>1, <1>4 DEF OfferReschedule, WaitsOn, Rows
<1>5. ASSUME NEW s \in Slots, HandleSlotPick(d, s) PROVE WaitsOn(c)
  <2> DEFINE k == Superseded(conv[d])
  <2>1. conv' = [conv EXCEPT ![d].state = "awaiting", ![d].booking = Requested(s), ![d].custody = k,
                             ![d].choosing = FALSE, ![d].stamp = Len(mails) + 1]
    BY <1>5 DEF HandleSlotPick
  <2>2. c # d => conv'[c] = conv[c]
    BY <1>1, <2>1
  <2>3. c = d => conv'[c].custody = k
    BY <1>1, <2>1 DEF Rows
  <2> QED BY <2>2, <2>3 DEF WaitsOn, Superseded
<1>6. ASSUME NEW holder \in Conversations, AdoptBooking(d, holder) PROVE WaitsOn(c)
  <2>1. /\ d # holder /\ conv[holder].state = "approved" /\ conv[d].state # "awaiting"
        /\ \E offered : conv' = [conv EXCEPT ![d] = Adopted(conv[d], conv[holder], offered),
                                             ![holder] = HandedOver(conv[holder])]
    BY <1>6 DEF AdoptBooking, HasLiveBooking
  <2>2. c \notin {d, holder} => conv'[c] = conv[c]
    BY <1>1, <2>1
  <2> QED BY <2>1, <2>2 DEF WaitsOn
<1>7. ASSUME NEW holder \in Conversations, CustomerCancels(d, holder) PROVE WaitsOn(c)
  BY <1>1, <1>7 DEF CustomerCancels, WaitsOn, Rows
<1>8. ASSUME NEW holder \in Conversations, UnverifiedChange(d, holder) PROVE WaitsOn(c)
  BY <1>8 DEF UnverifiedChange, intakeVars, WaitsOn
<1>9. ASSUME ReachMessageLimit(d) PROVE WaitsOn(c)
  BY <1>1, <1>9 DEF ReachMessageLimit, WaitsOn, Rows
<1> QED BY <1>2, <1>3, <1>4, <1>5, <1>6, <1>7, <1>8, <1>9 DEF CustomerTurn

LEMMA DecisionsKeepCustody ==
  ASSUME IntakeInv, NEW d \in Conversations, OwnerDecides(d), NEW c \in Conversations PROVE WaitsOn(c)
<1>1. conv \in [Conversations -> Rows] /\ conv[c] \in Rows
  BY DEF IntakeInv, IntakeTypeOK
<1>2. ASSUME Approve(d) PROVE WaitsOn(c)
  BY <1>1, <1>2 DEF Approve, WaitsOn, Rows
<1>3. ASSUME Decline(d) PROVE WaitsOn(c)
  <2>1. \/ conv' = [conv EXCEPT ![d].state = "declined"]
        \/ conv' = [conv EXCEPT ![d] = PutBack(conv[d])]
    BY <1>1, <1>3 DEF Decline
  <2>2. conv[d] \in Rows
    BY <1>1
  <2>3. PutBack(conv[d]).state = "approved"
    BY <2>2 DEF PutBack, Rows
  <2> QED BY <1>1, <2>1, <2>3 DEF WaitsOn, Rows
<1>4. ASSUME OwnerCancels(d) PROVE WaitsOn(c)
  BY <1>1, <1>4 DEF OwnerCancels, WaitsOn, Rows
<1> QED BY <1>2, <1>3, <1>4 DEF OwnerDecides, Decide

\* The rows a worker saves are not awaiting anything.
LEMMA WorkersKeepCustody ==
  ASSUME IntakeInv, NEW w \in Workers, Arrange(w), NEW c \in Conversations PROVE WaitsOn(c)
<1>1. conv \in [Conversations -> Rows] /\ conv[c] \in Rows
  BY DEF IntakeInv, IntakeTypeOK
<1>2. ASSUME ArrangeMark(w) PROVE WaitsOn(c)
  <2>1. work[w].row.state = "approved" /\ conv' = [conv EXCEPT ![work[w].conv] = Marked(work[w].row)]
        /\ work[w].row \in Rows
    BY <1>2, JobFacts DEF ArrangeMark, WorkFits
  <2>2. Marked(work[w].row).state = "approved"
    BY <2>1 DEF Marked, Rows
  <2> QED BY <1>1, <2>1, <2>2 DEF WaitsOn
<1>3. ASSUME ArrangeStore(w) PROVE WaitsOn(c)
  <2>1. /\ work[w].row.state = "approved" /\ work[w].row \in Rows
        /\ conv' = [conv EXCEPT ![work[w].conv] = [work[w].row EXCEPT !.booking.kind = work[w].result]]
    BY <1>3, JobFacts DEF ArrangeStore, WorkFits
  <2>2. [work[w].row EXCEPT !.booking.kind = work[w].result].state = "approved"
    BY <2>1 DEF Rows
  <2> QED BY <1>1, <2>1, <2>2 DEF WaitsOn
<1>4. ASSUME ~ArrangeMark(w), ~ArrangeStore(w) PROVE UNCHANGED conv
  BY <1>4 DEF Arrange, ArrangeRead, ArrangeFind, ArrangeBook, ArrangeReload, ArrangeFails, Reclaim
<1> QED BY <1>2, <1>3, <1>4 DEF WaitsOn

LEMMA HooksKeepCustody ==
  ASSUME IntakeInv, NEW n \in DOMAIN events, NEW d \in Conversations, Hook(n, d), NEW c \in Conversations
  PROVE  WaitsOn(c)
<1>1. /\ conv \in [Conversations -> Rows] /\ conv[c] \in Rows /\ conv[d] \in Rows
      /\ conv[d].custody \in Bookings
  BY EventsAreNumbers DEF IntakeInv, IntakeTypeOK
<1>2. ASSUME HookCreated(n, d) PROVE WaitsOn(c)
  <2>1. \/ conv' = [conv EXCEPT ![d].booking.event = n, ![d].booking.kind = "booked", ![d].choosing = FALSE]
        \/ conv' = [conv EXCEPT ![d] = Rerouted(conv[d], n)]
    BY <1>1, <1>2 DEF HookCreated
  <2>2. Rerouted(conv[d], n).custody = conv[d].custody
    BY <1>1 DEF Rerouted, Rows
  <2>3. c # d => conv'[c] = conv[c]
    BY <1>1, <2>1
  <2>4. conv'[d].custody = conv[d].custody
    BY <1>1, <2>1, <2>2 DEF Rows
  <2> QED BY <2>3, <2>4 DEF WaitsOn
<1>3. ASSUME HookCancelled(n, d) PROVE WaitsOn(c)
  <2> DEFINE row == IF conv[d].custody.event # NoEvent
                    THEN [conv[d] EXCEPT !.state = "approved", !.booking = conv[d].custody,
                                         !.custody = NoBooking]
                    ELSE [conv[d] EXCEPT !.state = "closed"]
  <2>1. conv' = [conv EXCEPT ![d] = row]
    BY <1>1, <1>3 DEF HookCancelled
  <2>2. row.state # "awaiting"
    BY <1>1 DEF Rows
  <2> QED BY <1>1, <2>1, <2>2 DEF WaitsOn
<1>4. ASSUME HookSupersededCancelled(n, d) PROVE WaitsOn(c)
  <2>1. conv' = [conv EXCEPT ![d] = CustodyWithoutEvent(conv[d])]
    BY <1>1, <1>4 DEF HookSupersededCancelled
  <2>2. CustodyWithoutEvent(conv[d]).custody.slot = conv[d].custody.slot
    BY <1>1 DEF CustodyWithoutEvent, Rows, Bookings
  <2> QED BY <1>1, <2>1, <2>2 DEF WaitsOn
<1> QED BY <1>2, <1>3, <1>4 DEF Hook

\* A booking that a new request is to replace keeps its time until the owner decides: no turn of
\* the customer, no webhook and no late save of a worker loses it (_superseded_booking).
THEOREM CustodyOutlastsTheWait == IntakeSpec => CustodyLastsUntilDecision
<1>1. ASSUME IntakeInv, IntakeNext, NEW c \in Conversations PROVE WaitsOn(c)
  <2>1. ASSUME NEW d \in Conversations, CustomerTurn(d) \/ OwnerDecides(d) PROVE WaitsOn(c)
    BY <1>1, <2>1, TurnsKeepCustody, DecisionsKeepCustody
  <2>2. ASSUME NEW n \in DOMAIN mails, DecideByLink(n) PROVE WaitsOn(c)
    BY <1>1, <2>2, MailTypes, DecisionsKeepCustody DEF DecideByLink, LinkedConversation, OwnerDecides
  <2>3. ASSUME NEW w \in Workers, Arrange(w) PROVE WaitsOn(c)
    BY <1>1, <2>3, WorkersKeepCustody
  <2>4. ASSUME NEW n \in DOMAIN events, NEW d \in Conversations, Hook(n, d) PROVE WaitsOn(c)
    BY <1>1, <2>4, HooksKeepCustody
  <2>5. ASSUME \/ \E d \in Conversations, s \in Slots : BookByLink(d, s)
               \/ \E n \in DOMAIN events : EventCancelled(n)
        PROVE  WaitsOn(c)
    BY <2>5 DEF BookByLink, EventCancelled, WaitsOn
  <2> QED BY <1>1, <2>1, <2>2, <2>3, <2>4, <2>5 DEF IntakeNext
<1>2. IntakeInv /\ [IntakeNext]_intakeVars =>
        [\A c \in Conversations :
           (/\ conv[c].state = "awaiting" /\ conv'[c].state = "awaiting"
            /\ conv[c].custody.slot # Nothing)
           => conv'[c].custody.slot = conv[c].custody.slot]_intakeVars
  BY <1>1 DEF WaitsOn
<1> QED BY <1>2, IntakeInvariance, PTL DEF CustodyLastsUntilDecision, IntakeSpec

-----------------------------------------------------------------------------
(***************************************************************************)
(* Retries, for one worker: what it booked under the stamp of a request, the *)
(* row with that stamp tells of.                                            *)
(***************************************************************************)
\* Two workers of one conversation may save their rows over each other; what follows is
\* about one.
OneArranges == \A v, w \in Workers : v = w

\* The events that workers made for a conversation.
MadeFor(c) == {n \in DOMAIN events : events[n].for = c /\ ~events[n].linked}

\* It has put a request to the owner, or taken over one.
Begun(row) == row.state \in {"awaiting", "approved", "declined", "closed"}

\* A request that was approved, and is not to be put back again.
Settled(row) == row.state \in {"approved", "declined", "closed"} /\ row.custody = NoBooking

\* An attempt to book it is on record.
Tells(row) == Arrangeable(row) => MayBeBooked(row)

\* Only a request that is undecided or over has a booking beside it.
CustodyFits(row) == row.state \notin {"awaiting", "declined", "closed"} => row.custody = NoBooking

\* What was made under the stamp of a row has its time, and the row tells of the attempt.
RowTells(c) ==
  /\ conv[c].stamp <= Len(mails)
  /\ CustodyFits(conv[c])
  /\ \A n \in MadeFor(c) :
       /\ Begun(conv[c]) /\ events[n].stamp <= conv[c].stamp
       /\ events[n].stamp = conv[c].stamp =>
            Settled(conv[c]) /\ conv[c].booking.slot = events[n].slot /\ Tells(conv[c])

\* Under the stamp it works on nothing is on the calendar, as far as the worker can tell.
NothingMade(job) == \A n \in MadeFor(job.conv) : events[n].active => events[n].stamp # job.stamp

\* What a worker holds of a row is of the request it took up or of a later one.
JobTells(job) ==
  /\ Begun(conv[job.conv]) /\ job.stamp <= conv[job.conv].stamp
  /\ conv[job.conv].stamp = job.stamp =>
       /\ Settled(conv[job.conv]) /\ conv[job.conv].booking.slot = job.slot
       /\ job.stage # "mark" => Tells(conv[job.conv])
  /\ \A n \in MadeFor(job.conv) :
       /\ events[n].stamp <= job.stamp
       /\ events[n].stamp = job.stamp => events[n].slot = job.slot /\ job.stage # "mark"
  /\ job.stage = "mark" =>
       job.row.stamp = job.stamp /\ job.row.booking.slot = job.slot /\ job.row.custody = NoBooking
  /\ job.stage \in {"answered", "store"} => job.result # "none"
  /\ (job.stage = "book" \/ job.result = "link") => NothingMade(job)
  /\ job.stage = "store" =>
       /\ job.stamp <= job.row.stamp /\ job.row.stamp <= Len(mails) /\ job.row.custody = NoBooking
       /\ job.row.stamp = job.stamp => job.row.booking.slot = job.slot

RetryInv ==
  /\ \A c \in Conversations : RowTells(c)
  /\ \A w \in Workers : work[w].stage # "idle" => JobTells(work[w])
-----------------------------------------------------------------------------
LEMMA StampTypes ==
  ASSUME IntakeInv
  PROVE  /\ Len(mails) \in Nat /\ mails \in Seq(Mails) /\ events \in Seq(Events)
         /\ conv \in [Conversations -> Rows] /\ work \in [Workers -> Jobs]
         /\ \A c \in Conversations : conv[c] \in Rows /\ conv[c].stamp \in Nat /\ conv[c].booking \in Bookings
                                     /\ conv[c].custody \in Bookings
         /\ \A n \in DOMAIN events : n \in Nat /\ n # NoEvent /\ events[n] \in Events /\ events[n].stamp \in Nat
         /\ \A w \in Workers : work[w] \in Jobs /\ work[w].stamp \in Nat /\ work[w].row \in Rows
                               /\ work[w].row.stamp \in Nat /\ work[w].row.booking \in Bookings
<1>1. /\ mails \in Seq(Mails) /\ events \in Seq(Events)
      /\ conv \in [Conversations -> Rows] /\ work \in [Workers -> Jobs]
  BY DEF IntakeInv, IntakeTypeOK
<1>2. \A c \in Conversations : conv[c] \in Rows
  BY <1>1
<1>3. \A n \in DOMAIN events : n \in Nat /\ n # NoEvent /\ events[n] \in Events
  BY <1>1 DEF NoEvent
<1>4. \A w \in Workers : work[w] \in Jobs
  BY <1>1
<1>5. \A w \in Workers : work[w].row \in Rows /\ work[w].stamp \in Nat
  BY <1>4 DEF Jobs
<1>6. /\ \A c \in Conversations : conv[c].stamp \in Nat /\ conv[c].booking \in Bookings
                                  /\ conv[c].custody \in Bookings
      /\ \A w \in Workers : work[w].row.stamp \in Nat /\ work[w].row.booking \in Bookings
  BY <1>2, <1>5 DEF Rows
<1>7. \A n \in DOMAIN events : events[n].stamp \in Nat
  BY <1>3 DEF Events
<1> QED BY <1>1, <1>2, <1>3, <1>4, <1>5, <1>6, <1>7

\* What a step that leaves calendar and work alone may do to a row: put a new request to the
\* owner, or go on with the one it has.
Asks(c) ==
  /\ conv'[c].state = "awaiting" /\ conv'[c].stamp = Len(mails) + 1
  /\ Len(mails') = Len(mails) + 1

GoesOn(was, row) ==
  /\ row.stamp = was.stamp /\ CustodyFits(row)
  /\ Begun(was) => Begun(row)
  /\ Begun(was) /\ Settled(was) =>
       /\ Settled(row) /\ row.booking.slot = was.booking.slot
       /\ Arrangeable(row) => Arrangeable(was) /\ (MayBeBooked(was) => MayBeBooked(row))

LEMMA RowsGoOn ==
  ASSUME IntakeInv, RetryInv, UNCHANGED <<events, work>>,
         Len(mails') \in Nat, Len(mails) <= Len(mails'),
         \A c \in Conversations : conv'[c] = conv[c] \/ Asks(c) \/ GoesOn(conv[c], conv'[c])
  PROVE  RetryInv'
<1>1. ASSUME NEW c \in Conversations PROVE Asks(c) \/ GoesOn(conv[c], conv'[c])
  BY <1>1 DEF GoesOn, RetryInv, RowTells
<1>2. ASSUME NEW c \in Conversations PROVE RowTells(c)'
  <2>1. RowTells(c) /\ MadeFor(c)' = MadeFor(c) /\ \A n \in MadeFor(c) : n \in DOMAIN events
    BY DEF RetryInv, MadeFor
  <2>2. CASE Asks(c)
    BY <2>1, <2>2, StampTypes DEF Asks, RowTells, CustodyFits, Begun
  <2>3. CASE GoesOn(conv[c], conv'[c])
    BY <2>1, <2>3, StampTypes DEF GoesOn, RowTells, Tells
  <2> QED BY <1>1, <2>2, <2>3
<1>3. ASSUME NEW w \in Workers, work[w].stage # "idle" PROVE JobTells(work[w])'
  <2> DEFINE c == work[w].conv
  <2>1. /\ JobTells(work[w]) /\ c \in Conversations /\ MadeFor(c)' = MadeFor(c)
        /\ \A n \in MadeFor(c) : n \in DOMAIN events
    BY <1>3, JobFacts DEF RetryInv, MadeFor
  <2>2. conv'[c].stamp \in Nat /\ work[w].stamp <= conv'[c].stamp /\ Begun(conv'[c])
        /\ (conv'[c].stamp = work[w].stamp =>
              /\ Settled(conv'[c]) /\ conv'[c].booking.slot = work[w].slot
              /\ work[w].stage # "mark" => Tells(conv'[c]))
    <3>1. CASE Asks(c)
      <4>1. conv[c].stamp <= Len(mails)
        BY <2>1 DEF RetryInv, RowTells
      <4> QED BY <2>1, <3>1, <4>1, StampTypes DEF Asks, JobTells, Begun
    <3>2. CASE GoesOn(conv[c], conv'[c])
      BY <2>1, <3>2, StampTypes DEF GoesOn, JobTells, Tells
    <3> QED BY <1>1, <2>1, <3>1, <3>2
  <2>3. NothingMade(work[w]) => NothingMade(work[w])'
    BY DEF NothingMade, MadeFor
  <2>4. work[w].row.stamp <= Len(mails) => work[w].row.stamp <= Len(mails')
    BY StampTypes
  <2> QED BY <2>1, <2>2, <2>3, <2>4 DEF JobTells
<1> QED BY <1>2, <1>3 DEF RetryInv

\* One row changes, and no request is put.
LEMMA OneGoesOn ==
  ASSUME IntakeInv, RetryInv, UNCHANGED <<events, work, mails>>,
         NEW c \in Conversations, NEW row, conv' = [conv EXCEPT ![c] = row], GoesOn(conv[c], row)
  PROVE  RetryInv'
<1>1. \A d \in Conversations : conv'[d] = conv[d] \/ GoesOn(conv[d], conv'[d])
  BY StampTypes
<1> QED BY <1>1, RowsGoOn, StampTypes

\* One request is put to the owner.
LEMMA OneAsks ==
  ASSUME IntakeInv, RetryInv, UNCHANGED <<events, work>>, NEW mail, mails' = Append(mails, mail), mail \in Mails,
         NEW c \in Conversations, NEW row, conv' = [conv EXCEPT ![c] = row],
         row.state = "awaiting", row.stamp = Len(mails) + 1
  PROVE  RetryInv'
<1>1. Len(mails') = Len(mails) + 1
  BY StampTypes
<1>2. \A d \in Conversations : conv'[d] = conv[d] \/ Asks(d)
  BY <1>1, StampTypes DEF Asks
<1> QED BY <1>1, <1>2, RowsGoOn, StampTypes

LEMMA TellDetailsRetries ==
  ASSUME IntakeInv, RetryInv, NEW c \in Conversations, TellDetails(c) PROVE RetryInv'
<1> DEFINE row == [conv[c] EXCEPT !.state = "ready"]
<1>1. conv[c].state = "collecting" /\ conv' = [conv EXCEPT ![c] = row] /\ UNCHANGED <<events, work, mails>>
  BY StampTypes DEF TellDetails, ownerVars, calendarVars, arrangeVars
<1>2. row.stamp = conv[c].stamp /\ row.custody = conv[c].custody /\ row.state = "ready"
  BY StampTypes DEF Rows
<1> HIDE DEF row
<1>3. GoesOn(conv[c], row)
  BY <1>1, <1>2 DEF GoesOn, Begun, CustodyFits, RetryInv, RowTells
<1> QED BY <1>1, <1>3, OneGoesOn

LEMMA OfferSlotsRetries ==
  ASSUME IntakeInv, RetryInv, NEW c \in Conversations, OfferSlots(c) PROVE RetryInv'
<1> DEFINE row == [conv[c] EXCEPT !.state = "proposing", !.proposed = Offered]
<1>1. conv[c].state = "ready" /\ conv' = [conv EXCEPT ![c] = row] /\ UNCHANGED <<events, work, mails>>
  BY StampTypes DEF OfferSlots, ownerVars, calendarVars, arrangeVars
<1>2. row.stamp = conv[c].stamp /\ row.custody = conv[c].custody /\ row.state = "proposing"
  BY StampTypes DEF Rows
<1> HIDE DEF row
<1>3. GoesOn(conv[c], row)
  BY <1>1, <1>2 DEF GoesOn, Begun, CustodyFits, RetryInv, RowTells
<1> QED BY <1>1, <1>3, OneGoesOn

\* A row that keeps stamp, state, booking and the one beside it.
LEMMA SameRequest ==
  ASSUME RetryInv, NEW c \in Conversations, NEW row,
         row.stamp = conv[c].stamp, row.state = conv[c].state, row.custody = conv[c].custody,
         row.booking = conv[c].booking
  PROVE  GoesOn(conv[c], row)
BY DEF GoesOn, Begun, Settled, Arrangeable, MayBeBooked, CustodyFits, RetryInv, RowTells

\* A row that is closed or declined, and keeps its time and the booking beside it or drops that.
LEMMA OverRequest ==
  ASSUME NEW was, NEW row, row.stamp = was.stamp, row.state \in {"closed", "declined"},
         row.booking.slot = was.booking.slot, row.custody \in {was.custody, NoBooking}
  PROVE  GoesOn(was, row)
BY DEF GoesOn, Begun, Settled, Arrangeable, CustodyFits

LEMMA OfferRescheduleRetries ==
  ASSUME IntakeInv, RetryInv, NEW c \in Conversations, OfferReschedule(c) PROVE RetryInv'
<1> DEFINE row == [conv[c] EXCEPT !.choosing = TRUE, !.proposed = Offered]
<1>1. conv' = [conv EXCEPT ![c] = row] /\ UNCHANGED <<events, work, mails>>
  BY StampTypes DEF OfferReschedule, ownerVars, calendarVars, arrangeVars
<1>2. /\ row.stamp = conv[c].stamp /\ row.state = conv[c].state /\ row.custody = conv[c].custody
      /\ row.booking = conv[c].booking
  BY StampTypes DEF Rows
<1> HIDE DEF row
<1> QED BY <1>1, <1>2, SameRequest, OneGoesOn

LEMMA AdoptBookingRetries ==
  ASSUME IntakeInv, RetryInv, NEW c \in Conversations, NEW holder \in Conversations, AdoptBooking(c, holder)
  PROVE  RetryInv'
<1>1. PICK offered :
        /\ c # holder /\ conv[holder].state = "approved" /\ ~Begun(conv[c])
        /\ conv' = [conv EXCEPT ![c] = Adopted(conv[c], conv[holder], offered),
                                ![holder] = HandedOver(conv[holder])]
        /\ UNCHANGED <<events, work, mails>>
  BY DEF AdoptBooking, Live, HasLiveBooking, Begun, ownerVars, calendarVars, arrangeVars
<1>2. conv'[c] = Adopted(conv[c], conv[holder], offered) /\ conv'[holder] = HandedOver(conv[holder])
      /\ \A d \in Conversations \ {c, holder} : conv'[d] = conv[d]
  BY <1>1, StampTypes
<1>3. conv'[c].stamp = conv[c].stamp /\ conv'[c].custody = conv[c].custody
  BY <1>2, StampTypes DEF Adopted, Rows
<1>4. conv[c].custody = NoBooking
  BY <1>1 DEF RetryInv, RowTells, CustodyFits, Begun
<1>5. GoesOn(conv[c], conv'[c])
  BY <1>1, <1>3, <1>4 DEF GoesOn, CustodyFits
<1>6. /\ conv'[holder].stamp = conv[holder].stamp /\ conv'[holder].state = "closed"
      /\ conv'[holder].booking.slot = conv[holder].booking.slot /\ conv'[holder].custody = NoBooking
  <2> DEFINE left == [conv[holder].booking EXCEPT !.event = NoEvent]
  <2>1. left.slot = conv[holder].booking.slot
    BY StampTypes DEF Bookings
  <2>2. HandedOver(conv[holder]) = [conv[holder] EXCEPT !.state = "closed", !.booking = left,
                                                        !.custody = NoBooking, !.choosing = FALSE]
    BY StampTypes DEF HandedOver, Rows
  <2> HIDE DEF left
  <2>3. /\ HandedOver(conv[holder]).stamp = conv[holder].stamp /\ HandedOver(conv[holder]).state = "closed"
        /\ HandedOver(conv[holder]).booking = left /\ HandedOver(conv[holder]).custody = NoBooking
    BY <2>2, StampTypes DEF Rows
  <2> QED BY <1>2, <2>1, <2>3
<1>7. GoesOn(conv[holder], conv'[holder])
  BY <1>6, OverRequest
<1> QED BY <1>1, <1>2, <1>5, <1>7, RowsGoOn, StampTypes

LEMMA HandleSlotPickRetries ==
  ASSUME IntakeInv, RetryInv, NEW c \in Conversations, NEW s \in Slots, HandleSlotPick(c, s) PROVE RetryInv'
<1> DEFINE k == Superseded(conv[c])
           b == Requested(s)
           row == [conv[c] EXCEPT !.state = "awaiting", !.booking = b, !.custody = k,
                                  !.choosing = FALSE, !.stamp = Len(mails) + 1]
<1>1. /\ conv' = [conv EXCEPT ![c].state = "awaiting", ![c].booking = b, ![c].custody = k,
                              ![c].choosing = FALSE, ![c].stamp = Len(mails) + 1]
      /\ mails' = Append(mails, Asked(c, s)) /\ UNCHANGED <<events, work>>
  BY DEF HandleSlotPick, calendarVars, arrangeVars
<1> HIDE DEF k, b
<1>2. conv' = [conv EXCEPT ![c] = row]
  BY <1>1, StampTypes
<1>3. row.state = "awaiting" /\ row.stamp = Len(mails) + 1
  BY StampTypes DEF Rows
<1>4. Asked(c, s) \in Mails
  BY DEF Asked, Mails
<1> HIDE DEF row
<1> QED BY <1>1, <1>2, <1>3, <1>4, OneAsks

LEMMA ClosedRetries ==
  ASSUME IntakeInv, RetryInv, NEW c \in Conversations,
         CustomerCancels(c, c) \/ OwnerCancels(c) \/ ReachMessageLimit(c)
         \/ \E d \in Conversations : CustomerCancels(d, c)
  PROVE  RetryInv'
<1> DEFINE closed == [conv[c] EXCEPT !.state = "closed"]
           ended == [conv[c] EXCEPT !.state = "closed", !.custody = NoBooking, !.choosing = FALSE]
<1>1. conv' = [conv EXCEPT ![c] = closed] \/ conv' = [conv EXCEPT ![c] = ended]
  BY StampTypes DEF CustomerCancels, OwnerCancels, ReachMessageLimit
<1>2. UNCHANGED <<events, work, mails>>
  BY DEF CustomerCancels, OwnerCancels, ReachMessageLimit, ownerVars, calendarVars, arrangeVars
<1>3. /\ closed.stamp = conv[c].stamp /\ closed.state = "closed" /\ closed.booking = conv[c].booking
      /\ closed.custody = conv[c].custody
      /\ ended.stamp = conv[c].stamp /\ ended.state = "closed" /\ ended.booking = conv[c].booking
      /\ ended.custody = NoBooking
  BY StampTypes DEF Rows
<1> HIDE DEF closed, ended
<1>4. GoesOn(conv[c], closed) /\ GoesOn(conv[c], ended)
  BY <1>3, OverRequest
<1> QED BY <1>1, <1>2, <1>4, OneGoesOn

LEMMA DecideRetries ==
  ASSUME IntakeInv, RetryInv, NEW c \in Conversations, Decide(c) PROVE RetryInv'
<1> DEFINE approves == [conv[c] EXCEPT !.state = "approved", !.custody = NoBooking, !.choosing = FALSE]
           declines == [conv[c] EXCEPT !.state = "declined"]
<1>1. /\ conv[c].state = "awaiting" /\ UNCHANGED <<events, work, mails>>
      /\ \/ conv' = [conv EXCEPT ![c] = approves]
         \/ conv' = [conv EXCEPT ![c] = declines]
         \/ conv' = [conv EXCEPT ![c] = PutBack(conv[c])]
  BY StampTypes DEF Decide, Approve, Decline, calendarVars, arrangeVars
<1>2. ~Settled(conv[c])
  BY <1>1 DEF Settled
<1>3. /\ approves.stamp = conv[c].stamp /\ approves.state = "approved" /\ approves.custody = NoBooking
      /\ declines.stamp = conv[c].stamp /\ declines.state = "declined"
      /\ PutBack(conv[c]).stamp = conv[c].stamp /\ PutBack(conv[c]).state = "approved"
      /\ PutBack(conv[c]).custody = NoBooking
  BY StampTypes DEF PutBack, Rows
<1> HIDE DEF approves, declines
<1>4. GoesOn(conv[c], approves) /\ GoesOn(conv[c], declines) /\ GoesOn(conv[c], PutBack(conv[c]))
  BY <1>2, <1>3 DEF GoesOn, Begun, CustodyFits
<1> QED BY <1>1, <1>4, OneGoesOn

LEMMA HookCreatedRetries ==
  ASSUME IntakeInv, RetryInv, NEW n \in DOMAIN events, NEW c \in Conversations, HookCreated(n, c) PROVE RetryInv'
<1>1. UNCHANGED <<events, work>>
  BY DEF HookCreated, calendarVars, arrangeVars
<1>2. CASE events[n].slot = conv[c].booking.slot
  <2> DEFINE row == [conv[c] EXCEPT !.booking = [conv[c].booking EXCEPT !.event = n, !.kind = "booked"],
                                    !.choosing = FALSE]
  <2>0. /\ conv' = [conv EXCEPT ![c].booking.event = n, ![c].booking.kind = "booked", ![c].choosing = FALSE]
        /\ UNCHANGED mails
    BY <1>2 DEF HookCreated
  <2>1. conv' = [conv EXCEPT ![c] = row] /\ UNCHANGED mails
    <3>1. [conv EXCEPT ![c].booking.event = n, ![c].booking.kind = "booked", ![c].choosing = FALSE]
          = [conv EXCEPT ![c] = [[conv[c] EXCEPT !.booking.event = n, !.booking.kind = "booked"]
                                 EXCEPT !.choosing = FALSE]]
      BY StampTypes
    <3>2. [conv[c] EXCEPT !.booking.event = n, !.booking.kind = "booked"]
          = [conv[c] EXCEPT !.booking = [conv[c].booking EXCEPT !.event = n, !.kind = "booked"]]
      BY StampTypes DEF Rows, Bookings
    <3> QED BY <2>0, <3>1, <3>2, StampTypes DEF Rows
  <2>2. /\ row.stamp = conv[c].stamp /\ row.state = conv[c].state /\ row.custody = conv[c].custody
        /\ row.booking.slot = conv[c].booking.slot /\ row.booking.kind = "booked"
    BY StampTypes DEF Rows, Bookings
  <2> HIDE DEF row
  <2>3. GoesOn(conv[c], row)
    BY <2>2 DEF GoesOn, Begun, Settled, Arrangeable, CustodyFits, RetryInv, RowTells
  <2> QED BY <1>1, <2>1, <2>3, OneGoesOn
<1>3. CASE events[n].slot # conv[c].booking.slot
  <2> DEFINE row == Rerouted(conv[c], n)
  <2>1. conv' = [conv EXCEPT ![c] = row] /\ mails' = Append(mails, Asked(c, events[n].slot))
    BY <1>3, StampTypes DEF HookCreated
  <2>2. row.state = "awaiting" /\ row.stamp = Len(mails) + 1
    BY StampTypes DEF Rerouted, Rows
  <2>3. events[n].slot \in Slots
    BY StampTypes DEF Events
  <2>4. Asked(c, events[n].slot) \in Mails
    BY <2>3 DEF Asked, Mails
  <2> HIDE DEF row
  <2> QED BY <1>1, <2>1, <2>2, <2>4, OneAsks
<1> QED BY <1>2, <1>3

LEMMA HookCancelledRetries ==
  ASSUME IntakeInv, RetryInv, NEW n \in DOMAIN events, NEW c \in Conversations, HookCancelled(n, c) PROVE RetryInv'
<1> DEFINE back == [conv[c] EXCEPT !.state = "approved", !.booking = conv[c].custody, !.custody = NoBooking]
           closed == [conv[c] EXCEPT !.state = "closed"]
<1>1. /\ conv' = [conv EXCEPT ![c] = IF conv[c].custody.event # NoEvent THEN back ELSE closed]
      /\ UNCHANGED <<events, work, mails>>
  BY StampTypes DEF HookCancelled, ownerVars, calendarVars, arrangeVars
<1>2. /\ back.stamp = conv[c].stamp /\ back.state = "approved" /\ back.custody = NoBooking
      /\ closed.stamp = conv[c].stamp /\ closed.state = "closed" /\ closed.booking = conv[c].booking
      /\ closed.custody = conv[c].custody
  BY StampTypes DEF Rows
<1> HIDE DEF back, closed
<1>3. CASE conv[c].custody.event # NoEvent
  <2>1. ~Settled(conv[c])
    BY <1>3, RowTypes DEF Settled
  <2>2. GoesOn(conv[c], back)
    BY <1>2, <2>1 DEF GoesOn, Begun, CustodyFits
  <2> QED BY <1>1, <1>3, <2>2, OneGoesOn
<1>4. CASE conv[c].custody.event = NoEvent
  BY <1>1, <1>2, <1>4, OverRequest, OneGoesOn
<1> QED BY <1>3, <1>4

LEMMA HookSupersededCancelledRetries ==
  ASSUME IntakeInv, RetryInv, NEW n \in DOMAIN events, NEW c \in Conversations, HookSupersededCancelled(n, c)
  PROVE  RetryInv'
<1> DEFINE row == CustodyWithoutEvent(conv[c])
<1>1. /\ conv[c].custody.event = n
      /\ conv' = [conv EXCEPT ![c] = row] /\ UNCHANGED <<events, work, mails>>
  BY StampTypes DEF HookSupersededCancelled, ownerVars, calendarVars, arrangeVars
<1>2. row.stamp = conv[c].stamp /\ row.state = conv[c].state
  BY StampTypes DEF CustodyWithoutEvent, Rows
<1>3. conv[c].custody # NoBooking
  BY <1>1, StampTypes, RowTypes
<1> HIDE DEF row
<1>4. GoesOn(conv[c], row)
  BY <1>2, <1>3 DEF GoesOn, Begun, Settled, CustodyFits, RetryInv, RowTells
<1> QED BY <1>1, <1>4, OneGoesOn

\* A step of the one worker there is.
LEMMA JobStep ==
  ASSUME OneArranges, RetryInv, NEW w \in Workers, \A c \in Conversations : RowTells(c)',
         NEW job, work'[w] = job, job.stage # "idle" => JobTells(job)'
  PROVE  RetryInv'
<1>1. ASSUME NEW v \in Workers, work'[v].stage # "idle" PROVE JobTells(work[v])'
  <2>1. v = w
    BY DEF OneArranges
  <2> QED BY <1>1, <2>1 DEF JobTells, NothingMade
<1> QED BY <1>1 DEF RetryInv

\* Rows, mails and events stay.
LEMMA TellsStays ==
  ASSUME RetryInv, UNCHANGED <<conv, mails, events>> PROVE \A c \in Conversations : RowTells(c)'
BY DEF RetryInv, RowTells, MadeFor

LEMMA ArrangeReadRetries ==
  ASSUME OneArranges, IntakeInv, RetryInv, NEW w \in Workers, NEW c \in Conversations, ArrangeRead(w, c)
  PROVE  RetryInv'
<1> DEFINE base == [Idle EXCEPT !.conv = c, !.slot = conv[c].booking.slot, !.stamp = conv[c].stamp]
           next == IF ~Arrangeable(conv[c]) THEN Idle
                   ELSE IF MayBeBooked(conv[c])
                        THEN [base EXCEPT !.stage = "find"]
                        ELSE [base EXCEPT !.stage = "mark", !.row = conv[c]]
<1>1. work' = [work EXCEPT ![w] = next] /\ UNCHANGED <<conv, mails, events>>
  BY DEF ArrangeRead, ownerVars, calendarVars
<1>2. work'[w] = next
  BY <1>1, StampTypes
<1>3. base.conv = c /\ base.slot = conv[c].booking.slot /\ base.stamp = conv[c].stamp /\ base.result = "none"
  BY DEF Idle
<1>0. PICK job : job = next
  OBVIOUS
<1>4. \/ job.stage = "idle"
      \/ /\ Arrangeable(conv[c]) /\ job.conv = c /\ job.slot = conv[c].booking.slot /\ job.stamp = conv[c].stamp
         /\ job.result = "none"
         /\ \/ job.stage = "find" /\ MayBeBooked(conv[c])
            \/ job.stage = "mark" /\ job.row = conv[c] /\ ~MayBeBooked(conv[c])
  <2>1. CASE ~Arrangeable(conv[c])
    BY <1>0, <2>1, RowTypes
  <2>2. CASE Arrangeable(conv[c]) /\ MayBeBooked(conv[c])
    BY <1>0, <1>3, <2>2 DEF Idle
  <2>3. CASE Arrangeable(conv[c]) /\ ~MayBeBooked(conv[c])
    BY <1>0, <1>3, <2>3 DEF Idle
  <2> QED BY <2>1, <2>2, <2>3
<1> HIDE DEF base, next
<1>5. job.stage # "idle" => JobTells(job)
  <2> SUFFICES ASSUME job.stage # "idle" PROVE JobTells(job)
    OBVIOUS
  <2>1. /\ RowTells(c) /\ conv[c].state = "approved" /\ conv[c].custody = NoBooking
        /\ Begun(conv[c]) /\ Settled(conv[c])
    BY <1>4 DEF Arrangeable, RetryInv, RowTells, CustodyFits, Begun, Settled
  <2>2. \A n \in MadeFor(c) : n \in DOMAIN events
    BY DEF MadeFor
  <2>3. \A n \in MadeFor(c) : events[n].stamp = job.stamp => events[n].slot = job.slot /\ job.stage # "mark"
    BY <1>4, <2>1 DEF RowTells, Tells
  <2> QED BY <1>4, <2>1, <2>2, <2>3, StampTypes DEF JobTells, RowTells, Tells
<1>6. job.stage # "idle" => JobTells(job)'
  BY <1>1, <1>5 DEF JobTells, MadeFor, NothingMade
<1> QED BY <1>0, <1>1, <1>2, <1>6, TellsStays, JobStep

LEMMA ArrangeFindRetries ==
  ASSUME OneArranges, IntakeInv, RetryInv, NEW w \in Workers, ArrangeFind(w) PROVE RetryInv'
<1> DEFINE was == work[w]
           next == IF was.slot \notin Free THEN [was EXCEPT !.stage = "answered", !.result = "booked"]
                   ELSE [was EXCEPT !.stage = "book"]
<1>1. was.stage = "find" /\ UNCHANGED <<conv, mails, events>>
  BY DEF ArrangeFind, ownerVars, calendarVars
<1>2. work' = [work EXCEPT ![w] = next]
  BY StampTypes DEF ArrangeFind, Answered, Jobs
<1>0. PICK job : job = next
  OBVIOUS
<1>3. /\ work'[w] = job /\ job = next /\ JobTells(was) /\ was \in Jobs
      /\ was.slot \in Slots
  BY <1>0, <1>1, <1>2, StampTypes, JobFacts DEF RetryInv
<1>4. /\ job.conv = was.conv /\ job.slot = was.slot /\ job.stamp = was.stamp
      /\ \/ job.stage = "answered" /\ job.result = "booked"
         \/ job.stage = "book" /\ was.slot \in Free
  BY <1>3 DEF Jobs
<1> HIDE DEF was, next
<1>5. ASSUME job.stage = "book" PROVE NothingMade(job)
  BY <1>1, <1>3, <1>4, <1>5 DEF NothingMade, JobTells, MadeFor, Free
<1>6. JobTells(job)
  BY <1>1, <1>3, <1>4, <1>5 DEF JobTells
<1>7. JobTells(job)'
  BY <1>1, <1>6 DEF JobTells, MadeFor, NothingMade
<1> QED BY <1>1, <1>3, <1>7, TellsStays, JobStep

LEMMA ArrangeReloadRetries ==
  ASSUME OneArranges, IntakeInv, RetryInv, NEW w \in Workers, ArrangeReload(w) PROVE RetryInv'
<1> DEFINE was == work[w]
           row == conv[was.conv]
           next == IF Arrangeable(row) THEN [was EXCEPT !.stage = "store", !.row = row] ELSE Idle
<1>1. was.stage = "answered" /\ UNCHANGED <<conv, mails, events>>
  BY DEF ArrangeReload, ownerVars, calendarVars
<1>2. work' = [work EXCEPT ![w] = next]
  BY StampTypes DEF ArrangeReload, RowOf
<1>0. PICK job : job = next
  OBVIOUS
<1>3. work'[w] = job /\ job = next /\ JobTells(was) /\ was \in Jobs /\ was.conv \in Conversations
  BY <1>0, <1>1, <1>2, StampTypes, JobFacts DEF RetryInv
<1>4. \/ job.stage = "idle"
      \/ /\ Arrangeable(row) /\ job.conv = was.conv /\ job.slot = was.slot /\ job.stamp = was.stamp
         /\ job.stage = "store" /\ job.row = row /\ job.result = was.result
  BY <1>3, RowTypes DEF Jobs
<1> HIDE DEF was, row, next
<1>5. job.stage # "idle" => JobTells(job)
  <2> SUFFICES ASSUME job.stage = "store" PROVE JobTells(job)
    BY <1>4
  <2>1. /\ RowTells(was.conv) /\ row.custody = NoBooking
    BY <1>3, <1>4 DEF Arrangeable, RetryInv, RowTells, CustodyFits, row
  <2>2. NothingMade(was) => NothingMade(job)
    BY <1>4 DEF NothingMade
  <2> QED BY <1>1, <1>3, <1>4, <2>1, <2>2 DEF JobTells, RowTells, row
<1>6. job.stage # "idle" => JobTells(job)'
  BY <1>1, <1>5 DEF JobTells, MadeFor, NothingMade
<1> QED BY <1>1, <1>3, <1>6, TellsStays, JobStep

\* A row is saved: the other rows are as they were.
LEMMA SaveTells ==
  ASSUME IntakeInv, RetryInv, NEW c \in Conversations, NEW row, conv' = [conv EXCEPT ![c] = row],
         UNCHANGED <<mails, events>>, RowTells(c)'
  PROVE  \A d \in Conversations : RowTells(d)'
<1>1. ASSUME NEW d \in Conversations, d # c PROVE RowTells(d)'
  <2>1. conv'[d] = conv[d] /\ RowTells(d)
    BY <1>1, StampTypes DEF RetryInv
  <2> QED BY <2>1 DEF RowTells, MadeFor
<1> QED BY <1>1

LEMMA ArrangeMarkRetries ==
  ASSUME OneArranges, IntakeInv, RetryInv, NEW w \in Workers, ArrangeMark(w) PROVE RetryInv'
<1>c. PICK c : c = work[w].conv
  OBVIOUS
<1> DEFINE was == work[w]
           row == Marked(was.row)
           next == [was EXCEPT !.stage = "book", !.row = NewRow]
<1>1. /\ was.stage = "mark" /\ conv' = [conv EXCEPT ![c] = row]
      /\ UNCHANGED <<mails, events>>
  BY <1>c DEF ArrangeMark, ownerVars, calendarVars
<1>2. work' = [work EXCEPT ![w] = next]
  BY StampTypes DEF ArrangeMark
<1>0. PICK job : job = next
  OBVIOUS
<1>3. /\ work'[w] = job /\ job = next /\ JobTells(was) /\ was \in Jobs /\ was.conv = c /\ c \in Conversations
      /\ was.row.state = "approved" /\ RowTells(c)
  BY <1>c, <1>0, <1>1, <1>2, StampTypes, JobFacts DEF RetryInv, WorkFits
<1>4. /\ job.conv = c /\ job.slot = was.slot /\ job.stamp = was.stamp /\ job.stage = "book"
  BY <1>3 DEF Jobs
<1>5. /\ row.state = "approved" /\ row.booking.slot = was.row.booking.slot /\ row.stamp = was.row.stamp
      /\ row.custody = was.row.custody /\ row.booking.attempted = TRUE
  <2> DEFINE tried == [was.row.booking EXCEPT !.attempted = TRUE]
  <2>1. was.row \in Rows /\ was.row.booking \in Bookings
    BY StampTypes
  <2>2. tried.slot = was.row.booking.slot /\ tried.attempted = TRUE
    BY <2>1 DEF Bookings
  <2>3. row = [was.row EXCEPT !.booking = tried]
    BY <2>1 DEF Marked, Rows
  <2> HIDE DEF was, row, tried
  <2>4. row.state = was.row.state /\ row.booking = tried /\ row.stamp = was.row.stamp /\ row.custody = was.row.custody
    BY <2>1, <2>3 DEF Rows
  <2> QED BY <1>3, <2>2, <2>4
<1>6. conv'[c] = row
  BY <1>1, <1>3, StampTypes
<1>7. \A n \in MadeFor(c) : n \in DOMAIN events /\ events[n].stamp <= was.stamp /\ events[n].stamp # was.stamp
  BY <1>1, <1>3 DEF JobTells, MadeFor
<1>8. was.stamp \in Nat /\ conv[c].stamp \in Nat /\ Len(mails) \in Nat
  BY <1>3, StampTypes
<1> HIDE DEF was, row, next
<1>9. /\ Begun(row) /\ Settled(row) /\ Tells(row) /\ row.stamp = was.stamp /\ row.booking.slot = was.slot
  BY <1>1, <1>3, <1>5 DEF Begun, Settled, Tells, MayBeBooked, JobTells
<1>10. MadeFor(c)' = MadeFor(c)
  BY <1>1 DEF MadeFor
<1>11. RowTells(c)'
  <2>1. row.stamp <= Len(mails)
    BY <1>3, <1>8, <1>9 DEF JobTells, RowTells
  <2>2. CustodyFits(row)
    BY <1>9 DEF CustodyFits, Settled
  <2> QED BY <1>1, <1>6, <1>7, <1>9, <1>10, <2>1, <2>2 DEF RowTells
<1>12. JobTells(job)'
  BY <1>1, <1>4, <1>6, <1>7, <1>8, <1>9, <1>10 DEF JobTells, NothingMade
<1> QED BY <1>1, <1>3, <1>11, <1>12, SaveTells, JobStep

LEMMA ArrangeStoreRetries ==
  ASSUME OneArranges, IntakeInv, RetryInv, NEW w \in Workers, ArrangeStore(w) PROVE RetryInv'
<1>c. PICK c : c = work[w].conv
  OBVIOUS
<1> DEFINE was == work[w]
           row == [was.row EXCEPT !.booking = [was.row.booking EXCEPT !.kind = was.result]]
<1>1. /\ was.stage = "store" /\ conv' = [conv EXCEPT ![c] = [was.row EXCEPT !.booking.kind = was.result]]
      /\ UNCHANGED <<mails, events>> /\ work' = [work EXCEPT ![w] = Idle]
  BY <1>c DEF ArrangeStore, ownerVars
<1>2. conv' = [conv EXCEPT ![c] = row]
  BY <1>1, StampTypes DEF Rows, Bookings
<1>3. /\ work'[w] = Idle /\ JobTells(was) /\ was.conv = c /\ c \in Conversations
      /\ was.row.state = "approved"
  BY <1>c, <1>1, StampTypes, JobFacts DEF RetryInv, WorkFits
<1>4. /\ row.state = "approved" /\ row.booking.slot = was.row.booking.slot /\ row.stamp = was.row.stamp
      /\ row.custody = was.row.custody /\ row.booking.kind = was.result
  BY <1>3, StampTypes DEF Rows, Bookings
<1>5. conv'[c] = row
  BY <1>2, <1>3, StampTypes
<1>6. \A n \in MadeFor(c) : n \in DOMAIN events /\ events[n].stamp \in Nat
  BY StampTypes DEF MadeFor
<1>7. was.stamp \in Nat /\ was.row.stamp \in Nat
  BY StampTypes
<1> HIDE DEF was, row
<1>8. /\ Begun(row) /\ Settled(row) /\ Tells(row) /\ CustodyFits(row) /\ row.stamp <= Len(mails)
      /\ was.stamp <= row.stamp
      /\ row.stamp = was.stamp => row.booking.slot = was.slot
  BY <1>1, <1>3, <1>4 DEF Begun, Settled, Tells, Arrangeable, CustodyFits, JobTells
<1>9. \A n \in MadeFor(c) :
        /\ events[n].stamp <= was.stamp
        /\ events[n].stamp = was.stamp => events[n].slot = was.slot
  BY <1>3 DEF JobTells
<1>10. MadeFor(c)' = MadeFor(c)
  BY <1>1 DEF MadeFor
<1>11. RowTells(c)'
  <2>1. row.stamp \in Nat
    BY <1>4, <1>7
  <2>2. \A n \in MadeFor(c) :
          /\ events[n].stamp <= row.stamp
          /\ events[n].stamp = row.stamp => row.booking.slot = events[n].slot
    <3> SUFFICES ASSUME NEW n \in MadeFor(c)
                 PROVE  /\ events[n].stamp <= row.stamp
                        /\ events[n].stamp = row.stamp => row.booking.slot = events[n].slot
      OBVIOUS
    <3>1. events[n].stamp \in Nat /\ events[n].stamp <= was.stamp /\ was.stamp <= row.stamp
      BY <1>6, <1>8, <1>9
    <3>2. events[n].stamp = row.stamp => row.stamp = was.stamp
      BY <1>7, <2>1, <3>1
    <3> QED BY <1>7, <1>8, <1>9, <2>1, <3>1, <3>2
  <2> QED BY <1>1, <1>5, <1>8, <1>10, <2>2 DEF RowTells
<1> QED BY <1>1, <1>2, <1>3, <1>11, RowTypes, SaveTells, JobStep

\* An event is added: the others are as they were.
LEMMA AddedEvent ==
  ASSUME IntakeInv, NEW e, events' = Append(events, e), NEW c
  PROVE  /\ \A n \in MadeFor(c) : n \in MadeFor(c)' /\ events'[n] = events[n]
         /\ \A n \in MadeFor(c)' : \/ n \in MadeFor(c) /\ events'[n] = events[n]
                                   \/ events'[n] = e /\ e.for = c /\ ~e.linked
<1>1. /\ DOMAIN events' = DOMAIN events \cup {Len(events) + 1}
      /\ \A n \in DOMAIN events : events'[n] = events[n]
      /\ events'[Len(events) + 1] = e
  BY StampTypes
<1> QED BY <1>1 DEF MadeFor

LEMMA ArrangeBookRetries ==
  ASSUME OneArranges, IntakeInv, RetryInv, NEW w \in Workers, ArrangeBook(w) PROVE RetryInv'
<1>0. PICK c : c = work[w].conv
  OBVIOUS
<1> DEFINE was == work[w]
           made == [was EXCEPT !.stage = "answered", !.result = "booked"]
           sent == [was EXCEPT !.stage = "answered", !.result = "link"]
<1>1. was.stage = "book" /\ UNCHANGED <<conv, mails>>
  BY DEF ArrangeBook, ownerVars
<1>2. \/ events' = Append(events, Invitee(was)) /\ work' = [work EXCEPT ![w] = made]
      \/ UNCHANGED events /\ work' = [work EXCEPT ![w] = sent]
  BY StampTypes DEF ArrangeBook, Answered, Jobs
<1>3. /\ JobTells(was) /\ was.conv = c /\ was \in Jobs /\ c \in Conversations /\ \A d \in Conversations : RowTells(d)
      /\ was.stamp \in Nat
  BY <1>0, <1>1, StampTypes, JobFacts DEF RetryInv
<1>b. PICK booked, link : booked = made /\ link = sent
  OBVIOUS
<1>4. /\ booked.conv = c /\ booked.slot = was.slot /\ booked.stamp = was.stamp
      /\ booked.stage = "answered" /\ booked.result = "booked"
      /\ link.conv = c /\ link.slot = was.slot /\ link.stamp = was.stamp
      /\ link.stage = "answered" /\ link.result = "link"
  BY <1>3, <1>b DEF Jobs
<1>5. /\ Invitee(was).for = c /\ Invitee(was).stamp = was.stamp /\ Invitee(was).slot = was.slot
  BY <1>3 DEF Invitee
<1> HIDE DEF was, made, sent
<1>6. CASE UNCHANGED events /\ work' = [work EXCEPT ![w] = sent]
  <2>1. work'[w] = link
    BY <1>6, <1>b, StampTypes
  <2>2. JobTells(link)
    BY <1>1, <1>3, <1>4 DEF JobTells, NothingMade
  <2>3. JobTells(link)'
    BY <1>1, <1>6, <2>2 DEF JobTells, NothingMade, MadeFor
  <2> QED BY <1>1, <1>6, <2>1, <2>3, TellsStays, JobStep
<1>7. CASE events' = Append(events, Invitee(was)) /\ work' = [work EXCEPT ![w] = made]
  <2>1. work'[w] = booked
    BY <1>7, <1>b, StampTypes
  <2>2. \A d \in Conversations : \A n \in MadeFor(d)' :
          \/ n \in MadeFor(d) /\ events'[n] = events[n]
          \/ d = c /\ events'[n].stamp = was.stamp /\ events'[n].slot = was.slot
    <3>1. PICK e : e = Invitee(was)
      OBVIOUS
    <3>2. events' = Append(events, e) /\ e.for = c /\ e.stamp = was.stamp /\ e.slot = was.slot
      BY <1>5, <1>7, <3>1
    <3>3. ASSUME NEW d \in Conversations, NEW n \in MadeFor(d)'
          PROVE  \/ n \in MadeFor(d) /\ events'[n] = events[n]
                 \/ events'[n] = e /\ e.for = d
      <4>1. events' = Append(events, e)
        BY <3>2
      <4> QED BY <4>1, AddedEvent DEF MadeFor
    <3> QED BY <3>2, <3>3
  <2>3. ASSUME NEW d \in Conversations PROVE RowTells(d)'
    <3>1. \A n \in MadeFor(d)' :
            /\ Begun(conv[d]) /\ events'[n].stamp <= conv[d].stamp
            /\ events'[n].stamp = conv[d].stamp =>
                 Settled(conv[d]) /\ conv[d].booking.slot = events'[n].slot /\ Tells(conv[d])
      <4> SUFFICES ASSUME NEW n \in MadeFor(d)'
                   PROVE  /\ Begun(conv[d]) /\ events'[n].stamp <= conv[d].stamp
                          /\ events'[n].stamp = conv[d].stamp =>
                               Settled(conv[d]) /\ conv[d].booking.slot = events'[n].slot /\ Tells(conv[d])
        OBVIOUS
      <4>1. CASE n \in MadeFor(d) /\ events'[n] = events[n]
        BY <1>3, <4>1 DEF RowTells
      <4>2. CASE d = c /\ events'[n].stamp = was.stamp /\ events'[n].slot = was.slot
        BY <1>1, <1>3, <4>2 DEF JobTells
      <4> QED BY <2>2, <4>1, <4>2
    <3> QED BY <1>1, <1>3, <3>1 DEF RowTells
  <2>4. \A n \in MadeFor(c)' : /\ events'[n].stamp <= was.stamp
                               /\ events'[n].stamp = was.stamp => events'[n].slot = was.slot
    BY <1>3, <2>2 DEF JobTells
  <2>5. JobTells(booked)'
    BY <1>1, <1>3, <1>4, <2>4 DEF JobTells
  <2> QED BY <2>1, <2>3, <2>5, JobStep
<1> QED BY <1>2, <1>6, <1>7

LEMMA ArrangeFailsRetries ==
  ASSUME OneArranges, IntakeInv, RetryInv, NEW w \in Workers, ArrangeFails(w) \/ Reclaim(w) PROVE RetryInv'
<1>1. UNCHANGED <<conv, mails, events>> /\ (work' = [work EXCEPT ![w] = Idle] \/ UNCHANGED work)
  BY DEF ArrangeFails, Reclaim, ownerVars, calendarVars
<1>2. CASE work' = [work EXCEPT ![w] = Idle]
  <2>1. work'[w].stage = "idle"
    BY <1>2, StampTypes, RowTypes
  <2> QED BY <1>1, <2>1, TellsStays, JobStep
<1>3. CASE UNCHANGED work
  BY <1>1, <1>3, TellsStays DEF RetryInv, JobTells, NothingMade, MadeFor
<1> QED BY <1>1, <1>2, <1>3

\* The provider leaves what workers made as it is, or cancels it.
LEMMA ProviderRetries ==
  ASSUME IntakeInv, RetryInv, UNCHANGED <<conv, mails, work>>,
         \A c \in Conversations : \A n \in MadeFor(c)' :
           /\ n \in MadeFor(c) /\ events'[n].stamp = events[n].stamp /\ events'[n].slot = events[n].slot
           /\ events'[n].active => events[n].active
  PROVE  RetryInv'
<1>1. ASSUME NEW c \in Conversations PROVE RowTells(c)'
  BY DEF RetryInv, RowTells
<1>2. ASSUME NEW w \in Workers, work[w].stage # "idle" PROVE JobTells(work[w])'
  <2>1. JobTells(work[w]) /\ work[w].conv \in Conversations
    BY <1>2, JobFacts DEF RetryInv
  <2>2. NothingMade(work[w]) => NothingMade(work[w])'
    BY <2>1 DEF NothingMade
  <2> QED BY <2>1, <2>2 DEF JobTells
<1> QED BY <1>1, <1>2 DEF RetryInv

LEMMA BookByLinkRetries ==
  ASSUME IntakeInv, RetryInv, NEW c \in Conversations, NEW s \in Slots, BookByLink(c, s) PROVE RetryInv'
<1> DEFINE e == [slot |-> s, for |-> c, stamp |-> conv[c].stamp, linked |-> TRUE, active |-> TRUE]
<1>1. events' = Append(events, e) /\ UNCHANGED <<conv, mails, work>>
  BY DEF BookByLink, ownerVars, arrangeVars
<1>2. e.linked
  OBVIOUS
<1> HIDE DEF e
<1>3. \A d \in Conversations : \A n \in MadeFor(d)' : n \in MadeFor(d) /\ events'[n] = events[n]
  BY <1>1, <1>2, AddedEvent
<1> QED BY <1>1, <1>3, ProviderRetries

LEMMA EventCancelledRetries ==
  ASSUME IntakeInv, RetryInv, NEW m \in DOMAIN events, EventCancelled(m) PROVE RetryInv'
<1>1. events' = [events EXCEPT ![m].active = FALSE] /\ UNCHANGED <<conv, mails, work>>
  BY DEF EventCancelled, ownerVars, arrangeVars
<1>2. DOMAIN events' = DOMAIN events
  BY <1>1
<1>3. ASSUME NEW n \in DOMAIN events
      PROVE  /\ events'[n].for = events[n].for /\ events'[n].linked = events[n].linked
             /\ events'[n].stamp = events[n].stamp /\ events'[n].slot = events[n].slot
             /\ events'[n].active => events[n].active
  BY <1>1, StampTypes DEF EventCancelled, Events
<1>4. \A c \in Conversations : \A n \in MadeFor(c)' :
        /\ n \in MadeFor(c) /\ events'[n].stamp = events[n].stamp /\ events'[n].slot = events[n].slot
        /\ events'[n].active => events[n].active
  BY <1>2, <1>3 DEF MadeFor
<1> QED BY <1>1, <1>4, ProviderRetries

LEMMA TurnRetries ==
  ASSUME IntakeInv, RetryInv, NEW c \in Conversations, CustomerTurn(c) PROVE RetryInv'
<1>1. ASSUME NEW holder \in Conversations, UnverifiedChange(c, holder) PROVE RetryInv'
  BY <1>1 DEF UnverifiedChange, intakeVars, ownerVars, calendarVars, arrangeVars, RetryInv, RowTells, JobTells,
              NothingMade, MadeFor
<1>2. ASSUME NEW holder \in Conversations, CustomerCancels(c, holder) PROVE RetryInv'
  BY <1>2, ClosedRetries
<1> QED BY <1>1, <1>2, TellDetailsRetries, OfferSlotsRetries, OfferRescheduleRetries, HandleSlotPickRetries,
           AdoptBookingRetries, ClosedRetries DEF CustomerTurn

LEMMA RetryStepKeeps ==
  ASSUME OneArranges, IntakeInv, RetryInv, [IntakeNext]_intakeVars PROVE RetryInv'
<1>1. ASSUME NEW c \in Conversations, CustomerTurn(c) \/ OwnerDecides(c) PROVE RetryInv'
  BY <1>1, TurnRetries, DecideRetries, ClosedRetries DEF OwnerDecides
<1>2. ASSUME NEW c \in Conversations, NEW s \in Slots, BookByLink(c, s) PROVE RetryInv'
  BY <1>2, BookByLinkRetries
<1>3. ASSUME NEW n \in DOMAIN mails, DecideByLink(n) PROVE RetryInv'
  BY <1>3, MailTypes, DecideRetries DEF DecideByLink, LinkedConversation
<1>4. ASSUME NEW w \in Workers, Arrange(w) PROVE RetryInv'
  BY <1>4, ArrangeReadRetries, ArrangeMarkRetries, ArrangeFindRetries, ArrangeBookRetries, ArrangeReloadRetries,
     ArrangeStoreRetries, ArrangeFailsRetries DEF Arrange
<1>5. ASSUME NEW n \in DOMAIN events, EventCancelled(n) PROVE RetryInv'
  BY <1>5, EventCancelledRetries
<1>6. ASSUME NEW n \in DOMAIN events, NEW c \in Conversations, Hook(n, c) PROVE RetryInv'
  BY <1>6, HookCreatedRetries, HookCancelledRetries, HookSupersededCancelledRetries DEF Hook
<1>7. CASE UNCHANGED intakeVars
  BY <1>7 DEF intakeVars, ownerVars, calendarVars, arrangeVars, RetryInv, RowTells, JobTells, NothingMade, MadeFor
<1> QED BY <1>1, <1>2, <1>3, <1>4, <1>5, <1>6, <1>7 DEF IntakeNext

\* With one worker, what it made under the stamp of a request and the row with that stamp go
\* on agreeing, whatever the customer, the owner and the webhooks do in between.
THEOREM RetryInvariance == OneArranges /\ IntakeSpec => []RetryInv
<1>1. IntakeInit => RetryInv
  <2> SUFFICES ASSUME IntakeInit PROVE RetryInv
    OBVIOUS
  <2>1. \A c \in Conversations : RowTells(c)
    BY DEF IntakeInit, RowTells, NewRow, MadeFor, CustodyFits
  <2>2. \A w \in Workers : work[w].stage = "idle"
    BY RowTypes DEF IntakeInit
  <2> QED BY <2>1, <2>2 DEF RetryInv
<1>2. OneArranges /\ IntakeInv /\ RetryInv /\ [IntakeNext]_intakeVars => RetryInv'
  BY RetryStepKeeps
<1>3. OneArranges => OneArranges'
  BY DEF OneArranges
<1> QED BY <1>1, <1>2, <1>3, IntakeInvariance, PTL DEF IntakeSpec

\* The customer of a request that an earlier attempt has booked is not sent a link to book once
\* more (the marker of ArrangeIntakeBookingService.arrange, saved before the provider is called).
THEOREM RetriesBookOnce == OneArranges /\ IntakeSpec => RetryBooksOnce
<1>1. ASSUME IntakeInv, RetryInv, IntakeNext, NEW c \in Conversations, bookingLinks'[c] > bookingLinks[c],
             NEW n \in DOMAIN events, events[n].for = c, events[n].active, ~events[n].linked
      PROVE  events[n].stamp # conv'[c].stamp
  <2>1. PICK w \in Workers : ArrangeStore(w)
    <3>1. ASSUME NEW d \in Conversations, NEW s \in Slots, BookByLink(d, s)
          PROVE  bookingLinks'[c] \in Int /\ bookingLinks'[c] <= bookingLinks[c]
      <4>1. bookingLinks' = [bookingLinks EXCEPT ![d] = @ - 1] /\ bookingLinks \in [Conversations -> Nat]
        BY <1>1, <3>1 DEF BookByLink, IntakeInv, IntakeTypeOK
      <4>2. bookingLinks[c] \in Nat /\ (c = d => bookingLinks'[c] = bookingLinks[c] - 1)
            /\ (c # d => bookingLinks'[c] = bookingLinks[c])
        BY <4>1
      <4> QED BY <4>2
    <3>3. ASSUME NEW d \in Conversations, CustomerTurn(d) \/ OwnerDecides(d) PROVE UNCHANGED bookingLinks
      BY <3>3 DEF CustomerTurn, TellDetails, OfferSlots, OfferReschedule, HandleSlotPick, AdoptBooking,
                  CustomerCancels, UnverifiedChange, ReachMessageLimit, OwnerDecides, OwnerCancels, Decide,
                  Approve, Decline, intakeVars, calendarVars
    <3>4. ASSUME NEW m \in DOMAIN mails, DecideByLink(m) PROVE UNCHANGED bookingLinks
      BY <3>4 DEF DecideByLink, Decide, Approve, Decline
    <3>5. ASSUME NEW w \in Workers, Arrange(w), ~ArrangeStore(w) PROVE UNCHANGED bookingLinks
      BY <3>5 DEF Arrange, ArrangeRead, ArrangeMark, ArrangeFind, ArrangeBook, ArrangeReload, ArrangeFails,
                  Reclaim, calendarVars
    <3>6. ASSUME NEW m \in DOMAIN events, EventCancelled(m) \/ \E d \in Conversations : Hook(m, d)
          PROVE  UNCHANGED bookingLinks
      BY <3>6 DEF EventCancelled, Hook, HookCreated, HookCancelled, HookSupersededCancelled, calendarVars
    <3>7. \A k \in Nat : ~(k > k)
      OBVIOUS
    <3>8. bookingLinks[c] \in Nat
      BY <1>1 DEF IntakeInv, IntakeTypeOK
    <3>9. ~UNCHANGED bookingLinks /\ ~\E d \in Conversations, s \in Slots : BookByLink(d, s)
      <4>1. ASSUME NEW d \in Conversations, NEW s \in Slots, BookByLink(d, s) PROVE FALSE
        BY <1>1, <3>1, <3>8, <4>1 DEF BookByLink, IntakeInv, IntakeTypeOK
      <4> QED BY <1>1, <3>7, <3>8, <4>1
    <3> QED BY <1>1, <3>3, <3>4, <3>5, <3>6, <3>9 DEF IntakeNext
  <2> DEFINE job == work[w]
  <2>2. /\ job.stage = "store" /\ bookingLinks' = LinkSent(job.conv, job.result)
        /\ conv' = [conv EXCEPT ![job.conv] = [job.row EXCEPT !.booking.kind = job.result]]
    BY <2>1 DEF ArrangeStore
  <2>3. JobTells(job) /\ job.conv \in Conversations /\ bookingLinks \in [Conversations -> Nat]
        /\ job.stamp \in Nat /\ job.row.stamp \in Nat /\ events[n].stamp \in Nat
    BY <1>1, <2>2, JobFacts, StampTypes DEF RetryInv, IntakeInv, IntakeTypeOK
  <2>4. c = job.conv /\ job.result = "link"
    BY <1>1, <2>2, <2>3 DEF LinkSent
  <2>5. conv'[c].stamp = job.row.stamp
    BY <1>1, <2>2, <2>4, StampTypes DEF Rows
  <2>6. n \in MadeFor(job.conv)
    BY <1>1, <2>4 DEF MadeFor
  <2> HIDE DEF job
  <2> QED BY <1>1, <2>2, <2>3, <2>4, <2>5, <2>6 DEF JobTells, NothingMade
<1>2. IntakeInv /\ RetryInv /\ [IntakeNext]_intakeVars =>
        [\A c \in Conversations :
           bookingLinks'[c] > bookingLinks[c] =>
             \A n \in DOMAIN events :
               (events[n].for = c /\ events[n].active /\ ~events[n].linked)
               => events[n].stamp # conv'[c].stamp]_intakeVars
  BY <1>1
<1> QED BY <1>2, IntakeInvariance, RetryInvariance, PTL DEF RetryBooksOnce, IntakeSpec
=============================================================================
