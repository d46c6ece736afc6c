--------------------------- MODULE Notifications ----------------------------
(***************************************************************************)
(* E-mails and what the database says of them: send, send_batch and resend *)
(* of domain/notifications/service.py, the resubmit requests of            *)
(* resubmit.py, over infra/email.  A mail that is out cannot be rolled     *)
(* back; its row in notifications, its status and its audit row are in the *)
(* transaction of the caller, who commits them (resubmit requests, resend) *)
(* or does not (open_cycle, reminders).                                    *)
(*                                                                         *)
(* A mail and its row are named by the request that sends it first and the *)
(* unit it is about.                                                       *)
(***************************************************************************)
EXTENDS Naturals, FiniteSets

CONSTANTS
    Requests,    \* requests and runs of the reminder job, each with a session
    Units,       \* filing units
    Earlier,     \* the request behind the rows there were before
    NULL

ASSUME NotificationsAssumption == Earlier \notin Requests /\ NULL \notin {"queued", "sent", "failed"}

VARIABLES
    notes,       \* committed rows of notifications, by status
    mails,       \* mails that went out
    resubmits,   \* committed rows of resubmit_requests
    noted,       \* committed audit rows NOTIFY_*
    post         \* what each request has to send

mailvars == <<notes, mails, resubmits, noted, post>>
-----------------------------------------------------------------------------
Ids == (Requests \cup {Earlier}) \X Units
Statuses == {"queued", "sent", "failed"}
PostKinds == {"none", "open", "remind", "confirm", "resubmit", "resend"}

Post ==
    [kind: PostKinds,
     pc: {"idle", "send", "commit", "done", "failed"},
     todo: SUBSET Ids,                 \* recipients still to be tried
     tx: SUBSET (Ids \X Statuses),     \* rows of the open transaction
     loaded: Statuses \cup {NULL}]     \* status of the row that resend loaded

NoPost(kind) == [kind |-> kind, pc |-> "idle", todo |-> {}, tx |-> {}, loaded |-> NULL]

PutPost(r, p) == post' = [post EXCEPT ![r] = p]

(* A caller hands its recipients over: send_batch, or a loop of send. *)
Batch(kind, ids) ==
    [kind |-> kind, pc |-> IF ids = {} THEN "done" ELSE "send", todo |-> ids, tx |-> {},
     loaded |-> NULL]

(* The row of a mail in the transaction: mark_sent, mark_failed. *)
Mark(tx, id, status) == {t \in tx : t[1] # id} \cup {<<id, status>>}

Commits(kind) == kind \in {"resubmit", "resend"}

(* What follows when one recipient has been tried. *)
Onward(p, id, status) ==
    [p EXCEPT !.todo = @ \ {id}, !.tx = Mark(@, id, status),
              !.pc = IF p.todo # {id} THEN "send" ELSE IF Commits(p.kind) THEN "commit" ELSE "done"]
-----------------------------------------------------------------------------
(* After an upload or an import was committed: _send_confirmation,         *)
(* _send_batch_notification, _send_diff_notifications.  None is sent when  *)
(* no service is wired or no address is found, and nothing is committed.   *)
confirm(r) ==
    /\ post[r].kind = "confirm" /\ post[r].pc = "idle"
    /\ \E units \in SUBSET Units : PutPost(r, Batch("confirm", {<<r, u>> : u \in units}))
    /\ UNCHANGED <<notes, mails, resubmits, noted>>

(* (mutant: the resubmit request is inserted, and committed with all the   *)
(* rest.)                                                                  *)
InsertOnly(r) ==
    /\ post[r].kind = "resubmit" /\ post[r].pc = "idle"
    /\ \E u \in Units : PutPost(r, Batch("resubmit", {<<r, u>>}))
    /\ UNCHANGED <<notes, mails, resubmits, noted>>

(* ResubmitRequestService.create: the request is committed before anything *)
(* is sent; a database error ends it (NOTIFY_002).                         *)
create(r) ==
    /\ post[r].kind = "resubmit" /\ post[r].pc = "idle"
    /\ UNCHANGED <<notes, mails, noted>>
    /\ \/ \E u \in Units :
            /\ resubmits' = resubmits \cup {<<r, u>>}
            /\ PutPost(r, Batch("resubmit", {<<r, u>>}))
       \/ UNCHANGED resubmits /\ PutPost(r, [post[r] EXCEPT !.pc = "failed"])

(* resend: the row has to exist; that it failed is not asked, but the      *)
(* session knows its status from here on.                                  *)
resend(r) ==
    /\ post[r].kind = "resend" /\ post[r].pc = "idle"
    /\ UNCHANGED <<notes, mails, resubmits, noted>>
    /\ \/ \E id \in Ids : /\ notes[id] # NULL
                         /\ PutPost(r, [Batch("resend", {id}) EXCEPT !.loaded = notes[id]])
       \/ PutPost(r, [post[r] EXCEPT !.pc = "failed"])

(* EmailClient.send raises when the server answers with an error, or when  *)
(* it does not answer: the mail may be out all the same.                   *)
MaybeOut(id) == {mails, mails \cup {id}}

(* send, with the outcome of EmailClient.send: the mail is out and the row *)
(* sent; an SMTP error, after which the mail may be out all the same, and  *)
(* the row failed; or another exception (a template the context does not   *)
(* fill), which leaves the row queued; only the reminder job goes on then, *)
(* elsewhere the rest is not sent and nothing is committed.                *)
send(r) ==
    LET p == post[r] IN
    /\ p.pc = "send"
    /\ UNCHANGED <<notes, resubmits, noted>>
    /\ \E id \in p.todo :
         \/ mails' = mails \cup {id} /\ PutPost(r, Onward(p, id, "sent"))
         \/ mails' \in MaybeOut(id) /\ PutPost(r, Onward(p, id, "failed"))
         \/ /\ UNCHANGED mails
            /\ PutPost(r, IF p.kind = "remind" THEN Onward(p, id, "queued")
                          ELSE [p EXCEPT !.pc = "failed", !.tx = {}])

(* What the transaction writes of a row's status: the UPDATE leaves out a  *)
(* column whose value is the one loaded.                                   *)
StatusWritten(p, id) == {t \in p.tx : t[1] = id /\ t[2] # p.loaded}

(* The caller's commit: the rows, and an audit row for each. *)
CommitPost(r) ==
    LET p == post[r] IN
    /\ p.pc = "commit"
    /\ notes' = [id \in Ids |-> IF StatusWritten(p, id) = {} THEN notes[id]
                               ELSE (CHOOSE t \in StatusWritten(p, id) : TRUE)[2]]
    /\ noted' = noted \cup p.tx
    /\ PutPost(r, [p EXCEPT !.pc = "done", !.tx = {}])
    /\ UNCHANGED <<mails, resubmits>>

(* A statement or the commit fails, or the process dies. *)
FailPost(r) ==
    /\ post[r].pc \in {"send", "commit"}
    /\ PutPost(r, [post[r] EXCEPT !.pc = "failed", !.tx = {}])
    /\ UNCHANGED <<notes, mails, resubmits, noted>>

MailInit ==
    /\ notes = [id \in Ids |-> IF id[1] = Earlier THEN "failed" ELSE NULL]
    /\ mails = {} /\ resubmits = {} /\ noted = {}

MailNext ==
    \E r \in Requests :
      confirm(r) \/ create(r) \/ resend(r) \/ send(r) \/ CommitPost(r) \/ FailPost(r)
-----------------------------------------------------------------------------
MailTypeOK ==
    /\ notes \in [Ids -> Statuses \cup {NULL}]
    /\ mails \subseteq Ids /\ resubmits \subseteq Ids
    /\ noted \subseteq Ids \X Statuses
    /\ post \in [Requests -> Post]

(* A mail that asks for a resubmission stands for a request that is        *)
(* committed, whatever failed since (CR-007); a committed row that says    *)
(* sent stands for a mail that is out, however many resend it at a time;   *)
(* and no row is left queued.                                              *)
MailsAreBacked ==
    /\ \A r \in Requests, u \in Units :
         post[r].kind = "resubmit" /\ <<r, u>> \in mails => <<r, u>> \in resubmits
    /\ \A id \in Ids :
         /\ notes[id] = "sent" => id \in mails
         /\ notes[id] # "queued"
         /\ notes[id] # NULL => id[1] = Earlier \/ \E t \in noted : t[1] = id
=============================================================================
