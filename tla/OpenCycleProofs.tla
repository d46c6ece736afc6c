-------------------------- MODULE OpenCycleProofs ---------------------------
(***************************************************************************)
(* Safety of the opening of a cycle, for any number of units and requests: *)
(* the gate and the exclusions, the templates and their counters, and what *)
(* the mails tell.                                                         *)
(*                                                                         *)
(* Requests meet in the tables only, and of what another one has done a    *)
(* request needs no more than that it is done with a unit (Passed), has    *)
(* committed, or has generated: facts that, once they hold, hold for ever. *)
(***************************************************************************)
EXTENDS OpenCycle, TLAPS

Early == {"idle", "units", "users", "write"}
WithUnit == {"delete", "insert", "audit", "error", "errorinsert"}
After == {"audit", "error", "errorinsert", "aborted"}

(* A request has written its row for a unit, or it never will. *)
Passed(q, u) == q.pc \notin Early /\ (u \notin q.todo \/ (q.unit = u /\ q.pc \in After))

(* Where a request is, and what it is. *)
Placed(q) ==
    /\ q.pc \in {"units", "users", "dispatch", "mails"} => q.kind = "open"
    /\ q.pc = "write" => q.kind \in {"open", "download"} \cup Lists
    /\ q.pc \in WithUnit \cup {"generate", "aborted"} => q.kind \in {"open", "regenerate"}
    /\ q.pc \in WithUnit => q.unit \in q.todo
    /\ q.kind = "none" => q.pc = "idle"
    /\ q.pc \in Early => ~q.committed /\ q.todo = {} /\ q.generated = {}
    /\ q.kind = "open" /\ q.pc \notin Early \cup {"failed"} => q.committed
    /\ q.kind \in Lists /\ q.committed => q.pc = "done"
    /\ q.kind \in Lists /\ q.pc \in {"write", "done"} => q.unit \in Units

(* A file is there from the moment it is saved. *)
FilesKept(r, q) ==
    /\ \A u \in q.generated : <<r, u>> \in files
    /\ q.pc \in {"delete", "insert", "audit"} => <<r, q.unit>> \in files

(* A download between its read and its commit. *)
Counting(q) ==
    q.kind = "download" /\ q.pc = "write" =>
      /\ q.row # NULL /\ q.row.good /\ q.unit \in Units
      /\ q.row.count <= served[<<q.row.by, q.unit>>]
      /\ q.row.by \in Requests => Passed(req[q.row.by], q.unit)

(* What the gate has seen is still so, but for what was changed since. *)
Gated(q) ==
    q.kind = "open" =>
      /\ q.pc \in {"users", "write"} => \A u \in q.exempt \ q.changed : This \in excluded[u]
      /\ q.pc = "write" => \A u \in Units \ (q.exempt \cup q.changed) : u \in managed

(* What a change says of a cycle was undone by a later one. *)
Undone(r, c) == \E s \in Requests : Undoes(s, r, c)

(* s changed the list that q has read, where c is concerned. *)
Changed(s, q, c) ==
    /\ s \in Committed \ q.before /\ req[s].unit = q.unit /\ req[s].kind \in Lists
    /\ Covers(req[s], c) => Wants(req[s], c) # (c \in q.list)

(* A change of a list between its read and its commit: where the unit's    *)
(* list is another by now, another change has been committed; and the list *)
(* held what had been committed when it was read, or that was undone.      *)
Listed(q) ==
    q.kind \in Lists /\ q.pc = "write" =>
      /\ \A c \in Cycles :
           (c \in excluded[q.unit]) # (c \in q.list) => \E s \in Requests : Changed(s, q, c)
      /\ \A e \in q.before, c \in Cycles :
           /\ req[e].kind \in Lists /\ req[e].unit = q.unit /\ Covers(req[e], c)
           /\ (c \in q.list) # Wants(req[e], c)
           => Undone(e, c)

(* A change replaced what was committed before it, and ExclusionsHold. *)
ListsHold ==
    /\ ExclusionsHold
    /\ \A r \in Committed : req[r].kind \in Lists => req[r].over \subseteq Committed

Sound(r, q) ==
    Placed(q) /\ FilesKept(r, q) /\ Counting(q) /\ Gated(q) /\ Listed(q) /\ q.before \subseteq Committed

(* The rows that offer a template, and the counts of their downloads. *)
RowsServe ==
    /\ \A u \in Units :
         LET t == templates[u] IN
         t # NULL /\ t.good =>
           /\ <<t.by, u>> \in files
           /\ t.count <= served[<<t.by, u>>]
           /\ t.count = 0 => served[<<t.by, u>>] = 0
           /\ t.by \in Requests => Passed(req[t.by], u)
    /\ \A s \in Requests, u \in Units : served[<<s, u>>] # 0 => Passed(req[s], u)

(* What stands behind a mail to somebody, or a row about one. *)
Justified(id) ==
    id[1] \in Requests =>
      /\ post[id[1]].kind # "none"
      /\ post[id[1]].kind = "resubmit" => id \in resubmits
      /\ post[id[1]].kind = "open" => id[2] \in req[id[1]].generated /\ id \in files /\ req[id[1]].committed

PostSound(p) ==
    /\ p.kind = "none" => p.pc = "idle" /\ p.todo = {} /\ p.tx = {}
    /\ p.pc = "commit" => Commits(p.kind)
    /\ \A id \in p.todo : Justified(id)
    /\ \A t \in p.tx : /\ Justified(t[1])
                       /\ t[2] = "sent" => t[1] \in mails
                       /\ t[2] = "queued" => p.kind = "remind"

(* Only the opening of a cycle has a request of this component and mails. *)
PostPlaced(r) ==
    post[r].kind # "none" /\ req[r].kind # "none"
    => req[r].kind = "open" /\ req[r].pc \in {"mails", "done", "failed"}

NotesBacked ==
    \A id \in Ids :
      /\ notes[id] # NULL => Justified(id) /\ (id[1] = Earlier \/ \E t \in noted : t[1] = id)
      /\ notes[id] = "sent" => id \in mails
      /\ notes[id] # "queued"

MailInv ==
    /\ NotesBacked
    /\ \A id \in mails : Justified(id)
    /\ \A r \in Requests : PostSound(post[r]) /\ PostPlaced(r)

IInv ==
    /\ TypeOK
    /\ \A r \in Requests : Sound(r, req[r])
    /\ RowsServe
    /\ ListsHold
    /\ MailInv
-----------------------------------------------------------------------------
(* What a step never takes away. *)
Grows ==
    /\ files \subseteq files'
    /\ \A id \in Ids : served[id] <= served'[id]
    /\ Committed \subseteq Committed'
    /\ \A s \in Requests :
         /\ req'[s].kind = req[s].kind
         /\ req[s].generated \subseteq req'[s].generated
         /\ \A u \in Units : Passed(req[s], u) => Passed(req'[s], u)
         /\ s \in Committed /\ req[s].kind \in Lists
            => /\ req'[s].unit = req[s].unit /\ req'[s].about = req[s].about
               /\ req'[s].flag = req[s].flag /\ req'[s].wanted = req[s].wanted
               /\ req'[s].before = req[s].before /\ req'[s].over = req[s].over

(* The one that commits in this step says what the list of the unit is. *)
Replaced(u) ==
    \E s \in Committed' \ Committed :
      /\ req'[s].unit = u /\ req'[s].kind \in Lists
      /\ \A c \in Cycles : Covers(req'[s], c) => Wants(req'[s], c) = (c \in excluded'[u])

LEMMA RequestSound ==
    ASSUME IInv, NEW r \in Requests
    PROVE  req[r] \in Request /\ Sound(r, req[r]) /\ Placed(req[r]) /\ PostSound(post[r]) /\ PostPlaced(r)
BY DEF IInv, TypeOK, Sound, MailInv

LEMMA WantsBoolean ==
    ASSUME NEW q \in Request, NEW c
    PROVE  Wants(q, c) \in BOOLEAN
<1>1. q.flag \in BOOLEAN /\ (c \in q.wanted) \in BOOLEAN
  BY DEF Request
<1> QED
  BY <1>1 DEF Wants

\* What a committed change says does not change any more.
LEMMA ChangeStays ==
    ASSUME Grows, NEW s \in Committed, req[s].kind \in Lists, NEW c
    PROVE  /\ s \in Committed' /\ req'[s].kind = req[s].kind /\ req'[s].unit = req[s].unit
           /\ req'[s].before = req[s].before /\ req'[s].over = req[s].over
           /\ Covers(req'[s], c) = Covers(req[s], c) /\ Wants(req'[s], c) = Wants(req[s], c)
<1>1. /\ s \in Committed' /\ req'[s].kind = req[s].kind /\ req'[s].unit = req[s].unit
      /\ req'[s].about = req[s].about /\ req'[s].flag = req[s].flag /\ req'[s].wanted = req[s].wanted
      /\ req'[s].before = req[s].before /\ req'[s].over = req[s].over
  BY DEF Grows, Committed
<1> QED
  BY <1>1 DEF Covers, Wants

LEMMA UndoneStays ==
    ASSUME Grows, NEW e \in Committed, req[e].kind \in Lists, NEW c, Undone(e, c)
    PROVE  Undone(e, c)'
<1>1. PICK s \in Requests : Undoes(s, e, c)
  BY DEF Undone
<1>2. s \in Committed /\ req[s].kind \in Lists
  BY <1>1 DEF Undoes, Covers, Lists
<1>3. /\ s \in Committed' /\ req'[s].kind = req[s].kind /\ req'[s].unit = req[s].unit
      /\ req'[s].before = req[s].before
      /\ Covers(req'[s], c) = Covers(req[s], c) /\ Wants(req'[s], c) = Wants(req[s], c)
      /\ req'[e].unit = req[e].unit /\ req'[e].over = req[e].over /\ Wants(req'[e], c) = Wants(req[e], c)
  BY <1>2, ChangeStays
<1>4. Undoes(s, e, c)'
  BY <1>1, <1>3 DEF Undoes
<1> QED
  BY <1>4 DEF Undone

\* What is sound of a request that does not move stays so.
LEMMA CountingStays ==
    ASSUME TypeOK, TypeOK', Grows, NEW q \in Request, Counting(q)
    PROVE  Counting(q)'
<1> SUFFICES ASSUME q.kind = "download", q.pc = "write"
             PROVE  /\ q.row # NULL /\ q.row.good /\ q.unit \in Units
                    /\ q.row.count <= served'[<<q.row.by, q.unit>>]
                    /\ q.row.by \in Requests => Passed(req'[q.row.by], q.unit)
  BY DEF Counting
<1>1. /\ q.row \in Template /\ q.row.good /\ q.unit \in Units /\ q.row # NULL
      /\ q.row.count <= served[<<q.row.by, q.unit>>]
      /\ q.row.by \in Requests => Passed(req[q.row.by], q.unit)
  BY DEF Counting, Request
<1>2. <<q.row.by, q.unit>> \in Ids /\ q.row.count \in Nat
  BY <1>1 DEF Ids, Template
<1>3. served[<<q.row.by, q.unit>>] \in Nat /\ served'[<<q.row.by, q.unit>>] \in Nat
  BY <1>2 DEF TypeOK
<1> QED
  BY <1>1, <1>2, <1>3 DEF Grows

LEMMA ListedStays ==
    ASSUME Grows, NEW q \in Request, Listed(q), q.before \subseteq Committed,
           excluded'[q.unit] = excluded[q.unit] \/ Replaced(q.unit)
    PROVE  Listed(q)'
<1> SUFFICES ASSUME q.kind \in Lists, q.pc = "write" PROVE Listed(q)'
  BY DEF Listed
<1>1. ASSUME NEW c \in Cycles, (c \in excluded'[q.unit]) # (c \in q.list)
      PROVE  \E s \in Requests : Changed(s, q, c)'
  <2>1. CASE excluded'[q.unit] = excluded[q.unit]
    <3>1. PICK s \in Requests : Changed(s, q, c)
      BY <1>1, <2>1 DEF Listed
    <3>2. /\ s \in Committed' /\ req'[s].kind = req[s].kind /\ req'[s].unit = req[s].unit
          /\ Covers(req'[s], c) = Covers(req[s], c) /\ Wants(req'[s], c) = Wants(req[s], c)
      BY <3>1, ChangeStays DEF Changed
    <3>3. Changed(s, q, c)'
      BY <3>1, <3>2 DEF Changed
    <3> QED
      BY <3>3
  <2>2. CASE Replaced(q.unit)
    <3>1. PICK s \in Committed' \ Committed :
            /\ req'[s].unit = q.unit /\ req'[s].kind \in Lists
            /\ Covers(req'[s], c) => Wants(req'[s], c) = (c \in excluded'[q.unit])
      BY <2>2 DEF Replaced
    <3>2. s \in Requests /\ s \in Committed' \ q.before
      BY <3>1 DEF Committed
    <3>3. Changed(s, q, c)'
      BY <1>1, <3>1, <3>2 DEF Changed
    <3> QED
      BY <3>2, <3>3
  <2> QED
    BY <2>1, <2>2
<1>2. ASSUME NEW e \in q.before, NEW c \in Cycles, req'[e].kind \in Lists, req'[e].unit = q.unit,
             Covers(req'[e], c), (c \in q.list) # Wants(req'[e], c)
      PROVE  Undone(e, c)'
  <2>1. e \in Committed /\ req'[e].kind = req[e].kind
    BY DEF Grows, Committed
  <2>2. /\ req[e].kind \in Lists /\ req[e].unit = q.unit /\ Covers(req[e], c)
        /\ (c \in q.list) # Wants(req[e], c)
    BY <1>2, <2>1, ChangeStays
  <2>3. Undone(e, c)
    BY <2>2 DEF Listed
  <2> QED
    BY <2>1, <2>2, <2>3, UndoneStays
<1> QED
  BY <1>1, <1>2 DEF Listed

LEMMA JustifiedStays ==
    ASSUME TypeOK, Grows, NEW id \in Ids, Justified(id), resubmits \subseteq resubmits',
           \A s \in Requests : post'[s].kind = post[s].kind \/ post[s].kind = "none"
    PROVE  Justified(id)'
<1> SUFFICES ASSUME id[1] \in Requests PROVE Justified(id)'
  BY DEF Justified
<1>1. post[id[1]].kind # "none" /\ post'[id[1]].kind = post[id[1]].kind
  BY DEF Justified
<1>2. req[id[1]].committed => req'[id[1]].committed
  BY DEF Grows, Committed
<1> QED
  BY <1>1, <1>2 DEF Justified, Grows

\* A step of the mails of one request.
LEMMA PostStep ==
    ASSUME IInv, TypeOK', Grows, NEW r \in Requests, NEW p \in Post, post' = [post EXCEPT ![r] = p],
           p.kind = post[r].kind \/ post[r].kind = "none",
           UNCHANGED <<notes, noted>>, resubmits \subseteq resubmits', mails \subseteq mails',
           \A id \in mails' \ mails : Justified(id)', PostSound(p)',
           \A s \in Requests : PostPlaced(s)'
    PROVE  MailInv'
<1>1. /\ post'[r] = p /\ \A s \in Requests \ {r} : post'[s] = post[s]
      /\ mails \subseteq Ids /\ \A s \in Requests : post[s] \in Post
  BY DEF IInv, TypeOK, MailTypeOK
<1>2. ASSUME NEW id \in Ids, Justified(id) PROVE Justified(id)'
  BY <1>1, <1>2, JustifiedStays DEF IInv
<1>3. NotesBacked'
  BY <1>2 DEF IInv, MailInv, NotesBacked
<1>4. \A id \in mails' : Justified(id)'
  BY <1>1, <1>2 DEF IInv, MailInv
<1>5. ASSUME NEW s \in Requests PROVE PostSound(post[s])'
  <2>1. CASE s = r
    BY <1>1, <2>1
  <2>2. CASE s # r
    <3>1. PICK t \in Post : t = post[s] /\ PostSound(t)
      BY <1>1 DEF IInv, MailInv
    <3>2. /\ t.todo \subseteq Ids /\ \A x \in t.tx : x[1] \in Ids
      BY <3>1 DEF Post
    <3>3. PostSound(t)'
      BY <1>2, <3>1, <3>2 DEF PostSound
    <3> QED
      BY <1>1, <2>2, <3>1, <3>3
  <2> QED
    BY <2>1, <2>2
<1> QED
  BY <1>3, <1>4, <1>5 DEF MailInv

\* A step of something else.
LEMMA MailsRest ==
    ASSUME IInv, Grows, UNCHANGED mailvars, \A s \in Requests : PostPlaced(s)'
    PROVE  MailInv'
<1>1. mails \subseteq Ids /\ \A s \in Requests : post[s] \in Post
  BY DEF IInv, TypeOK, MailTypeOK
<1>2. ASSUME NEW id \in Ids, Justified(id) PROVE Justified(id)'
  BY <1>2, JustifiedStays DEF IInv, mailvars
<1>3. NotesBacked'
  BY <1>2 DEF IInv, MailInv, NotesBacked, mailvars
<1>4. \A id \in mails' : Justified(id)'
  BY <1>1, <1>2 DEF IInv, MailInv, mailvars
<1>5. ASSUME NEW s \in Requests PROVE PostSound(post[s])'
  <2>1. PICK t \in Post : t = post[s] /\ PostSound(t)
    BY <1>1 DEF IInv, MailInv
  <2>2. /\ t.todo \subseteq Ids /\ \A x \in t.tx : x[1] \in Ids
    BY <2>1 DEF Post
  <2>3. PostSound(t)'
    BY <1>2, <2>1, <2>2 DEF PostSound, mailvars
  <2> QED
    BY <2>1, <2>3 DEF mailvars
<1> QED
  BY <1>3, <1>4, <1>5 DEF MailInv

\* What a change says holds, or was undone, while no list changes.
LEMMA ExclusionsStay ==
    ASSUME IInv, Grows, UNCHANGED excluded,
           \A s \in Committed' \ Committed : req'[s].kind \notin Lists
    PROVE  ListsHold'
<1>1. ASSUME NEW e \in Committed', req'[e].kind \in Lists
      PROVE  e \in Committed /\ req[e].kind \in Lists
  <2>1. e \in Committed /\ e \in Requests
    BY <1>1 DEF Committed
  <2> QED
    BY <1>1, <2>1 DEF Grows
<1>2. ASSUME NEW e \in Committed', NEW c \in Cycles, req'[e].kind \in Lists, Covers(req'[e], c),
             (c \in excluded'[req'[e].unit]) # Wants(req'[e], c)
      PROVE  Undone(e, c)'
  <2>1. e \in Committed /\ req[e].kind \in Lists
    BY <1>1, <1>2
  <2>2. Covers(req[e], c) /\ (c \in excluded[req[e].unit]) # Wants(req[e], c)
    BY <1>2, <2>1, ChangeStays
  <2>3. Undone(e, c)
    BY <2>1, <2>2 DEF IInv, ListsHold, ExclusionsHold, Undone
  <2> QED
    BY <2>1, <2>3, UndoneStays
<1>3. ExclusionsHold'
  BY <1>2 DEF ExclusionsHold, Undone
<1>4. ASSUME NEW e \in Committed', req'[e].kind \in Lists PROVE req'[e].over \subseteq Committed'
  <2>1. e \in Committed /\ req[e].kind \in Lists
    BY <1>1, <1>4
  <2>2. req[e].over \subseteq Committed
    BY <2>1 DEF IInv, ListsHold
  <2>3. req'[e].over = req[e].over
    BY <2>1, ChangeStays
  <2> QED
    BY <2>2, <2>3 DEF Grows
<1> QED
  BY <1>3, <1>4 DEF ListsHold

\* A step of one request: the lists and the managers rest.
LEMMA RequestStep ==
    ASSUME IInv, TypeOK', Grows, NEW r \in Requests, NEW p \in Request, req' = [req EXCEPT ![r] = p],
           UNCHANGED <<excluded, managed>>,
           Placed(p), FilesKept(r, p)', Counting(p), Gated(p), Listed(p), p.before \subseteq Committed,
           p.committed => req[r].committed \/ p.kind \notin Lists,
           RowsServe', MailInv'
    PROVE  IInv'
<1>1. req'[r] = p /\ \A s \in Requests \ {r} : req'[s] = req[s]
  BY DEF IInv, TypeOK
<1>2. ASSUME NEW q \in Request, Counting(q), Gated(q), Listed(q), q.before \subseteq Committed
      PROVE  Counting(q)' /\ Gated(q)' /\ Listed(q)' /\ q.before \subseteq Committed'
  <2>1. Counting(q)' /\ Listed(q)'
    BY <1>2, CountingStays, ListedStays DEF IInv
  <2>2. Gated(q)'
    BY <1>2 DEF Gated
  <2> QED
    BY <1>2, <2>1, <2>2 DEF Grows
<1>3. ASSUME NEW s \in Requests PROVE Sound(s, req[s])'
  <2>1. CASE s = r
    <3>1. Counting(p)' /\ Gated(p)' /\ Listed(p)' /\ p.before \subseteq Committed'
      BY <1>2
    <3>2. Sound(r, p)'
      BY <3>1 DEF Sound, Placed
    <3> QED
      BY <1>1, <2>1, <3>2
  <2>2. CASE s # r
    <3>1. PICK q \in Request : q = req[s] /\ Sound(s, q)
      BY RequestSound
    <3>2. Counting(q)' /\ Gated(q)' /\ Listed(q)' /\ q.before \subseteq Committed'
      BY <1>2, <3>1 DEF Sound
    <3>3. FilesKept(s, q)' /\ Placed(q)'
      BY <3>1 DEF Sound, FilesKept, Grows, Placed
    <3>4. Sound(s, q)'
      BY <3>2, <3>3 DEF Sound
    <3> QED
      BY <1>1, <2>2, <3>1, <3>4
  <2> QED
    BY <2>1, <2>2
<1>4. \A s \in Committed' \ Committed : req'[s].kind \notin Lists
  BY <1>1 DEF Committed
<1>5. ListsHold'
  BY <1>4, ExclusionsStay
<1> QED
  BY <1>3, <1>5 DEF IInv

\* And the rows, the counts and the mails rest as well.
LEMMA LocalStep ==
    ASSUME IInv, NEW r \in Requests, NEW p \in Request, req' = [req EXCEPT ![r] = p],
           UNCHANGED <<excluded, managed, templates, served, moves, mailvars>>,
           cycle' \in {"draft", "open", "closed"}, files \subseteq files', files' \subseteq Ids,
           p.kind = req[r].kind, req[r].generated \subseteq p.generated,
           \A u \in Units : Passed(req[r], u) => Passed(p, u),
           req[r].committed => p.committed,
           p.committed => req[r].committed \/ p.kind = "open",
           req[r].kind \in Lists => ~req[r].committed,
           req[r].pc \notin {"mails", "done", "failed"} \/ p.pc \in {"done", "failed"},
           Placed(p), FilesKept(r, p)', Counting(p), Gated(p), Listed(p), p.before \subseteq Committed
    PROVE  IInv'
<1>1. TypeOK'
  BY DEF IInv, TypeOK, mailvars, MailTypeOK
<1>2. req'[r] = p /\ \A s \in Requests \ {r} : req'[s] = req[s]
  BY DEF IInv, TypeOK
<1>3. \A id \in Ids : served[id] <= served'[id]
  BY DEF IInv, TypeOK
<1>4. Committed \subseteq Committed'
  BY <1>2 DEF Committed
<1>5. Grows
  BY <1>2, <1>3, <1>4 DEF Grows, Committed
<1>6. RowsServe'
  <2> SUFFICES ASSUME NEW u \in Units
               PROVE  /\ templates[u] # NULL /\ templates[u].good =>
                           /\ <<templates[u].by, u>> \in files'
                           /\ templates[u].count <= served[<<templates[u].by, u>>]
                           /\ templates[u].count = 0 => served[<<templates[u].by, u>>] = 0
                           /\ templates[u].by \in Requests => Passed(req'[templates[u].by], u)
                      /\ \A s \in Requests : served[<<s, u>>] # 0 => Passed(req'[s], u)
    BY DEF RowsServe
  <2>1. \A s \in Requests : Passed(req[s], u) => Passed(req'[s], u)
    BY <1>5 DEF Grows
  <2> QED
    BY <2>1 DEF IInv, RowsServe
<1>7. \A s \in Requests : PostPlaced(s)'
  BY <1>2, RequestSound DEF PostPlaced, mailvars
<1>8. MailInv'
  BY <1>5, <1>7, MailsRest
<1> QED
  BY <1>1, <1>5, <1>6, <1>8, RequestStep DEF Lists
-----------------------------------------------------------------------------
\* A request that has not begun to write.
LEMMA EarlyStep ==
    ASSUME IInv, NEW r \in Requests, NEW q \in Request, q = req[r], NEW p \in Request, req' = [req EXCEPT ![r] = p],
           UNCHANGED <<excluded, managed, templates, files, served, moves, mailvars>>,
           cycle' \in {"draft", "open", "closed"},
           q.pc \in Early, p.kind = q.kind, p.generated = q.generated, p.committed => p.kind = "open",
           p.pc \notin {"delete", "insert", "audit"},
           Placed(p), Counting(p), Gated(p), Listed(p), p.before \subseteq Committed
    PROVE  IInv'
<1>1. Placed(q) /\ q.generated = {} /\ ~q.committed
  BY RequestSound DEF Placed
<1>2. \A u \in Units : ~Passed(q, u)
  BY DEF Passed
<1>3. FilesKept(r, p)'
  BY <1>1 DEF FilesKept
<1>4. files \subseteq files' /\ files' \subseteq Ids
  BY DEF IInv, TypeOK
<1>5. q.pc \notin {"mails", "done", "failed"}
  BY DEF Early
<1> QED
  BY <1>1, <1>2, <1>3, <1>4, <1>5, LocalStep

\* A request between two commits of its generation.
LEMMA BusyStep ==
    ASSUME IInv, NEW r \in Requests, NEW q \in Request, q = req[r], NEW p \in Request, req' = [req EXCEPT ![r] = p],
           UNCHANGED <<cycle, excluded, managed, templates, served, moves, mailvars>>,
           files \subseteq files', files' \subseteq Ids,
           q.kind \in {"open", "regenerate"}, q.pc \notin Early \cup {"mails", "done", "failed"},
           p.kind = q.kind, p.committed = q.committed, p.before = q.before, q.generated \subseteq p.generated,
           p.pc \notin Early \cup {"mails"}, p.pc = "dispatch" => p.kind = "open",
           p.pc \in WithUnit => p.unit \in p.todo,
           \A u \in Units : Passed(q, u) => Passed(p, u),
           FilesKept(r, p)'
    PROVE  IInv'
<1>1. Placed(q) /\ q.before \subseteq Committed
  BY RequestSound DEF Sound
<1>2. Placed(p)
  BY <1>1 DEF Placed, Early, Lists, WithUnit
<1>3. Counting(p) /\ Listed(p)
  BY DEF Counting, Listed, Lists
<1>4. Gated(p)
  BY DEF Gated, Early
<1>5. /\ cycle' \in {"draft", "open", "closed"}
      /\ p.committed => req[r].committed
      /\ req[r].kind \notin Lists
  BY DEF IInv, TypeOK, Lists
<1> QED
  BY <1>1, <1>2, <1>3, <1>4, <1>5, LocalStep

\* The reads of the gate.
LEMMA ReadCycleStep ==
    ASSUME IInv, NEW r \in Requests, ReadCycle(r)
    PROVE  IInv'
<1>1. PICK q \in Request : q = req[r] /\ Sound(r, q) /\ Placed(q)
  BY RequestSound
<1>2. /\ q.kind = "open" /\ q.pc = "idle"
      /\ UNCHANGED <<cycle, admin, rows, moves, mailvars>>
  BY <1>1 DEF ReadCycle, At
<1>3. PICK pc \in {"units", "failed"} : req' = [req EXCEPT ![r] = [q EXCEPT !.pc = pc]]
  BY <1>1 DEF ReadCycle, Move, Put
<1>4. PICK p \in Request : p = [q EXCEPT !.pc = pc]
  BY DEF Request
<1>5. /\ p.kind = "open" /\ p.pc = pc /\ p.todo = q.todo /\ p.generated = q.generated
      /\ p.committed = q.committed /\ p.before = q.before
  BY <1>2, <1>4 DEF Request
<1>6. Placed(p) /\ Counting(p) /\ Gated(p) /\ Listed(p) /\ p.before \subseteq Committed
  BY <1>1, <1>2, <1>5 DEF Placed, Counting, Gated, Listed, Sound, Early, Lists, WithUnit
<1>7. /\ q.pc \in Early /\ p.kind = q.kind /\ ~p.committed /\ p.pc \notin {"delete", "insert", "audit"}
      /\ cycle' \in {"draft", "open", "closed"} /\ req' = [req EXCEPT ![r] = p]
  BY <1>1, <1>2, <1>3, <1>4, <1>5 DEF IInv, TypeOK, Early, Placed
<1> QED
  BY <1>1, <1>2, <1>5, <1>6, <1>7, EarlyStep DEF admin, rows

LEMMA ReadUnitsStep ==
    ASSUME IInv, NEW r \in Requests, ReadUnits(r)
    PROVE  IInv'
<1>1. PICK q \in Request : q = req[r] /\ Sound(r, q) /\ Placed(q)
  BY RequestSound
<1>2. /\ q.kind = "open" /\ q.pc = "units"
      /\ UNCHANGED <<cycle, admin, rows, moves, mailvars>>
  BY <1>1 DEF ReadUnits, At
<1>3. PICK exempt \in SUBSET Units : exempt = {u \in Units : This \in excluded[u]}
  OBVIOUS
<1>4. PICK p \in Request : p = [q EXCEPT !.pc = "users", !.exempt = exempt]
  BY DEF Request
<1>5. req' = [req EXCEPT ![r] = p]
  BY <1>1, <1>3, <1>4 DEF ReadUnits, Put
<1>6. /\ p.kind = "open" /\ p.pc = "users" /\ p.todo = q.todo /\ p.generated = q.generated
      /\ p.committed = q.committed /\ p.before = q.before /\ p.exempt = exempt
  BY <1>2, <1>4 DEF Request
<1>7. Placed(p) /\ Counting(p) /\ Gated(p) /\ Listed(p) /\ p.before \subseteq Committed
  BY <1>1, <1>2, <1>3, <1>6 DEF Placed, Counting, Gated, Listed, Sound, Early, Lists, WithUnit
<1> QED
  BY <1>1, <1>2, <1>5, <1>6, <1>7, EarlyStep DEF IInv, TypeOK, admin, rows, Early, Placed

LEMMA ReadUsersStep ==
    ASSUME IInv, NEW r \in Requests, ReadUsers(r)
    PROVE  IInv'
<1>1. PICK q \in Request : q = req[r] /\ Sound(r, q) /\ Placed(q)
  BY RequestSound
<1>2. /\ q.kind = "open" /\ q.pc = "users"
      /\ UNCHANGED <<cycle, admin, rows, moves, mailvars>>
  BY <1>1 DEF ReadUsers, At
<1>3. PICK pc \in {"write", "failed"} : /\ req' = [req EXCEPT ![r] = [q EXCEPT !.pc = pc]]
                                        /\ pc = "write" => Units \ q.exempt \subseteq managed
  BY <1>1 DEF ReadUsers, Move, Put, Missing
<1>4. PICK p \in Request : p = [q EXCEPT !.pc = pc]
  BY DEF Request
<1>5. /\ p.kind = "open" /\ p.pc = pc /\ p.todo = q.todo /\ p.generated = q.generated
      /\ p.committed = q.committed /\ p.before = q.before /\ p.exempt = q.exempt /\ p.changed = q.changed
  BY <1>2, <1>4 DEF Request
<1>6. Placed(p) /\ Counting(p) /\ Listed(p) /\ p.before \subseteq Committed
  BY <1>1, <1>2, <1>5 DEF Placed, Counting, Listed, Sound, Early, Lists, WithUnit
<1>7. Gated(p)
  BY <1>1, <1>2, <1>3, <1>5 DEF Sound, Gated
<1>8. /\ q.pc \in Early /\ p.kind = q.kind /\ p.pc \notin {"delete", "insert", "audit"}
      /\ cycle' \in {"draft", "open", "closed"} /\ req' = [req EXCEPT ![r] = p]
  BY <1>2, <1>3, <1>4, <1>5 DEF IInv, TypeOK, Early
<1> QED
  BY <1>1, <1>2, <1>5, <1>6, <1>7, <1>8, EarlyStep DEF admin, rows

\* The opening is committed; nothing has been written yet.
LEMMA CommitOpenStep ==
    ASSUME IInv, NEW r \in Requests, CommitOpen(r)
    PROVE  IInv'
<1>1. PICK q \in Request : q = req[r] /\ Sound(r, q) /\ Placed(q)
  BY RequestSound
<1>2. /\ q.kind = "open" /\ q.pc = "write"
      /\ UNCHANGED <<admin, rows, moves, mailvars>> /\ cycle' = "open"
  BY <1>1 DEF CommitOpen, At
<1>3. PICK pc \in {"dispatch", "generate"} :
        req' = [req EXCEPT ![r] = [q EXCEPT !.pc = pc, !.todo = Units \ q.exempt, !.committed = TRUE]]
  BY <1>1 DEF CommitOpen, Put
<1>4. PICK p \in Request : p = [q EXCEPT !.pc = pc, !.todo = Units \ q.exempt, !.committed = TRUE]
  BY DEF Request
<1>5. /\ p.kind = "open" /\ p.pc = pc /\ p.generated = q.generated
      /\ p.committed /\ p.before = q.before
  BY <1>2, <1>4 DEF Request
<1>6. Placed(p) /\ Counting(p) /\ Gated(p) /\ Listed(p) /\ p.before \subseteq Committed
  BY <1>1, <1>2, <1>5 DEF Placed, Counting, Gated, Listed, Sound, Early, Lists, WithUnit
<1> QED
  BY <1>1, <1>2, <1>3, <1>4, <1>5, <1>6, EarlyStep DEF admin, rows, Early

LEMMA RegenerateStep ==
    ASSUME IInv, NEW r \in Requests, regenerate(r)
    PROVE  IInv'
<1>1. PICK q \in Request : q = req[r] /\ Sound(r, q) /\ Placed(q)
  BY RequestSound
<1>2. /\ q.kind = "regenerate" /\ q.pc = "idle"
      /\ UNCHANGED <<cycle, admin, rows, moves, mailvars>>
  BY <1>1 DEF regenerate, At
<1>3. PICK u \in Units : req' = [req EXCEPT ![r] = [q EXCEPT !.pc = "generate", !.todo = {u}]]
  BY <1>1 DEF regenerate, Put
<1>4. PICK p \in Request : p = [q EXCEPT !.pc = "generate", !.todo = {u}]
  BY DEF Request
<1>5. /\ p.kind = "regenerate" /\ p.pc = "generate" /\ p.generated = q.generated
      /\ p.committed = q.committed /\ p.before = q.before
  BY <1>2, <1>4 DEF Request
<1>6. Placed(p) /\ Counting(p) /\ Gated(p) /\ Listed(p) /\ p.before \subseteq Committed
  BY <1>1, <1>2, <1>5 DEF Placed, Counting, Gated, Listed, Sound, Early, Lists, WithUnit
<1>7. /\ q.pc \in Early /\ p.kind = q.kind /\ ~p.committed /\ p.pc \notin {"delete", "insert", "audit"}
      /\ cycle' \in {"draft", "open", "closed"} /\ req' = [req EXCEPT ![r] = p]
  BY <1>1, <1>2, <1>3, <1>4, <1>5 DEF IInv, TypeOK, Early, Placed
<1> QED
  BY <1>1, <1>2, <1>5, <1>6, <1>7, EarlyStep DEF admin, rows
-----------------------------------------------------------------------------
\* The generation of a unit, but for the commits of its rows.
LEMMA SaveStep ==
    ASSUME IInv, NEW r \in Requests, Save(r)
    PROVE  IInv'
<1>1. PICK q \in Request : q = req[r] /\ Sound(r, q) /\ Placed(q)
  BY RequestSound
<1>2. /\ q.pc = "generate" /\ q.kind \in {"open", "regenerate"} /\ q.todo \subseteq Units
      /\ UNCHANGED <<cycle, admin, templates, served, moves, mailvars>>
  BY <1>1 DEF Save, At, Placed, Request
<1>3. PICK u \in q.todo : /\ files' = files \cup {<<r, u>>}
                          /\ req' = [req EXCEPT ![r] = [q EXCEPT !.pc = "delete", !.unit = u]]
  BY <1>1 DEF Save, Put
<1>4. PICK p \in Request : p = [q EXCEPT !.pc = "delete", !.unit = u]
  BY <1>2, <1>3 DEF Request
<1>5. /\ p.kind = q.kind /\ p.pc = "delete" /\ p.generated = q.generated /\ p.todo = q.todo
      /\ p.committed = q.committed /\ p.before = q.before /\ p.unit = u
  BY <1>4 DEF Request
<1>6. FilesKept(r, p)'
  BY <1>1, <1>3, <1>5 DEF FilesKept, Sound
<1>7. \A v \in Units : Passed(q, v) => Passed(p, v)
  BY <1>2, <1>5 DEF Passed, Early, After
<1>8. files \subseteq files' /\ files' \subseteq Ids
  BY <1>2, <1>3 DEF IInv, TypeOK, Ids
<1> QED
  BY <1>1, <1>2, <1>3, <1>4, <1>5, <1>6, <1>7, <1>8, BusyStep DEF admin, Early

LEMMA DeleteStep ==
    ASSUME IInv, NEW r \in Requests, Delete(r)
    PROVE  IInv'
<1>1. PICK q \in Request : q = req[r] /\ Sound(r, q) /\ Placed(q)
  BY RequestSound
<1>2. /\ q.pc \in {"delete", "error"} /\ q.kind \in {"open", "regenerate"}
      /\ q.unit \in q.todo /\ q.unit \in Units
      /\ UNCHANGED <<cycle, admin, rows, moves, mailvars>>
  BY <1>1 DEF Delete, At, Placed, Request, WithUnit
<1>3. PICK row \in {NULL} \cup Template : row = templates[q.unit]
  BY <1>2 DEF IInv, TypeOK
<1>4. PICK pc \in {"insert", "errorinsert"} : pc = IF q.pc = "delete" THEN "insert" ELSE "errorinsert"
  OBVIOUS
<1>5. PICK p \in Request : p = [q EXCEPT !.pc = pc, !.row = row]
  BY <1>4 DEF Request
<1>6. req' = [req EXCEPT ![r] = p]
  BY <1>1, <1>3, <1>4, <1>5 DEF Delete, Put
<1>7. /\ p.kind = q.kind /\ p.pc = pc /\ p.generated = q.generated /\ p.todo = q.todo
      /\ p.committed = q.committed /\ p.before = q.before /\ p.unit = q.unit
  BY <1>5 DEF Request
<1>8. FilesKept(r, p)'
  BY <1>1, <1>2, <1>4, <1>7 DEF FilesKept, Sound, rows
<1>9. \A v \in Units : Passed(q, v) => Passed(p, v)
  BY <1>2, <1>4, <1>7 DEF Passed, Early, After
<1>10. files \subseteq files' /\ files' \subseteq Ids
  BY <1>2 DEF IInv, TypeOK, rows
<1> QED
  BY <1>1, <1>2, <1>4, <1>6, <1>7, <1>8, <1>9, <1>10, BusyStep DEF admin, rows, Early

\* When a unit is through.
LEMMA OntoNext ==
    ASSUME NEW q \in Request
    PROVE  /\ Onto(q) \in Request /\ Onto(q).kind = q.kind
           /\ Onto(q).pc \in {"generate", "dispatch", "done"}
           /\ Onto(q).pc = "dispatch" => q.kind = "open"
           /\ Onto(q).generated = q.generated /\ Onto(q).errors = q.errors
           /\ Onto(q).todo = q.todo \ {q.unit}
           /\ Onto(q).committed = q.committed /\ Onto(q).before = q.before /\ Onto(q).unit = q.unit
<1>1. PICK pc \in {"generate", "dispatch", "done"} :
        /\ pc = IF q.todo # {q.unit} THEN "generate" ELSE IF q.kind = "open" THEN "dispatch" ELSE "done"
        /\ pc = "dispatch" => q.kind = "open"
  OBVIOUS
<1>2. PICK todo \in SUBSET Units : todo = q.todo \ {q.unit}
  BY DEF Request
<1>3. Onto(q) = [q EXCEPT !.todo = todo, !.row = NULL, !.pc = pc]
  BY <1>1, <1>2 DEF Onto, Request
<1> QED
  BY <1>1, <1>2, <1>3 DEF Request

LEMMA OntoPasses ==
    ASSUME NEW q \in Request, q.pc \notin Early, NEW p \in Request, p.pc \notin Early, p.todo = q.todo \ {q.unit},
           NEW u \in Units, Passed(q, u) \/ u = q.unit
    PROVE  Passed(p, u)
BY DEF Passed

LEMMA AuditRowStep ==
    ASSUME IInv, NEW r \in Requests, AuditRow(r)
    PROVE  IInv'
<1>1. PICK q \in Request : q = req[r] /\ Sound(r, q) /\ Placed(q)
  BY RequestSound
<1>2. /\ q.pc = "audit" /\ q.kind \in {"open", "regenerate"} /\ q.unit \in q.todo /\ q.unit \in Units
      /\ UNCHANGED <<cycle, admin, rows, moves, mailvars>>
  BY <1>1 DEF AuditRow, At, Placed, Request, WithUnit
<1>3. PICK o \in Request : o = Onto(q) /\ o.generated = q.generated
  BY OntoNext
<1>4. q.generated \cup {q.unit} \in SUBSET Units
  BY <1>2 DEF Request
<1>5. PICK p \in Request : p = [o EXCEPT !.generated = q.generated \cup {q.unit}]
  BY <1>4 DEF Request
<1>6. req' = [req EXCEPT ![r] = p]
  BY <1>1, <1>3, <1>5 DEF AuditRow, Put
<1>7. /\ p.kind = q.kind /\ p.pc \in {"generate", "dispatch", "done"} /\ (p.pc = "dispatch" => q.kind = "open")
      /\ p.generated = q.generated \cup {q.unit} /\ p.todo = q.todo \ {q.unit}
      /\ p.committed = q.committed /\ p.before = q.before
  BY <1>3, <1>5, OntoNext DEF Request
<1>8. FilesKept(r, p)'
  BY <1>1, <1>2, <1>7 DEF FilesKept, Sound, rows
<1>9. \A v \in Units : Passed(q, v) => Passed(p, v)
  BY <1>2, <1>7, OntoPasses DEF Early
<1>10. files \subseteq files' /\ files' \subseteq Ids
  BY <1>2 DEF IInv, TypeOK, rows
<1> QED
  BY <1>1, <1>2, <1>6, <1>7, <1>8, <1>9, <1>10, BusyStep DEF admin, rows, Early, WithUnit

LEMMA GenerationFailsStep ==
    ASSUME IInv, NEW r \in Requests, GenerationFails(r)
    PROVE  IInv'
<1>1. PICK q \in Request : q = req[r] /\ Sound(r, q) /\ Placed(q)
  BY RequestSound
<1>2. /\ q.pc \in {"generate", "delete", "insert", "audit"} /\ q.kind \in {"open", "regenerate"}
      /\ q.pc # "generate" => q.unit \in q.todo
      /\ UNCHANGED <<cycle, admin, rows, moves, mailvars>> /\ q.todo \subseteq Units
  BY <1>1 DEF GenerationFails, Placed, Request, WithUnit
<1>3. PICK u \in q.todo, pc \in {"aborted", "error"} :
        /\ req' = [req EXCEPT ![r] = [q EXCEPT !.pc = pc, !.unit = u]]
        /\ q.pc # "generate" => u = q.unit
  BY <1>1, <1>2 DEF GenerationFails, Put, At
<1>4. PICK p \in Request : p = [q EXCEPT !.pc = pc, !.unit = u]
  BY <1>2, <1>3 DEF Request
<1>5. /\ p.kind = q.kind /\ p.pc = pc /\ p.generated = q.generated /\ p.todo = q.todo
      /\ p.committed = q.committed /\ p.before = q.before /\ p.unit = u
  BY <1>4 DEF Request
<1>6. FilesKept(r, p)'
  BY <1>1, <1>2, <1>3, <1>5 DEF FilesKept, Sound, rows
<1>7. \A v \in Units : Passed(q, v) => Passed(p, v)
  BY <1>2, <1>3, <1>5 DEF Passed, Early, After
<1>8. files \subseteq files' /\ files' \subseteq Ids
  BY <1>2 DEF IInv, TypeOK, rows
<1> QED
  BY <1>1, <1>2, <1>3, <1>4, <1>5, <1>6, <1>7, <1>8, BusyStep DEF admin, rows, Early

LEMMA ErrorFailsStep ==
    ASSUME IInv, NEW r \in Requests, ErrorFails(r)
    PROVE  IInv'
<1>1. PICK q \in Request : q = req[r] /\ Sound(r, q) /\ Placed(q)
  BY RequestSound
<1>2. /\ q.pc \in {"error", "errorinsert"} /\ q.kind \in {"open", "regenerate"} /\ q.unit \in q.todo /\ q.unit \in Units
      /\ UNCHANGED <<cycle, admin, rows, moves, mailvars>>
  BY <1>1 DEF ErrorFails, At, Placed, Request, WithUnit
<1>3. PICK o \in Request : o = Onto(q) /\ o.errors = q.errors
  BY OntoNext
<1>4. q.errors \cup {q.unit} \in SUBSET Units
  BY <1>2 DEF Request
<1>5. PICK p \in Request : p = [o EXCEPT !.errors = q.errors \cup {q.unit}]
  BY <1>4 DEF Request
<1>6. req' = [req EXCEPT ![r] = p]
  BY <1>1, <1>3, <1>5 DEF ErrorFails, Put
<1>7. /\ p.kind = q.kind /\ p.pc \in {"generate", "dispatch", "done"} /\ (p.pc = "dispatch" => q.kind = "open")
      /\ p.generated = q.generated /\ p.todo = q.todo \ {q.unit}
      /\ p.committed = q.committed /\ p.before = q.before
  BY <1>3, <1>5, OntoNext DEF Request
<1>8. FilesKept(r, p)'
  BY <1>1, <1>2, <1>7 DEF FilesKept, Sound, rows
<1>9. \A v \in Units : Passed(q, v) => Passed(p, v)
  BY <1>2, <1>7, OntoPasses DEF Early
<1>10. files \subseteq files' /\ files' \subseteq Ids
  BY <1>2 DEF IInv, TypeOK, rows
<1> QED
  BY <1>1, <1>2, <1>6, <1>7, <1>8, <1>9, <1>10, BusyStep DEF admin, rows, Early, WithUnit

\* The response.
LEMMA RespondStep ==
    ASSUME IInv, NEW r \in Requests, Respond(r)
    PROVE  IInv'
<1>1. PICK q \in Request : q = req[r] /\ Sound(r, q) /\ Placed(q)
  BY RequestSound
<1>2. /\ q.kind = "open" /\ q.pc = "mails"
      /\ UNCHANGED <<cycle, admin, rows, moves, mailvars>>
  BY <1>1 DEF Respond, At
<1>3. PICK pc \in {"done", "failed"} : req' = [req EXCEPT ![r] = [q EXCEPT !.pc = pc]]
  BY <1>1 DEF Respond, Move, Put
<1>4. PICK p \in Request : p = [q EXCEPT !.pc = pc]
  BY DEF Request
<1>5. /\ p.kind = "open" /\ p.pc = pc /\ p.todo = q.todo /\ p.generated = q.generated
      /\ p.committed = q.committed /\ p.before = q.before /\ p.unit = q.unit
  BY <1>2, <1>4 DEF Request
<1>6. Placed(p) /\ Counting(p) /\ Gated(p) /\ Listed(p) /\ p.before \subseteq Committed
  BY <1>1, <1>2, <1>5 DEF Placed, Counting, Gated, Listed, Sound, Early, Lists, WithUnit
<1>7. FilesKept(r, p)'
  BY <1>1, <1>5, <1>2 DEF FilesKept, Sound, rows
<1>8. \A v \in Units : Passed(q, v) => Passed(p, v)
  BY <1>2, <1>5 DEF Passed, Early, After
<1>9. /\ files \subseteq files' /\ files' \subseteq Ids
      /\ cycle' \in {"draft", "open", "closed"} /\ req' = [req EXCEPT ![r] = p]
  BY <1>2, <1>3, <1>4 DEF IInv, TypeOK, rows
<1> QED
  BY <1>1, <1>2, <1>5, <1>6, <1>7, <1>8, <1>9, LocalStep DEF admin, rows, Lists
-----------------------------------------------------------------------------
\* The reads of a download and of a change of exclusions.
LEMMA ReadTemplateStep ==
    ASSUME IInv, NEW r \in Requests, ReadTemplate(r)
    PROVE  IInv'
<1>1. PICK q \in Request : q = req[r] /\ Sound(r, q) /\ Placed(q)
  BY RequestSound
<1>2. /\ q.kind = "download" /\ q.pc = "idle"
      /\ UNCHANGED <<cycle, admin, rows, moves, mailvars>>
  BY <1>1 DEF ReadTemplate, At
<1>3. PICK u \in Units :
        LET t == templates[u] IN
        IF t # NULL /\ t.good /\ <<t.by, u>> \in files
        THEN req' = [req EXCEPT ![r] = [q EXCEPT !.pc = "write", !.unit = u, !.row = t]]
        ELSE req' = [req EXCEPT ![r] = [q EXCEPT !.pc = "failed"]]
  BY <1>1 DEF ReadTemplate, Move, Put
<1>4. PICK t \in {NULL} \cup Template : t = templates[u]
  BY DEF IInv, TypeOK
<1>5. q.pc \in Early /\ cycle' \in {"draft", "open", "closed"}
  BY <1>2 DEF IInv, TypeOK, Early
<1>6. CASE t # NULL /\ t.good /\ <<t.by, u>> \in files
  <2>1. PICK p \in Request : p = [q EXCEPT !.pc = "write", !.unit = u, !.row = t]
    BY DEF Request
  <2>2. /\ p.kind = "download" /\ p.pc = "write" /\ p.todo = q.todo /\ p.generated = q.generated
        /\ p.committed = q.committed /\ p.before = q.before /\ p.unit = u /\ p.row = t
    BY <1>2, <2>1 DEF Request
  <2>3. Placed(p) /\ Gated(p) /\ Listed(p) /\ p.before \subseteq Committed
    BY <1>1, <1>2, <2>2 DEF Placed, Gated, Listed, Sound, Early, Lists, WithUnit
  <2>4. Counting(p)
    BY <1>4, <1>6, <2>2 DEF Counting, IInv, RowsServe
  <2>5. req' = [req EXCEPT ![r] = p] /\ ~p.committed
    BY <1>1, <1>3, <1>4, <1>5, <1>6, <2>1, <2>2 DEF Placed
  <2> QED
    BY <1>1, <1>2, <1>5, <2>2, <2>3, <2>4, <2>5, EarlyStep DEF admin, rows
<1>7. CASE ~(t # NULL /\ t.good /\ <<t.by, u>> \in files)
  <2>1. PICK p \in Request : p = [q EXCEPT !.pc = "failed"]
    BY DEF Request
  <2>2. /\ p.kind = "download" /\ p.pc = "failed" /\ p.todo = q.todo /\ p.generated = q.generated
        /\ p.committed = q.committed /\ p.before = q.before
    BY <1>2, <2>1 DEF Request
  <2>3. Placed(p) /\ Counting(p) /\ Gated(p) /\ Listed(p) /\ p.before \subseteq Committed
    BY <1>1, <1>2, <2>2 DEF Placed, Counting, Gated, Listed, Sound, Early, Lists, WithUnit
  <2>4. req' = [req EXCEPT ![r] = p] /\ ~p.committed
    BY <1>1, <1>3, <1>4, <1>5, <1>7, <2>1, <2>2 DEF Placed
  <2> QED
    BY <1>1, <1>2, <1>5, <2>2, <2>3, <2>4, EarlyStep DEF admin, rows
<1> QED
  BY <1>6, <1>7

LEMMA ReadUnitStep ==
    ASSUME IInv, NEW r \in Requests, ReadUnit(r)
    PROVE  IInv'
<1>1. PICK q \in Request : q = req[r] /\ Sound(r, q) /\ Placed(q)
  BY RequestSound
<1>2. /\ q.kind \in Lists /\ q.pc = "idle"
      /\ UNCHANGED <<cycle, admin, rows, moves, mailvars>>
  BY <1>1 DEF ReadUnit, At, Lists
<1>3. PICK u \in Units, c \in Cycles, flag \in BOOLEAN, wanted \in SUBSET Cycles :
        Put(r, [req[r] EXCEPT !.pc = "write", !.unit = u, !.about = c, !.flag = flag,
                              !.list = excluded[u], !.wanted = wanted, !.before = Committed])
  BY DEF ReadUnit
<1>4. PICK list \in SUBSET Cycles : list = excluded[u]
  BY DEF IInv, TypeOK
<1>5. PICK before \in SUBSET Requests : before = Committed
  BY DEF Committed
<1>6. PICK p \in Request :
        p = [q EXCEPT !.pc = "write", !.unit = u, !.about = c, !.flag = flag,
                      !.list = list, !.wanted = wanted, !.before = before]
  BY DEF Request
<1>7. req' = [req EXCEPT ![r] = p]
  BY <1>1, <1>3, <1>4, <1>5, <1>6 DEF Put
<1>8. /\ p.kind = q.kind /\ p.pc = "write" /\ p.todo = q.todo /\ p.generated = q.generated
      /\ p.committed = q.committed /\ p.before = before /\ p.unit = u /\ p.list = list
  BY <1>6 DEF Request
<1>9. Placed(p) /\ Counting(p) /\ Gated(p) /\ p.before \subseteq Committed
  BY <1>1, <1>2, <1>5, <1>8 DEF Placed, Counting, Gated, Early, Lists, WithUnit
<1>10. Listed(p)
  <2>1. ASSUME NEW e \in Committed, NEW about \in Cycles, req[e].kind \in Lists, req[e].unit = u,
               Covers(req[e], about), (about \in list) # Wants(req[e], about)
        PROVE  Undone(e, about)
    BY <1>4, <2>1 DEF IInv, ListsHold, ExclusionsHold, Undone
  <2> QED
    BY <1>4, <1>5, <1>8, <2>1 DEF Listed
<1>11. q.pc \in Early /\ cycle' \in {"draft", "open", "closed"} /\ ~p.committed
  BY <1>1, <1>2, <1>8 DEF IInv, TypeOK, Early, Placed
<1> QED
  BY <1>1, <1>2, <1>7, <1>8, <1>9, <1>10, <1>11, EarlyStep DEF admin, rows

LEMMA FailStep ==
    ASSUME IInv, NEW r \in Requests, Fail(r)
    PROVE  IInv'
<1>1. PICK q \in Request : q = req[r] /\ Sound(r, q) /\ Placed(q)
  BY RequestSound
<1>2. /\ q.pc \in {"units", "users", "write", "dispatch"}
      /\ UNCHANGED <<cycle, admin, rows, moves, mailvars>>
  BY <1>1 DEF Fail
<1>3. PICK p \in Request : p = [q EXCEPT !.pc = "failed"]
  BY DEF Request
<1>4. req' = [req EXCEPT ![r] = p]
  BY <1>1, <1>3 DEF Fail, Move, Put
<1>5. /\ p.kind = q.kind /\ p.pc = "failed" /\ p.todo = q.todo /\ p.generated = q.generated
      /\ p.committed = q.committed /\ p.before = q.before /\ p.unit = q.unit
  BY <1>3 DEF Request
<1>6. FilesKept(r, p)' /\ files \subseteq files' /\ files' \subseteq Ids
  BY <1>1, <1>2, <1>5 DEF FilesKept, Sound, rows, IInv, TypeOK
<1>7. CASE q.pc = "dispatch"
  <2>1. \A v \in Units : Passed(q, v) => Passed(p, v)
    BY <1>5, <1>7 DEF Passed, Early, After
  <2>2. q.kind = "open" /\ q.pc \notin Early \cup {"mails", "done", "failed"} /\ p.pc \notin Early \cup WithUnit
    BY <1>1, <1>5, <1>7 DEF Placed, Early, WithUnit
  <2> QED
    BY <1>1, <1>2, <1>4, <1>5, <1>6, <2>1, <2>2, BusyStep DEF admin, rows
<1>8. CASE q.pc # "dispatch"
  <2>1. q.pc \in Early /\ cycle' \in {"draft", "open", "closed"}
    BY <1>2, <1>8 DEF IInv, TypeOK, Early
  <2>2. ~p.committed /\ q.kind # "none"
    BY <1>1, <1>2, <1>5, <2>1 DEF Placed
  <2>3. Placed(p) /\ Counting(p) /\ Gated(p) /\ Listed(p) /\ p.before \subseteq Committed
    BY <1>1, <1>5, <2>2 DEF Placed, Counting, Gated, Listed, Sound, Early, Lists, WithUnit
  <2> QED
    BY <1>1, <1>2, <1>4, <1>5, <2>1, <2>2, <2>3, EarlyStep DEF admin, rows
<1> QED
  BY <1>7, <1>8
-----------------------------------------------------------------------------
\* A request replaces the row of a unit.
LEMMA RowStep ==
    ASSUME IInv, NEW r \in Requests, NEW q \in Request, q = req[r], NEW p \in Request, req' = [req EXCEPT ![r] = p],
           UNCHANGED <<cycle, excluded, managed, files, moves, mailvars>>,
           NEW u \in Units, NEW t \in Template, templates' = [templates EXCEPT ![u] = t],
           served' \in [Ids -> Nat], \A id \in Ids : served[id] <= served'[id],
           \A id \in Ids : id[2] # u => served'[id] = served[id],
           q.kind \in {"open", "regenerate", "download"}, q.pc \notin {"mails", "done", "failed"},
           p.kind = q.kind, p.generated = q.generated, p.committed = q.committed, p.before = q.before,
           p.pc \notin Early \cup {"mails"}, Placed(p), FilesKept(r, p)',
           \A v \in Units : Passed(q, v) => Passed(p, v),
           t.good => /\ <<t.by, u>> \in files
                     /\ t.count <= served'[<<t.by, u>>]
                     /\ t.count = 0 => served'[<<t.by, u>>] = 0
                     /\ t.by \in Requests => Passed(req'[t.by], u),
           \A s \in Requests : served'[<<s, u>>] # 0 => Passed(req'[s], u)
    PROVE  IInv'
<1>1. /\ req'[r] = p /\ \A s \in Requests \ {r} : req'[s] = req[s]
      /\ q.before \subseteq Committed
  BY RequestSound DEF IInv, TypeOK, Sound
<1>2. TypeOK'
  BY DEF IInv, TypeOK, mailvars, MailTypeOK
<1>3. Committed \subseteq Committed'
  BY <1>1 DEF Committed
<1>4. Grows
  BY <1>1, <1>3 DEF Grows, Lists
<1>5. Counting(p) /\ Gated(p) /\ Listed(p)
  BY DEF Counting, Gated, Listed, Lists, Early
<1>6. RowsServe'
  <2>1. ASSUME NEW v \in Units, v # u
        PROVE  /\ templates'[v] = templates[v]
               /\ \A s \in Requests \cup {Earlier} : served'[<<s, v>>] = served[<<s, v>>]
               /\ \A s \in Requests : Passed(req[s], v) => Passed(req'[s], v)
    BY <1>4, <2>1 DEF IInv, TypeOK, Ids, Grows
  <2>2. templates'[u] = t
    BY DEF IInv, TypeOK
  <2>3. ASSUME NEW v \in Units, NEW x, x = templates'[v], x # NULL, x.good
        PROVE  /\ <<x.by, v>> \in files'
               /\ x.count <= served'[<<x.by, v>>]
               /\ x.count = 0 => served'[<<x.by, v>>] = 0
               /\ x.by \in Requests => Passed(req'[x.by], v)
    <3>1. CASE v = u
      BY <2>2, <2>3, <3>1
    <3>2. CASE v # u
      <4>1. x = templates[v] /\ x \in Template
        BY <2>1, <2>3, <3>2 DEF IInv, TypeOK
      <4>2. /\ <<x.by, v>> \in files
            /\ x.count <= served[<<x.by, v>>]
            /\ x.count = 0 => served[<<x.by, v>>] = 0
            /\ x.by \in Requests => Passed(req[x.by], v)
        BY <2>3, <4>1 DEF IInv, RowsServe
      <4>3. x.by \in Requests \cup {Earlier}
        BY <4>1 DEF Template
      <4> QED
        BY <2>1, <3>2, <4>2, <4>3
    <3> QED
      BY <3>1, <3>2
  <2>4. ASSUME NEW s \in Requests, NEW v \in Units, served'[<<s, v>>] # 0
        PROVE  Passed(req'[s], v)
    BY <2>1, <2>4 DEF IInv, RowsServe
  <2> QED
    BY <2>3, <2>4 DEF RowsServe
<1>7. \A s \in Requests : PostPlaced(s)'
  <2>1. Placed(q) /\ PostPlaced(r) /\ \A s \in Requests : PostPlaced(s)
    BY RequestSound
  <2>2. post[r].kind # "none" => q.kind = "none"
    BY <2>1 DEF PostPlaced
  <2> QED
    BY <1>1, <2>1, <2>2 DEF PostPlaced, mailvars
<1>8. MailInv'
  BY <1>4, <1>7, MailsRest
<1> QED
  BY <1>1, <1>2, <1>4, <1>5, <1>6, <1>8, RequestStep

LEMMA InsertStep ==
    ASSUME IInv, NEW r \in Requests, Insert(r)
    PROVE  IInv'
<1>1. PICK q \in Request : q = req[r] /\ Sound(r, q) /\ Placed(q)
  BY RequestSound
<1>2. /\ q.pc = "insert" /\ q.kind \in {"open", "regenerate"}
      /\ UNCHANGED <<cycle, admin, files, served, moves, mailvars>>
  BY <1>1 DEF Insert, At, Placed, WithUnit
<1>3. PICK u \in Units : u = q.unit /\ u \in q.todo
  BY <1>1, <1>2 DEF Placed, Request, WithUnit
<1>4. PICK t \in Template : t = NewRow(r, TRUE)
  BY DEF Template, NewRow
<1>5. templates' = [templates EXCEPT ![u] = t] /\ t.by = r /\ t.good /\ t.count = 0
  BY <1>1, <1>3, <1>4 DEF Insert, NewRow
<1>6. PICK p \in Request : p = [q EXCEPT !.pc = "audit"]
  BY DEF Request
<1>7. req' = [req EXCEPT ![r] = p]
  BY <1>1, <1>6 DEF Insert, Move, Put
<1>8. /\ p.kind = q.kind /\ p.pc = "audit" /\ p.todo = q.todo /\ p.generated = q.generated
      /\ p.committed = q.committed /\ p.before = q.before /\ p.unit = u
  BY <1>3, <1>6 DEF Request
<1>9. /\ served' \in [Ids -> Nat]
      /\ \A id \in Ids : served[id] <= served'[id]
      /\ \A id \in Ids : served'[id] = served[id]
  BY <1>2 DEF IInv, TypeOK
<1>10. Placed(p) /\ FilesKept(r, p)'
  BY <1>1, <1>2, <1>3, <1>8 DEF Placed, FilesKept, Sound, Early, Lists, WithUnit
<1>11. \A v \in Units : Passed(q, v) => Passed(p, v)
  BY <1>2, <1>3, <1>8 DEF Passed, Early, After
<1>12. Passed(p, u) /\ ~Passed(q, u)
  BY <1>2, <1>3, <1>8 DEF Passed, Early, After
<1>13. req'[r] = p /\ \A s \in Requests \ {r} : req'[s] = req[s]
  BY <1>7 DEF IInv, TypeOK
<1>14. served[<<r, u>>] = 0 /\ <<r, u>> \in files /\ <<r, u>> \in Ids
  BY <1>1, <1>2, <1>3, <1>12 DEF IInv, RowsServe, Sound, FilesKept, Ids
<1>15. /\ <<t.by, u>> \in files
       /\ t.count <= served'[<<t.by, u>>]
       /\ t.count = 0 => served'[<<t.by, u>>] = 0
       /\ t.by \in Requests => Passed(req'[t.by], u)
  BY <1>5, <1>9, <1>12, <1>13, <1>14
<1>16. \A s \in Requests : served'[<<s, u>>] # 0 => Passed(req'[s], u)
  BY <1>1, <1>2, <1>12, <1>13 DEF IInv, RowsServe
<1>17. q.pc \notin {"mails", "done", "failed"} /\ p.pc \notin Early \cup {"mails"}
  BY <1>2, <1>8 DEF Early
<1> QED
  BY <1>1, <1>2, <1>5, <1>7, <1>8, <1>9, <1>10, <1>11, <1>15, <1>16, <1>17, RowStep DEF admin

LEMMA InsertErrorStep ==
    ASSUME IInv, NEW r \in Requests, InsertError(r)
    PROVE  IInv'
<1>1. PICK q \in Request : q = req[r] /\ Sound(r, q) /\ Placed(q)
  BY RequestSound
<1>2. /\ q.pc = "errorinsert" /\ q.kind \in {"open", "regenerate"}
      /\ UNCHANGED <<cycle, admin, files, served, moves, mailvars>>
  BY <1>1 DEF InsertError, At, Placed, WithUnit
<1>3. PICK u \in Units : u = q.unit /\ u \in q.todo
  BY <1>1, <1>2 DEF Placed, Request, WithUnit
<1>4. PICK t \in Template : t = NewRow(r, FALSE)
  BY DEF Template, NewRow
<1>5. templates' = [templates EXCEPT ![u] = t] /\ ~t.good
  BY <1>1, <1>3, <1>4 DEF InsertError, NewRow
<1>6. PICK o \in Request : o = Onto(q) /\ o.errors = q.errors
  BY OntoNext
<1>7. q.errors \cup {u} \in SUBSET Units
  BY DEF Request
<1>8. PICK p \in Request : p = [o EXCEPT !.errors = q.errors \cup {u}]
  BY <1>7 DEF Request
<1>9. req' = [req EXCEPT ![r] = p]
  BY <1>1, <1>3, <1>6, <1>8 DEF InsertError, Put
<1>10. /\ p.kind = q.kind /\ p.pc \in {"generate", "dispatch", "done"} /\ (p.pc = "dispatch" => q.kind = "open")
       /\ p.generated = q.generated /\ p.todo = q.todo \ {q.unit}
       /\ p.committed = q.committed /\ p.before = q.before
  BY <1>6, <1>8, OntoNext DEF Request
<1>11. /\ served' \in [Ids -> Nat]
       /\ \A id \in Ids : served[id] <= served'[id]
       /\ \A id \in Ids : served'[id] = served[id]
  BY <1>2 DEF IInv, TypeOK
<1>12. Placed(p) /\ FilesKept(r, p)'
  BY <1>1, <1>2, <1>10 DEF Placed, FilesKept, Sound, Early, Lists, WithUnit
<1>13. \A v \in Units : Passed(q, v) => Passed(p, v)
  BY <1>2, <1>10, OntoPasses DEF Early
<1>14. req'[r] = p /\ \A s \in Requests \ {r} : req'[s] = req[s]
  BY <1>9 DEF IInv, TypeOK
<1>15. \A s \in Requests : served'[<<s, u>>] # 0 => Passed(req'[s], u)
  BY <1>1, <1>2, <1>13, <1>14 DEF IInv, RowsServe
<1>16. q.pc \notin {"mails", "done", "failed"} /\ p.pc \notin Early \cup {"mails"}
  BY <1>2, <1>10 DEF Early
<1> QED
  BY <1>1, <1>2, <1>5, <1>9, <1>10, <1>11, <1>12, <1>13, <1>15, <1>16, RowStep DEF admin

\* Two downloads at a time write the same count: it is never too high.
LEMMA CountDownloadStep ==
    ASSUME IInv, NEW r \in Requests, CountDownload(r)
    PROVE  IInv'
<1>1. PICK q \in Request : q = req[r] /\ Sound(r, q) /\ Placed(q)
  BY RequestSound
<1>2. /\ q.pc = "write" /\ q.kind = "download"
      /\ UNCHANGED <<cycle, admin, files, moves, mailvars>>
  BY <1>1 DEF CountDownload, At
<1>3. PICK u \in Units, row \in Template :
        /\ u = q.unit /\ row = q.row /\ row # NULL /\ row.good
        /\ row.count <= served[<<row.by, u>>]
        /\ row.by \in Requests => Passed(req[row.by], u)
  BY <1>1, <1>2 DEF Sound, Counting, Request
<1>4. /\ row.by \in Requests \cup {Earlier} /\ row.good \in BOOLEAN /\ row.count \in Nat
      /\ row.count + 1 \in Nat
  BY DEF Template
<1>5. PICK old \in Template : old = templates[u] /\ old # NULL /\ old.by = row.by /\ old.good = row.good
  <2>1. Ident(templates[u]) = <<row.by, row.good>>
    BY <1>1, <1>3 DEF CountDownload, Unchanged, Ident
  <2>2. templates[u] # NULL
    BY <1>4, <2>1, OpenCycleAssumption DEF Ident
  <2>3. templates[u] \in Template
    BY <2>2 DEF IInv, TypeOK
  <2> QED
    BY <2>1, <2>2, <2>3 DEF Ident
<1>6. PICK id \in Ids : id = <<row.by, u>>
  BY <1>4 DEF Ids
<1>7. PICK t \in Template : t = [old EXCEPT !.count = row.count + 1]
  BY <1>4 DEF Template
<1>8. t.by = row.by /\ t.good = row.good /\ t.count = row.count + 1
  BY <1>4, <1>5, <1>7 DEF Template
<1>9. templates' = [templates EXCEPT ![u] = t] /\ served' = [served EXCEPT ![id] = served[id] + 1]
  BY <1>1, <1>3, <1>5, <1>6, <1>7 DEF CountDownload
<1>10. PICK p \in Request : p = [q EXCEPT !.pc = "done"]
  BY DEF Request
<1>11. req' = [req EXCEPT ![r] = p]
  BY <1>1, <1>10 DEF CountDownload, Move, Put
<1>12. /\ p.kind = q.kind /\ p.pc = "done" /\ p.todo = q.todo /\ p.generated = q.generated
       /\ p.committed = q.committed /\ p.before = q.before /\ p.unit = u
  BY <1>3, <1>10 DEF Request
<1>13. served \in [Ids -> Nat] /\ served[id] \in Nat /\ served'[id] = served[id] + 1
  BY <1>9 DEF IInv, TypeOK
<1>14. /\ served' \in [Ids -> Nat]
       /\ \A x \in Ids : served[x] <= served'[x]
       /\ \A x \in Ids \ {id} : served'[x] = served[x]
  BY <1>9, <1>13
<1>15. Placed(p) /\ FilesKept(r, p)'
  BY <1>1, <1>2, <1>12 DEF Placed, FilesKept, Sound, Early, Lists, WithUnit
<1>16. \A v \in Units : Passed(q, v) => Passed(p, v)
  BY <1>2 DEF Passed, Early
<1>17. req'[r] = p /\ \A s \in Requests \ {r} : req'[s] = req[s]
  BY <1>11 DEF IInv, TypeOK
<1>18. row.by \in Requests => Passed(req'[row.by], u)
  BY <1>1, <1>3, <1>16, <1>17
<1>19. /\ <<t.by, u>> \in files
       /\ t.count <= served'[<<t.by, u>>]
       /\ t.count = 0 => served'[<<t.by, u>>] = 0
       /\ t.by \in Requests => Passed(req'[t.by], u)
  <2>1. <<row.by, u>> \in files
    BY <1>3, <1>5 DEF IInv, RowsServe
  <2>2. row.count + 1 <= served'[id] /\ row.count + 1 # 0
    BY <1>3, <1>4, <1>6, <1>13
  <2> QED
    BY <1>6, <1>8, <1>18, <2>1, <2>2
<1>20. ASSUME NEW s \in Requests, served'[<<s, u>>] # 0 PROVE Passed(req'[s], u)
  <2>1. CASE s = row.by
    BY <1>18, <2>1
  <2>2. CASE s # row.by
    <3>1. <<s, u>> \in Ids \ {id}
      BY <1>6, <2>2 DEF Ids
    <3>2. Passed(req[s], u)
      BY <1>14, <1>20, <3>1 DEF IInv, RowsServe
    <3> QED
      BY <1>1, <1>16, <1>17, <3>2
  <2> QED
    BY <2>1, <2>2
<1>21. \A x \in Ids : x[2] # u => served'[x] = served[x]
  BY <1>6, <1>14
<1>22. q.pc \notin {"mails", "done", "failed"} /\ p.pc \notin Early \cup {"mails"}
  BY <1>2, <1>12 DEF Early
<1> QED
  BY <1>1, <1>2, <1>9, <1>11, <1>12, <1>14, <1>15, <1>16, <1>19, <1>20, <1>21, <1>22, RowStep DEF admin
-----------------------------------------------------------------------------
\* A step of the mails alone.
LEMMA OwnRest ==
    ASSUME IInv, UNCHANGED <<excluded, managed, templates, files, served, req>>
    PROVE  Grows /\ (\A r \in Requests : Sound(r, req[r])') /\ RowsServe' /\ ListsHold'
<1>1. Committed' = Committed
  BY DEF Committed
<1>2. \A id \in Ids : served[id] <= served'[id]
  BY DEF IInv, TypeOK
<1>3. Grows
  BY <1>1, <1>2 DEF Grows
<1>4. ASSUME NEW r \in Requests PROVE Sound(r, req[r])'
  <2>1. Sound(r, req[r])
    BY RequestSound
  <2>2. Placed(req[r])' /\ FilesKept(r, req[r])' /\ Counting(req[r])' /\ Gated(req[r])'
    BY <2>1 DEF Sound, Placed, FilesKept, Counting, Gated
  <2>3. Listed(req[r])'
    BY <1>1, <2>1 DEF Sound, Listed, Undone, Undoes, Changed
  <2>4. (req[r].before \subseteq Committed)'
    BY <1>1, <2>1 DEF Sound
  <2> QED
    BY <2>2, <2>3, <2>4 DEF Sound
<1>5. RowsServe'
  BY DEF IInv, RowsServe
<1>6. ListsHold'
  BY <1>1 DEF IInv, ListsHold, ExclusionsHold, Undoes
<1> QED
  BY <1>3, <1>4, <1>5, <1>6

LEMMA MailStep ==
    ASSUME IInv, NEW r \in Requests, NEW p \in Post, post' = [post EXCEPT ![r] = p], p.kind = post[r].kind,
           UNCHANGED <<cycle, excluded, managed, templates, files, served, moves, req, notes, noted>>,
           resubmits \subseteq resubmits', resubmits' \subseteq Ids, mails \subseteq mails', mails' \subseteq Ids,
           \A id \in mails' \ mails : Justified(id)', PostSound(p)'
    PROVE  IInv'
<1>1. TypeOK'
  BY DEF IInv, TypeOK, MailTypeOK
<1>2. post'[r] = p /\ \A s \in Requests \ {r} : post'[s] = post[s]
  BY DEF IInv, TypeOK, MailTypeOK
<1>3. \A s \in Requests : PostPlaced(s)'
  BY <1>2, RequestSound DEF PostPlaced
<1>4. Grows /\ (\A s \in Requests : Sound(s, req[s])') /\ RowsServe' /\ ListsHold'
  BY OwnRest
<1>5. MailInv'
  BY <1>1, <1>3, <1>4, PostStep
<1> QED
  BY <1>1, <1>4, <1>5 DEF IInv

LEMMA BatchPost ==
    ASSUME NEW kind \in PostKinds \ {"none"}, NEW ids \in SUBSET Ids
    PROVE  /\ Batch(kind, ids) \in Post /\ Batch(kind, ids).kind = kind
           /\ Batch(kind, ids).pc \in {"send", "done"}
           /\ Batch(kind, ids).todo = ids /\ Batch(kind, ids).tx = {}
BY DEF Batch, Post

\* Recipients handed over one batch: each has what stands behind his mail.
LEMMA BatchStep ==
    ASSUME IInv, NEW r \in Requests, post[r].kind # "none", NEW ids \in SUBSET Ids,
           post' = [post EXCEPT ![r] = Batch(post[r].kind, ids)],
           UNCHANGED <<cycle, excluded, managed, templates, files, served, moves, req, notes, noted, mails>>,
           resubmits \subseteq resubmits', resubmits' \subseteq Ids,
           \A id \in ids : Justified(id)'
    PROVE  IInv'
<1>1. PICK kind \in PostKinds \ {"none"} : kind = post[r].kind
  BY DEF IInv, TypeOK, MailTypeOK, Post
<1>2. PICK p \in Post : p = Batch(kind, ids) /\ p.kind = kind /\ p.pc \in {"send", "done"} /\ p.todo = ids /\ p.tx = {}
  BY BatchPost
<1>3. PostSound(p)'
  BY <1>2 DEF PostSound
<1>4. mails' \subseteq Ids
  BY DEF IInv, TypeOK, MailTypeOK
<1> QED
  BY <1>1, <1>2, <1>3, <1>4, MailStep

\* A request gives up what it had to send.
LEMMA PostEnds ==
    ASSUME IInv, NEW r \in Requests, post[r].kind # "none", NEW p \in Post, post' = [post EXCEPT ![r] = p],
           p.kind = post[r].kind, p.pc = "failed", p.todo \subseteq post[r].todo, p.tx \subseteq post[r].tx,
           UNCHANGED <<cycle, excluded, managed, templates, files, served, moves, req, notes, noted, mails, resubmits>>
    PROVE  IInv'
<1>1. PICK o \in Post : o = post[r] /\ PostSound(o)
  BY RequestSound DEF IInv, TypeOK, MailTypeOK
<1>2. Grows
  BY OwnRest
<1>3. \A s \in Requests : post'[s].kind = post[s].kind
  BY DEF IInv, TypeOK, MailTypeOK
<1>4. ASSUME NEW id \in Ids, Justified(id) PROVE Justified(id)'
  BY <1>2, <1>3, <1>4, JustifiedStays DEF IInv
<1>5. /\ \A id \in o.todo : id \in Ids
      /\ \A t \in o.tx : t[1] \in Ids
  BY DEF Post
<1>6. PostSound(p)'
  BY <1>1, <1>4, <1>5 DEF PostSound
<1>7. resubmits' \subseteq Ids /\ mails' \subseteq Ids
  BY DEF IInv, TypeOK, MailTypeOK
<1> QED
  BY <1>6, <1>7, MailStep

LEMMA IdsOf ==
    ASSUME NEW r \in Requests, NEW units \in SUBSET Units
    PROVE  {<<r, u>> : u \in units} \in SUBSET Ids
<1>1. \A u \in units : <<r, u>> \in Ids
  BY DEF Ids
<1> QED
  BY <1>1

LEMMA ConfirmStep ==
    ASSUME IInv, NEW r \in Requests, confirm(r), UNCHANGED <<cycle, admin, rows, moves, req>>
    PROVE  IInv'
<1>1. PICK units \in SUBSET Units : post' = [post EXCEPT ![r] = Batch("confirm", {<<r, u>> : u \in units})]
  BY DEF confirm, PutPost
<1>2. PICK ids \in SUBSET Ids : ids = {<<r, u>> : u \in units}
  BY IdsOf
<1>3. post[r].kind = "confirm" /\ UNCHANGED <<notes, mails, resubmits, noted>>
  BY DEF confirm
<1>4. post'[r].kind = "confirm"
  BY <1>1, <1>2, BatchPost DEF IInv, TypeOK, MailTypeOK, PostKinds
<1>5. \A id \in ids : Justified(id)'
  BY <1>2, <1>4 DEF Justified
<1>6. resubmits' \subseteq Ids
  BY <1>3 DEF IInv, TypeOK, MailTypeOK
<1> QED
  BY <1>1, <1>2, <1>3, <1>5, <1>6, BatchStep DEF admin, rows

LEMMA RemindStep ==
    ASSUME IInv, NEW r \in Requests, Remind(r)
    PROVE  IInv'
<1>1. PICK unsubmitted \in SUBSET Units :
        post' = [post EXCEPT ![r] = Batch("remind", {<<r, u>> : u \in unsubmitted \cap managed})]
  BY DEF Remind, PutPost
<1>2. PICK ids \in SUBSET Ids : ids = {<<r, u>> : u \in unsubmitted \cap managed}
  BY IdsOf
<1>3. post[r].kind = "remind" /\ UNCHANGED <<cycle, admin, rows, moves, req, notes, mails, resubmits, noted>>
  BY DEF Remind
<1>4. post'[r].kind = "remind"
  BY <1>1, <1>2, BatchPost DEF IInv, TypeOK, MailTypeOK, PostKinds
<1>5. \A id \in ids : Justified(id)'
  BY <1>2, <1>4 DEF Justified
<1>6. resubmits' \subseteq Ids
  BY <1>3 DEF IInv, TypeOK, MailTypeOK
<1> QED
  BY <1>1, <1>2, <1>3, <1>5, <1>6, BatchStep DEF admin, rows

LEMMA CreateStep ==
    ASSUME IInv, NEW r \in Requests, create(r), UNCHANGED <<cycle, admin, rows, moves, req>>
    PROVE  IInv'
<1>1. /\ post[r].kind = "resubmit" /\ UNCHANGED <<notes, mails, noted>> /\ mails \subseteq Ids /\ resubmits \subseteq Ids
      /\ post[r] \in Post
  BY DEF create, IInv, TypeOK, MailTypeOK
<1>2. CASE UNCHANGED resubmits /\ PutPost(r, [post[r] EXCEPT !.pc = "failed"])
  <2>1. PICK o \in Post : o = post[r]
    BY <1>1
  <2>2. PICK p \in Post : p = [o EXCEPT !.pc = "failed"]
    BY DEF Post
  <2>3. p.kind = o.kind /\ p.pc = "failed" /\ p.todo = o.todo /\ p.tx = o.tx
    BY <2>2 DEF Post
  <2> QED
    BY <1>1, <1>2, <2>1, <2>2, <2>3, PostEnds DEF PutPost, admin, rows
<1>3. CASE \E u \in Units : resubmits' = resubmits \cup {<<r, u>>} /\ PutPost(r, Batch("resubmit", {<<r, u>>}))
  <2>1. PICK u \in Units : /\ resubmits' = resubmits \cup {<<r, u>>}
                           /\ post' = [post EXCEPT ![r] = Batch("resubmit", {<<r, u>>})]
    BY <1>3 DEF PutPost
  <2>2. PICK ids \in SUBSET Ids : ids = {<<r, u>>}
    <3>1. <<r, u>> \in Ids
      BY DEF Ids
    <3> QED
      BY <3>1
  <2>3. post'[r].kind = "resubmit"
    BY <2>1, <2>2, BatchPost DEF IInv, TypeOK, MailTypeOK, PostKinds
  <2>4. \A id \in ids : Justified(id)'
    BY <2>1, <2>2, <2>3 DEF Justified
  <2>5. resubmits \subseteq resubmits' /\ resubmits' \subseteq Ids
    BY <1>1, <2>1 DEF Ids
  <2> QED
    BY <1>1, <2>1, <2>2, <2>4, <2>5, BatchStep DEF admin, rows
<1> QED
  BY <1>2, <1>3 DEF create

LEMMA ResendStep ==
    ASSUME IInv, NEW r \in Requests, resend(r), UNCHANGED <<cycle, admin, rows, moves, req>>
    PROVE  IInv'
<1>1. /\ post[r].kind = "resend" /\ UNCHANGED <<notes, mails, resubmits, noted>>
      /\ mails \subseteq Ids /\ resubmits \subseteq Ids /\ post[r] \in Post
  BY DEF resend, IInv, TypeOK, MailTypeOK
<1>2. CASE PutPost(r, [post[r] EXCEPT !.pc = "failed"])
  <2>1. PICK o \in Post : o = post[r]
    BY <1>1
  <2>2. PICK p \in Post : p = [o EXCEPT !.pc = "failed"]
    BY DEF Post
  <2>3. p.kind = o.kind /\ p.pc = "failed" /\ p.todo = o.todo /\ p.tx = o.tx
    BY <2>2 DEF Post
  <2> QED
    BY <1>1, <1>2, <2>1, <2>2, <2>3, PostEnds DEF PutPost, admin, rows
<1>3. CASE \E id \in Ids : /\ notes[id] # NULL
                         /\ PutPost(r, [Batch("resend", {id}) EXCEPT !.loaded = notes[id]])
  <2>1. PICK id \in Ids : /\ notes[id] # NULL
                         /\ post' = [post EXCEPT ![r] = [Batch("resend", {id}) EXCEPT !.loaded = notes[id]]]
    BY <1>3 DEF PutPost
  <2>2. PICK ids \in SUBSET Ids : ids = {id}
    OBVIOUS
  <2>3. PICK b \in Post : /\ b = Batch("resend", ids) /\ b.kind = "resend" /\ b.pc \in {"send", "done"}
                          /\ b.todo = ids /\ b.tx = {}
    BY BatchPost DEF PostKinds
  <2>4. PICK status \in Statuses : status = notes[id]
    BY <2>1 DEF IInv, TypeOK, MailTypeOK
  <2>5. PICK p \in Post : p = [b EXCEPT !.loaded = status]
    BY DEF Post
  <2>6. p.kind = "resend" /\ p.pc \in {"send", "done"} /\ p.todo = ids /\ p.tx = {}
    BY <2>3, <2>5 DEF Post
  <2>7. post' = [post EXCEPT ![r] = p]
    BY <2>1, <2>2, <2>3, <2>4, <2>5
  <2>8. Grows
    BY OwnRest DEF admin, rows
  <2>9. \A s \in Requests : post'[s].kind = post[s].kind
    BY <1>1, <2>6, <2>7 DEF IInv, TypeOK, MailTypeOK
  <2>10. Justified(id)
    BY <2>1 DEF IInv, MailInv, NotesBacked
  <2>11. Justified(id)'
    BY <1>1, <2>8, <2>9, <2>10, JustifiedStays DEF IInv
  <2>12. PostSound(p)'
    BY <2>2, <2>6, <2>11 DEF PostSound
  <2> QED
    BY <1>1, <2>6, <2>7, <2>12, MailStep DEF admin, rows
<1> QED
  BY <1>2, <1>3 DEF resend

LEMMA FailPostStep ==
    ASSUME IInv, NEW r \in Requests, FailPost(r), UNCHANGED <<cycle, admin, rows, moves, req>>
    PROVE  IInv'
<1>1. /\ post[r].pc # "idle" /\ UNCHANGED <<notes, mails, resubmits, noted>> /\ PostSound(post[r])
  BY RequestSound DEF FailPost
<1>2. PICK o \in Post : o = post[r] /\ o.kind # "none"
  BY <1>1 DEF PostSound, IInv, TypeOK, MailTypeOK
<1>3. PICK p \in Post : p = [o EXCEPT !.pc = "failed", !.tx = {}]
  BY DEF Post
<1>4. p.kind = o.kind /\ p.pc = "failed" /\ p.todo = o.todo /\ p.tx = {}
  BY <1>3 DEF Post
<1>5. post' = [post EXCEPT ![r] = p]
  BY <1>2, <1>3 DEF FailPost, PutPost
<1> QED
  BY <1>1, <1>2, <1>4, <1>5, PostEnds DEF admin, rows

LEMMA OnwardPost ==
    ASSUME NEW o \in Post, NEW id \in Ids, NEW status \in Statuses
    PROVE  /\ Onward(o, id, status) \in Post /\ Onward(o, id, status).kind = o.kind
           /\ Onward(o, id, status).pc \in {"send", "commit", "done"}
           /\ Onward(o, id, status).pc = "commit" => Commits(o.kind)
           /\ Onward(o, id, status).todo \subseteq o.todo
           /\ \A t \in Onward(o, id, status).tx : t \in o.tx \/ t = <<id, status>>
<1>1. PICK tx \in SUBSET (Ids \X Statuses) : tx = Mark(o.tx, id, status)
  <2>1. o.tx \subseteq Ids \X Statuses /\ <<id, status>> \in Ids \X Statuses
    BY DEF Post
  <2>2. Mark(o.tx, id, status) \subseteq Ids \X Statuses
    BY <2>1 DEF Mark
  <2> QED
    BY <2>2
<1>2. PICK todo \in SUBSET Ids : todo = o.todo \ {id}
  BY DEF Post
<1>3. PICK pc \in {"send", "commit", "done"} :
        /\ pc = IF o.todo # {id} THEN "send" ELSE IF Commits(o.kind) THEN "commit" ELSE "done"
        /\ pc = "commit" => Commits(o.kind)
  OBVIOUS
<1>4. Onward(o, id, status) = [o EXCEPT !.todo = todo, !.tx = tx, !.pc = pc]
  BY <1>1, <1>2, <1>3 DEF Onward, Post
<1>5. \A t \in tx : t \in o.tx \/ t = <<id, status>>
  BY <1>1 DEF Mark
<1>6. PICK n \in Post : n = [o EXCEPT !.todo = todo, !.tx = tx, !.pc = pc]
  BY <1>3 DEF Post
<1>7. n.kind = o.kind /\ n.pc = pc /\ n.todo = todo /\ n.tx = tx
  BY <1>6 DEF Post
<1> QED
  BY <1>2, <1>3, <1>4, <1>5, <1>6, <1>7

\* One recipient is tried: what the row says of the mail is so.
LEMMA SendStep ==
    ASSUME IInv, NEW r \in Requests, send(r), UNCHANGED <<cycle, admin, rows, moves, req>>
    PROVE  IInv'
<1>1. PICK o \in Post : o = post[r] /\ PostSound(o) /\ o.pc = "send" /\ o.kind # "none"
  BY RequestSound DEF IInv, TypeOK, MailTypeOK, send, PostSound
<1>2. /\ UNCHANGED <<notes, resubmits, noted>> /\ resubmits \subseteq Ids /\ mails \subseteq Ids
  BY DEF send, IInv, TypeOK, MailTypeOK
<1>3. Grows
  BY OwnRest DEF admin, rows
<1>4. CASE /\ UNCHANGED mails
           /\ PutPost(r, [o EXCEPT !.pc = "failed", !.tx = {}])
  <2>1. PICK p \in Post : p = [o EXCEPT !.pc = "failed", !.tx = {}]
    BY DEF Post
  <2>2. p.kind = o.kind /\ p.pc = "failed" /\ p.todo = o.todo /\ p.tx = {}
    BY <2>1 DEF Post
  <2> QED
    BY <1>1, <1>2, <1>4, <2>1, <2>2, PostEnds DEF PutPost, admin, rows
<1>5. ASSUME NEW id \in o.todo, NEW status \in Statuses, PutPost(r, Onward(o, id, status)),
             mails' \in {mails, mails \cup {id}}, status = "sent" => id \in mails',
             status = "queued" => o.kind = "remind"
      PROVE  IInv'
  <2>1. id \in Ids
    BY DEF Post
  <2>2. PICK p \in Post : p = Onward(o, id, status)
    BY <2>1, OnwardPost
  <2>3. /\ p.kind = o.kind /\ p.pc \in {"send", "commit", "done"} /\ (p.pc = "commit" => Commits(o.kind))
        /\ p.todo \subseteq o.todo
        /\ \A t \in p.tx : t \in o.tx \/ t = <<id, status>>
    BY <2>1, <2>2, OnwardPost
  <2>4. post' = [post EXCEPT ![r] = p]
    BY <1>5, <2>2 DEF PutPost
  <2>5. \A s \in Requests : post'[s].kind = post[s].kind
    BY <1>1, <2>3, <2>4 DEF IInv, TypeOK, MailTypeOK
  <2>6. ASSUME NEW x \in Ids, Justified(x) PROVE Justified(x)'
    BY <1>2, <1>3, <2>5, <2>6, JustifiedStays DEF IInv
  <2>7. /\ \A x \in o.todo : x \in Ids /\ Justified(x)
        /\ \A t \in o.tx : t[1] \in Ids /\ Justified(t[1])
    BY <1>1 DEF PostSound, Post
  <2>8. Justified(id)'
    BY <2>6, <2>7
  <2>9. mails \subseteq mails' /\ mails' \subseteq Ids /\ mails' \ mails \subseteq {id}
    BY <1>2, <1>5, <2>1
  <2>10. \A t \in p.tx : /\ Justified(t[1])'
                         /\ t[2] = "sent" => t[1] \in mails'
                         /\ t[2] = "queued" => p.kind = "remind"
    <3> TAKE t \in p.tx
    <3>1. CASE t \in o.tx
      BY <1>1, <2>3, <2>6, <2>7, <2>9, <3>1 DEF PostSound
    <3>2. CASE t = <<id, status>>
      BY <1>5, <2>3, <2>8, <3>2
    <3> QED
      BY <2>3, <3>1, <3>2
  <2>11. PostSound(p)'
    BY <1>1, <2>3, <2>6, <2>7, <2>10 DEF PostSound
  <2> QED
    BY <1>1, <1>2, <2>3, <2>4, <2>8, <2>9, <2>11, MailStep DEF admin, rows
<1>6. PICK id \in o.todo :
        \/ mails' = mails \cup {id} /\ PutPost(r, Onward(o, id, "sent"))
        \/ mails' \in {mails, mails \cup {id}} /\ PutPost(r, Onward(o, id, "failed"))
        \/ /\ UNCHANGED mails
           /\ PutPost(r, IF o.kind = "remind" THEN Onward(o, id, "queued")
                         ELSE [o EXCEPT !.pc = "failed", !.tx = {}])
  BY <1>1 DEF send, MaybeOut
<1>7. CASE mails' = mails \cup {id} /\ PutPost(r, Onward(o, id, "sent"))
  BY <1>5, <1>7 DEF Statuses
<1>8. CASE mails' \in {mails, mails \cup {id}} /\ PutPost(r, Onward(o, id, "failed"))
  BY <1>5, <1>8 DEF Statuses
<1>9. CASE UNCHANGED mails /\ o.kind = "remind" /\ PutPost(r, Onward(o, id, "queued"))
  BY <1>5, <1>9 DEF Statuses
<1> QED
  BY <1>4, <1>6, <1>7, <1>8, <1>9

\* The rows are committed, each with what stands behind it.
LEMMA CommitPostStep ==
    ASSUME IInv, NEW r \in Requests, CommitPost(r), UNCHANGED <<cycle, admin, rows, moves, req>>
    PROVE  IInv'
<1>1. PICK o \in Post : o = post[r] /\ PostSound(o) /\ o.pc = "commit"
  BY RequestSound DEF IInv, TypeOK, MailTypeOK, CommitPost
<1>2. /\ o.kind \in {"resubmit", "resend"}
      /\ \A t \in o.tx : /\ t \in Ids \X Statuses /\ Justified(t[1])
                         /\ t[2] = "sent" => t[1] \in mails
                         /\ t[2] # "queued"
  BY <1>1 DEF PostSound, Commits, Post
<1>3. PICK p \in Post : p = [o EXCEPT !.pc = "done", !.tx = {}]
  BY DEF Post
<1>4. p.kind = o.kind /\ p.pc = "done" /\ p.todo = o.todo /\ p.tx = {}
  BY <1>3 DEF Post
<1>5. /\ post' = [post EXCEPT ![r] = p] /\ noted' = noted \cup o.tx
      /\ UNCHANGED <<mails, resubmits>>
      /\ notes' = [id \in Ids |-> IF StatusWritten(o, id) = {} THEN notes[id]
                                 ELSE (CHOOSE t \in StatusWritten(o, id) : TRUE)[2]]
  BY <1>1, <1>3 DEF CommitPost, PutPost
<1>6. ASSUME NEW id \in Ids
      PROVE  \/ \E t \in o.tx : t[1] = id /\ notes'[id] = t[2]
             \/ notes'[id] = notes[id]
  <2>1. CASE StatusWritten(o, id) = {}
    BY <1>5, <2>1
  <2>2. CASE StatusWritten(o, id) # {}
    <3>1. PICK t \in StatusWritten(o, id) : t = CHOOSE x \in StatusWritten(o, id) : TRUE
      BY <2>2
    <3> QED
      BY <1>5, <2>2, <3>1 DEF StatusWritten
  <2> QED
    BY <2>1, <2>2
<1>7. TypeOK'
  <2>1. \A id \in Ids : notes'[id] \in Statuses \cup {NULL}
    BY <1>2, <1>6 DEF IInv, TypeOK, MailTypeOK
  <2>2. notes' \in [Ids -> Statuses \cup {NULL}]
    BY <1>5, <2>1
  <2>3. noted' \subseteq Ids \X Statuses /\ post' \in [Requests -> Post]
    BY <1>2, <1>5 DEF IInv, TypeOK, MailTypeOK
  <2> QED
    BY <1>5, <2>2, <2>3 DEF IInv, TypeOK, MailTypeOK, admin, rows
<1>8. Grows /\ (\A s \in Requests : Sound(s, req[s])') /\ RowsServe' /\ ListsHold'
  BY OwnRest DEF admin, rows
<1>9. post'[r] = p /\ \A s \in Requests \ {r} : post'[s] = post[s]
  BY <1>5 DEF IInv, TypeOK, MailTypeOK
<1>10. ASSUME NEW id \in Ids, Justified(id) PROVE Justified(id)'
  BY <1>1, <1>4, <1>5, <1>8, <1>9, <1>10, JustifiedStays DEF IInv
<1>11. NotesBacked'
  <2> SUFFICES ASSUME NEW id \in Ids
               PROVE  /\ notes'[id] # NULL => Justified(id)' /\ (id[1] = Earlier \/ \E t \in noted' : t[1] = id)
                      /\ notes'[id] = "sent" => id \in mails'
                      /\ notes'[id] # "queued"
    BY DEF NotesBacked
  <2>1. CASE \E t \in o.tx : t[1] = id /\ notes'[id] = t[2]
    BY <1>2, <1>5, <1>10, <2>1
  <2>2. CASE notes'[id] = notes[id]
    BY <1>5, <1>10, <2>2 DEF IInv, MailInv, NotesBacked
  <2> QED
    BY <1>6, <2>1, <2>2
<1>12. \A id \in mails' : Justified(id)'
  BY <1>5, <1>10 DEF IInv, MailInv, TypeOK, MailTypeOK
<1>13. ASSUME NEW s \in Requests PROVE PostSound(post[s])' /\ PostPlaced(s)'
  <2>1. PICK x \in Post : x = post'[s] /\ (s # r => x = post[s]) /\ (s = r => x = p)
    BY <1>9 DEF IInv, TypeOK, MailTypeOK
  <2>2. CASE s = r
    <3>1. \A id \in p.todo : Justified(id)'
      BY <1>1, <1>4, <1>10 DEF PostSound, Post
    <3>2. PostSound(p)'
      BY <1>2, <1>4, <3>1 DEF PostSound
    <3>3. PostPlaced(r)
      BY RequestSound
    <3> QED
      BY <1>1, <1>4, <1>9, <2>2, <3>2, <3>3 DEF PostPlaced
  <2>3. CASE s # r
    <3>1. PostSound(x) /\ PostPlaced(s)
      BY <2>1, <2>3, RequestSound
    <3>2. /\ x.todo \subseteq Ids /\ \A t \in x.tx : t[1] \in Ids
      BY DEF Post
    <3>3. PostSound(x)'
      BY <1>5, <1>10, <3>1, <3>2 DEF PostSound
    <3> QED
      BY <2>1, <2>3, <3>1, <3>3 DEF PostPlaced
  <2> QED
    BY <2>2, <2>3
<1>14. MailInv'
  BY <1>11, <1>12, <1>13 DEF MailInv
<1> QED
  BY <1>7, <1>8, <1>14 DEF IInv

\* The opening hands over whom it has generated for.
LEMMA DispatchStep ==
    ASSUME IInv, NEW r \in Requests, Dispatch(r)
    PROVE  IInv'
<1>1. PICK q \in Request : q = req[r] /\ Sound(r, q) /\ Placed(q) /\ PostPlaced(r)
  BY RequestSound
<1>2. /\ q.kind = "open" /\ q.pc = "dispatch" /\ q.committed
      /\ UNCHANGED <<cycle, admin, rows, moves, notes, mails, resubmits, noted>>
  BY <1>1 DEF Dispatch, At, Placed, Early
<1>3. PICK units \in SUBSET q.generated : post' = [post EXCEPT ![r] = Batch("open", {<<r, v>> : v \in units})]
  <2>1. PICK units \in IF Wired THEN RecipientsOf(q) ELSE {{}} :
          PutPost(r, Batch("open", {<<r, v>> : v \in units}))
    BY <1>1 DEF Dispatch
  <2>2. units \in SUBSET q.generated
    BY DEF RecipientsOf
  <2> QED
    BY <2>1, <2>2 DEF PutPost
<1>4. PICK ids \in SUBSET Ids : ids = {<<r, u>> : u \in units}
  <2>1. units \in SUBSET Units
    BY DEF Request
  <2> QED
    BY <2>1, IdsOf
<1>5. PICK b \in Post : b = Batch("open", ids)
  BY BatchPost DEF PostKinds
<1>6. b.kind = "open" /\ b.pc \in {"send", "done"} /\ b.todo = ids /\ b.tx = {}
  BY <1>5, BatchPost DEF PostKinds
<1>7. post' = [post EXCEPT ![r] = b]
  BY <1>3, <1>4, <1>5
<1>8. PICK p \in Request : p = [q EXCEPT !.pc = "mails"]
  BY DEF Request
<1>9. req' = [req EXCEPT ![r] = p]
  BY <1>1, <1>8 DEF Dispatch, Move, Put
<1>10. /\ p.kind = "open" /\ p.pc = "mails" /\ p.todo = q.todo /\ p.generated = q.generated
       /\ p.committed = q.committed /\ p.before = q.before /\ p.unit = q.unit
  BY <1>2, <1>8 DEF Request
<1>11. /\ req'[r] = p /\ post'[r] = b /\ \A s \in Requests \ {r} : req'[s] = req[s] /\ post'[s] = post[s]
  BY <1>7, <1>9 DEF IInv, TypeOK, MailTypeOK
<1>12. TypeOK'
  BY <1>2, <1>7, <1>9 DEF IInv, TypeOK, MailTypeOK, admin, rows
<1>13. Grows
  <2>1. \A u \in Units : Passed(q, u) => Passed(p, u)
    BY <1>2, <1>10 DEF Passed, Early, After
  <2>2. Committed \subseteq Committed'
    BY <1>1, <1>10, <1>11 DEF Committed
  <2>3. \A id \in Ids : served[id] <= served'[id]
    BY <1>2 DEF IInv, TypeOK, rows
  <2> QED
    BY <1>1, <1>2, <1>10, <1>11, <2>1, <2>2, <2>3 DEF Grows, Lists, rows
<1>14. Placed(p) /\ FilesKept(r, p)' /\ Counting(p) /\ Gated(p) /\ Listed(p) /\ p.before \subseteq Committed
  BY <1>1, <1>2, <1>10 DEF Placed, FilesKept, Counting, Gated, Listed, Sound, Early, Lists, WithUnit, rows
<1>15. RowsServe'
  <2>1. \A s \in Requests, u \in Units : Passed(req[s], u) => Passed(req'[s], u)
    BY <1>13 DEF Grows
  <2>2. UNCHANGED <<templates, files, served>>
    BY <1>2 DEF rows
  <2> QED
    BY <2>1, <2>2 DEF IInv, RowsServe
<1>16. MailInv'
  <2>1. post[r].kind = "none"
    BY <1>1, <1>2 DEF PostPlaced
  <2>2. ASSUME NEW u \in units PROVE Justified(<<r, u>>)'
    <3>1. u \in q.generated /\ <<r, u>> \in files'
      BY <1>1, <1>2, <1>3 DEF Sound, FilesKept, rows
    <3> QED
      BY <1>2, <1>6, <1>10, <1>11, <3>1 DEF Justified
  <2>3. PostSound(b)'
    BY <1>4, <1>6, <2>2 DEF PostSound
  <2>4. \A s \in Requests : PostPlaced(s)'
    BY <1>10, <1>11, RequestSound DEF PostPlaced
  <2> QED
    BY <1>2, <1>7, <1>12, <1>13, <2>1, <2>3, <2>4, PostStep
<1> QED
  BY <1>1, <1>2, <1>9, <1>10, <1>12, <1>13, <1>14, <1>15, <1>16, RequestStep DEF admin
-----------------------------------------------------------------------------
\* An administrator changes a unit: what that does to a request.
Touched(q, p, u) ==
    /\ p.kind = q.kind /\ p.pc = q.pc /\ p.unit = q.unit /\ p.exempt = q.exempt /\ p.todo = q.todo
    /\ p.generated = q.generated /\ p.row = q.row /\ p.list = q.list /\ p.wanted = q.wanted
    /\ p.flag = q.flag /\ p.about = q.about /\ p.before = q.before /\ p.over = q.over
    /\ p.committed = q.committed
    /\ q.changed \subseteq p.changed
    /\ q.kind = "open" /\ q.pc \in {"users", "write"} => u \in p.changed

LEMMA TouchIs ==
    ASSUME NEW f \in [Requests -> Request], NEW u \in Units, NEW s \in Requests
    PROVE  /\ Touch(f, u)[s] \in Request /\ Touched(f[s], Touch(f, u)[s], u)
           /\ f[s].kind # "open" => Touch(f, u)[s] = f[s]
<1>1. PICK q \in Request : q = f[s]
  OBVIOUS
<1>2. PICK changed \in SUBSET Units : changed = q.changed \cup {u}
  BY DEF Request
<1>3. PICK p \in Request : p = [q EXCEPT !.changed = changed]
  BY DEF Request
<1>4. Touched(q, p, u)
  BY <1>2, <1>3 DEF Request, Touched
<1>5. Touch(f, u)[s] = IF q.pc \in {"users", "write"} /\ q.kind = "open" THEN p ELSE q
  BY <1>1, <1>2, <1>3 DEF Touch, Request
<1>6. CASE q.pc \in {"users", "write"} /\ q.kind = "open"
  BY <1>1, <1>4, <1>5, <1>6
<1>7. CASE ~(q.pc \in {"users", "write"} /\ q.kind = "open")
  BY <1>1, <1>5, <1>7 DEF Touched
<1> QED
  BY <1>6, <1>7

LEMMA TouchedPasses ==
    ASSUME NEW q, NEW p, NEW u, Touched(q, p, u), NEW v, Passed(q, v)
    PROVE  Passed(p, v)
BY DEF Touched, Passed

\* What is sound of a request stays so when a unit is changed.
LEMMA TouchedStays ==
    ASSUME IInv, TypeOK', Grows, NEW s \in Requests, NEW q \in Request, q = req[s], NEW p \in Request,
           NEW u \in Units, Touched(q, p, u), UNCHANGED files,
           \A v \in Units \ {u} : excluded'[v] = excluded[v] /\ (v \in managed => v \in managed'),
           excluded'[u] = excluded[u] \/ Replaced(u)
    PROVE  Sound(s, p)'
<1>1. Sound(s, q)
  BY RequestSound
<1>2. Placed(p)' /\ FilesKept(s, p)'
  BY <1>1 DEF Sound, Placed, FilesKept, Touched
<1>3. Counting(p)'
  <2>1. Counting(q)'
    BY <1>1, CountingStays DEF Sound, IInv
  <2> QED
    BY <2>1 DEF Counting, Touched
<1>4. Gated(p)'
  <2> SUFFICES ASSUME p.kind = "open"
               PROVE  /\ p.pc \in {"users", "write"} => \A v \in p.exempt \ p.changed : This \in excluded'[v]
                      /\ p.pc = "write" => \A v \in Units \ (p.exempt \cup p.changed) : v \in managed'
    BY DEF Gated
  <2>1. p.exempt \subseteq Units
    BY DEF Request
  <2> QED
    BY <1>1, <2>1 DEF Sound, Gated, Touched
<1>5. Listed(p)'
  <2>1. CASE q.kind \in Lists /\ q.pc = "write"
    <3>1. q.unit \in Units
      BY <1>1, <2>1 DEF Sound, Placed
    <3>2. excluded'[q.unit] = excluded[q.unit] \/ Replaced(q.unit)
      BY <3>1
    <3>3. Listed(q)'
      BY <1>1, <3>2, ListedStays DEF Sound
    <3> QED
      BY <3>3 DEF Listed, Touched, Changed
  <2>2. CASE ~(q.kind \in Lists /\ q.pc = "write")
    BY <2>2 DEF Listed, Touched
  <2> QED
    BY <2>1, <2>2
<1>6. (p.before \subseteq Committed)'
  BY <1>1 DEF Sound, Touched, Grows
<1> QED
  BY <1>2, <1>3, <1>4, <1>5, <1>6 DEF Sound

LEMMA RowsRest ==
    ASSUME IInv, Grows, UNCHANGED rows
    PROVE  RowsServe'
<1>1. \A s \in Requests, u \in Units : Passed(req[s], u) => Passed(req'[s], u)
  BY DEF Grows
<1> QED
  BY <1>1 DEF IInv, RowsServe, rows

LEMMA StaffStep ==
    ASSUME IInv, Staff
    PROVE  IInv'
<1>1. PICK u \in Units : managed' = (managed \ {u}) \cup ({u} \ managed) /\ req' = Touch(req, u)
  BY DEF Staff
<1>2. UNCHANGED <<cycle, excluded, rows, mailvars>> /\ moves' \in 0..MaxMoves
  BY OpenCycleAssumption DEF Staff, Elsewhere, IInv, TypeOK
<1>3. req \in [Requests -> Request]
  BY DEF IInv, TypeOK
<1>4. \A s \in Requests : req'[s] \in Request /\ Touched(req[s], req'[s], u)
  BY <1>1, <1>3, TouchIs
<1>5. req' \in [Requests -> Request]
  BY <1>1, <1>4 DEF Touch
<1>6. TypeOK'
  BY <1>1, <1>2, <1>5 DEF IInv, TypeOK, rows, mailvars, MailTypeOK
<1>7. Committed' = Committed
  BY <1>4 DEF Committed, Touched
<1>8. Grows
  <2>1. \A s \in Requests, v \in Units : Passed(req[s], v) => Passed(req'[s], v)
    BY <1>4, TouchedPasses
  <2>2. \A id \in Ids : served[id] <= served'[id]
    BY <1>2 DEF IInv, TypeOK, rows
  <2>3. \A s \in Requests :
          /\ req'[s].kind = req[s].kind /\ req'[s].generated = req[s].generated
          /\ req'[s].unit = req[s].unit /\ req'[s].about = req[s].about
          /\ req'[s].flag = req[s].flag /\ req'[s].wanted = req[s].wanted
          /\ req'[s].before = req[s].before /\ req'[s].over = req[s].over
    BY <1>4 DEF Touched
  <2> QED
    BY <1>2, <1>7, <2>1, <2>2, <2>3 DEF Grows, rows
<1>9. ASSUME NEW s \in Requests PROVE Sound(s, req[s])' /\ PostPlaced(s)'
  <2>1. PICK q \in Request : q = req[s]
    BY <1>3
  <2>2. PICK p \in Request : p = req'[s] /\ Touched(q, p, u)
    BY <1>4, <2>1
  <2>3. \A v \in Units \ {u} : excluded'[v] = excluded[v] /\ (v \in managed => v \in managed')
    BY <1>1, <1>2
  <2>4. Sound(s, p)'
    BY <1>2, <1>6, <1>8, <2>1, <2>2, <2>3, TouchedStays DEF rows
  <2>5. PostPlaced(s)'
    BY <1>2, <2>1, <2>2, RequestSound DEF PostPlaced, mailvars, Touched
  <2> QED
    BY <2>2, <2>4, <2>5
<1>10. RowsServe'
  BY <1>2, <1>8, RowsRest
<1>11. ListsHold'
  BY <1>2, <1>7, <1>8, ExclusionsStay
<1>12. MailInv'
  BY <1>2, <1>8, <1>9, MailsRest
<1> QED
  BY <1>6, <1>9, <1>10, <1>11, <1>12 DEF IInv

LEMMA MoveCycleStep ==
    ASSUME IInv, MoveCycle
    PROVE  IInv'
<1>1. /\ UNCHANGED <<admin, rows, req, mailvars>> /\ moves' \in 0..MaxMoves
      /\ cycle' \in {"draft", "open", "closed"}
  BY OpenCycleAssumption DEF MoveCycle, Elsewhere, IInv, TypeOK
<1>2. TypeOK'
  BY <1>1 DEF IInv, TypeOK, admin, rows, mailvars, MailTypeOK
<1>3. Grows /\ (\A r \in Requests : Sound(r, req[r])') /\ RowsServe' /\ ListsHold'
  BY <1>1, OwnRest DEF admin, rows
<1>4. \A s \in Requests : PostPlaced(s)'
  BY <1>1, RequestSound DEF PostPlaced, mailvars
<1>5. MailInv'
  BY <1>1, <1>3, <1>4, MailsRest
<1> QED
  BY <1>2, <1>3, <1>5 DEF IInv

\* A list is committed.  What no longer holds was undone by this commit, or
\* had been before it read the list.
LEMMA CommitListStep ==
    ASSUME IInv, NEW r \in Requests, CommitList(r)
    PROVE  IInv'
<1>1. PICK q \in Request : q = req[r] /\ Sound(r, q) /\ Placed(q) /\ PostPlaced(r)
  BY RequestSound
<1>2. /\ q.kind \in Lists /\ q.pc = "write" /\ ~q.committed
      /\ UNCHANGED <<cycle, managed, rows, moves, mailvars>>
  BY <1>1 DEF CommitList, At, Lists, Placed, Early
<1>3. PICK u \in Units : u = q.unit
  BY <1>1, <1>2 DEF Placed
<1>4. PICK new \in SUBSET Cycles : new = NewList(q)
  BY DEF NewList, Request
<1>5. excluded' = [excluded EXCEPT ![u] = IF new = q.list THEN excluded[u] ELSE new]
  BY <1>1, <1>3, <1>4 DEF CommitList
<1>6. /\ excluded' \in [Units -> SUBSET Cycles]
      /\ \A v \in Units \ {u} : excluded'[v] = excluded[v]
      /\ excluded'[u] = IF new = q.list THEN excluded[u] ELSE new
  BY <1>5 DEF IInv, TypeOK
<1>22. PICK over \in SUBSET Requests : over = IF new # q.list THEN Committed ELSE q.before
  BY DEF Committed, Request
<1>7. PICK p \in Request : p = [q EXCEPT !.pc = "done", !.committed = TRUE, !.over = over]
  BY DEF Request
<1>8. /\ p.kind = q.kind /\ p.pc = "done" /\ p.generated = q.generated /\ p.committed
      /\ p.before = q.before /\ p.unit = u /\ p.about = q.about /\ p.flag = q.flag
      /\ p.wanted = q.wanted /\ p.over = over
  BY <1>3, <1>7 DEF Request
<1>9. PICK f \in [Requests -> Request] : f = [req EXCEPT ![r] = p]
  BY DEF IInv, TypeOK
<1>10. req' = Touch(f, u)
  BY <1>1, <1>3, <1>4, <1>7, <1>9, <1>22 DEF CommitList
<1>11. /\ f[r] = p /\ \A s \in Requests \ {r} : f[s] = req[s]
  BY <1>9
<1>12. /\ req'[r] = p
       /\ \A s \in Requests \ {r} : req'[s] \in Request /\ Touched(req[s], req'[s], u)
  BY <1>2, <1>8, <1>10, <1>11, TouchIs DEF Lists
<1>13. req' \in [Requests -> Request]
  BY <1>10, <1>12 DEF Touch
<1>14. TypeOK'
  BY <1>2, <1>6, <1>13 DEF IInv, TypeOK, rows, mailvars, MailTypeOK
<1>15. Committed' = Committed \cup {r} /\ r \notin Committed
  BY <1>1, <1>2, <1>8, <1>12 DEF Committed, Touched
<1>16. Grows
  <2>1. \A v \in Units : ~Passed(q, v)
    BY <1>2 DEF Passed, Early
  <2>2. \A s \in Requests, v \in Units : Passed(req[s], v) => Passed(req'[s], v)
    BY <1>1, <1>12, <2>1, TouchedPasses
  <2>3. \A id \in Ids : served[id] <= served'[id]
    BY <1>2 DEF IInv, TypeOK, rows
  <2>4. \A s \in Requests : req'[s].kind = req[s].kind /\ req'[s].generated = req[s].generated
    BY <1>1, <1>8, <1>12 DEF Touched
  <2>5. \A s \in Requests \ {r} :
          /\ req'[s].unit = req[s].unit /\ req'[s].about = req[s].about
          /\ req'[s].flag = req[s].flag /\ req'[s].wanted = req[s].wanted
          /\ req'[s].before = req[s].before /\ req'[s].over = req[s].over
    BY <1>12 DEF Touched
  <2> QED
    BY <1>2, <1>15, <2>5, <2>2, <2>3, <2>4 DEF Grows, rows
<1>23. ASSUME NEW c \in Cycles
       PROVE  Covers(p, c) = Covers(q, c) /\ Wants(p, c) = Wants(q, c)
  BY <1>8 DEF Covers, Wants
<1>24. ASSUME NEW c \in Cycles, Covers(q, c) PROVE Wants(q, c) = (c \in new)
  <2>1. CASE q.kind = "patch"
    BY <1>4, <2>1 DEF NewList, Wants
  <2>2. CASE q.kind = "exclude"
    <3>1. q.about = c /\ q.flag \in BOOLEAN /\ Wants(q, c) = q.flag
      BY <1>24, <2>2 DEF Covers, Wants, Request
    <3>2. CASE q.flag = TRUE
      <4>1. c \in new
        BY <1>4, <2>2, <3>1, <3>2 DEF NewList
      <4> QED
        BY <3>1, <3>2, <4>1
    <3>3. CASE q.flag = FALSE
      <4>1. c \notin new
        BY <1>4, <2>2, <3>1, <3>3 DEF NewList
      <4> QED
        BY <3>1, <3>3, <4>1
    <3> QED
      BY <3>1, <3>2, <3>3
  <2> QED
    BY <1>2, <2>1, <2>2 DEF Lists
<1>17. excluded'[u] = excluded[u] \/ Replaced(u)
  <2>1. CASE new = q.list
    BY <1>6, <2>1
  <2>2. CASE new # q.list
    <3>1. excluded'[u] = new
      BY <1>6, <2>2
    <3>2. \A c \in Cycles : Covers(req'[r], c) => Wants(req'[r], c) = (c \in excluded'[u])
      BY <1>12, <1>23, <1>24, <3>1
    <3>3. r \in Committed' \ Committed /\ req'[r].unit = u /\ req'[r].kind \in Lists
      BY <1>2, <1>8, <1>12, <1>15
    <3> QED
      BY <3>2, <3>3 DEF Replaced
  <2> QED
    BY <2>1, <2>2
<1>18. ASSUME NEW s \in Requests PROVE Sound(s, req[s])' /\ PostPlaced(s)'
  <2>1. CASE s = r
    <3>1. Placed(p) /\ FilesKept(r, p)' /\ Counting(p)' /\ Gated(p)' /\ Listed(p)'
      BY <1>1, <1>2, <1>8 DEF Placed, FilesKept, Counting, Gated, Listed, Sound, Early, Lists, WithUnit, rows
    <3>2. Sound(r, p)'
      BY <1>1, <1>8, <1>15, <3>1 DEF Sound, Placed
    <3>3. PostPlaced(r)'
      BY <1>1, <1>2, <1>8, <1>12 DEF PostPlaced, mailvars, Lists
    <3> QED
      BY <1>12, <2>1, <3>2, <3>3
  <2>2. CASE s # r
    <3>1. PICK o \in Request : o = req[s]
      BY DEF IInv, TypeOK
    <3>2. PICK n \in Request : n = req'[s] /\ Touched(o, n, u)
      BY <1>12, <2>2, <3>1
    <3>3. \A v \in Units \ {u} : excluded'[v] = excluded[v] /\ (v \in managed => v \in managed')
      BY <1>2, <1>6
    <3>4. Sound(s, n)'
      BY <1>2, <1>14, <1>16, <1>17, <3>1, <3>2, <3>3, TouchedStays DEF rows
    <3>5. PostPlaced(s)'
      BY <1>2, <3>1, <3>2, RequestSound DEF PostPlaced, mailvars, Touched
    <3> QED
      BY <3>2, <3>4, <3>5
  <2> QED
    BY <2>1, <2>2
<1>19. RowsServe'
  BY <1>2, <1>16, RowsRest
<1>20. ASSUME NEW e \in Committed', NEW g \in Request, g = req'[e], g.kind \in Lists,
              NEW c \in Cycles, Covers(g, c), (c \in excluded'[g.unit]) # Wants(g, c)
       PROVE  Undone(e, c)'
  <2>1. CASE e = r
    <3>1. g = p /\ Covers(q, c) /\ Wants(g, c) = (c \in new) /\ g.unit = u
      BY <1>8, <1>12, <1>20, <1>23, <1>24, <2>1
    <3>2. new = q.list /\ excluded'[u] = excluded[u]
      BY <1>6, <1>20, <3>1
    <3>3. (c \in excluded[q.unit]) # (c \in q.list)
      BY <1>3, <1>20, <3>1, <3>2
    <3>4. PICK s \in Requests : Changed(s, q, c)
      BY <1>1, <1>2, <3>3 DEF Sound, Listed
    <3>5. s \in Committed /\ s # r /\ s \notin q.before /\ req[s].unit = u /\ req[s].kind \in Lists
      BY <1>3, <1>15, <3>4 DEF Changed
    <3>6. r \notin req[s].before
      BY <1>15, <3>5, RequestSound DEF Sound
    <3>7. /\ s \in Committed' /\ req'[s].kind = req[s].kind /\ req'[s].unit = u
          /\ req'[s].before = req[s].before
          /\ Covers(req'[s], c) = Covers(req[s], c) /\ Wants(req'[s], c) = Wants(req[s], c)
      BY <1>16, <3>5, ChangeStays
    <3>8. req'[r].over = q.before /\ req'[r].unit = u /\ Wants(req'[r], c) = (c \in q.list)
      BY <1>8, <1>12, <1>22, <2>1, <1>20, <3>1, <3>2
    <3>9. Covers(req'[s], c) => Wants(req'[s], c) # Wants(req'[r], c)
      BY <3>4, <3>7, <3>8 DEF Changed
    <3>10. Undoes(s, r, c)'
      BY <3>5, <3>6, <3>7, <3>8, <3>9 DEF Undoes, Covers, Lists
    <3> QED
      BY <2>1, <3>10 DEF Undone
  <2>2. CASE e # r
    <3>1. e \in Committed /\ e \in Requests
      BY <1>15, <2>2 DEF Committed
    <3>2. /\ req[e].kind \in Lists /\ req[e].unit = g.unit
          /\ Covers(req[e], c) /\ Wants(req[e], c) = Wants(g, c) /\ req'[e].over = req[e].over
      <4>1. req[e].kind \in Lists
        BY <1>16, <1>20, <3>1 DEF Grows
      <4> QED
        BY <1>16, <1>20, <3>1, <4>1, ChangeStays
    <3>3. ASSUME Undone(e, c) PROVE Undone(e, c)'
      BY <1>16, <3>1, <3>2, <3>3, UndoneStays
    <3>4. CASE excluded'[g.unit] = excluded[g.unit]
      <4>1. (c \in excluded[req[e].unit]) # Wants(req[e], c)
        BY <1>20, <3>2, <3>4
      <4>2. Undone(e, c)
        BY <3>1, <3>2, <4>1 DEF IInv, ListsHold, ExclusionsHold, Undone
      <4> QED
        BY <3>3, <4>2
    <3>5. CASE excluded'[g.unit] # excluded[g.unit]
      <4>1. g.unit = u /\ excluded'[u] = new /\ new # q.list
        <5>1. g.unit \in Units
          BY <3>1, <3>2, RequestSound DEF Placed, Committed
        <5> QED
          BY <1>6, <3>5, <5>1
      <4>2. r \in Committed' \ req'[e].over /\ req'[r].unit = req'[e].unit
        <5>1. req[e].over \subseteq Committed
          BY <3>1, <3>2 DEF IInv, ListsHold
        <5> QED
          BY <1>8, <1>12, <1>15, <1>20, <3>2, <4>1, <5>1
      <4>3. CASE Covers(q, c)
        <5>1. Covers(req'[r], c) /\ Wants(req'[r], c) = (c \in new)
          BY <1>12, <1>23, <1>24, <4>3
        <5>2. Wants(req'[r], c) # Wants(req'[e], c)
          BY <1>20, <4>1, <5>1
        <5>3. Undoes(r, e, c)'
          BY <4>2, <5>1, <5>2 DEF Undoes
        <5> QED
          BY <5>3 DEF Undone
      <4>4. CASE ~Covers(q, c) /\ e \notin q.before
        <5>1. req'[r].kind = "exclude" /\ ~Covers(req'[r], c) /\ e \notin req'[r].before
          BY <1>2, <1>8, <1>12, <1>23, <4>4 DEF Covers, Lists
        <5>2. Undoes(r, e, c)'
          BY <4>2, <5>1 DEF Undoes
        <5> QED
          BY <5>2 DEF Undone
      <4>5. CASE ~Covers(q, c) /\ e \in q.before
        <5>1. q.kind = "exclude" /\ q.about # c
          BY <1>2, <4>5 DEF Covers, Lists
        <5>2. (c \in new) = (c \in q.list)
          BY <1>4, <5>1 DEF NewList
        <5>3. (c \in q.list) # Wants(req[e], c) /\ req[e].unit = q.unit
          BY <1>3, <1>20, <3>2, <4>1, <5>2
        <5>4. Undone(e, c)
          BY <1>1, <1>2, <3>2, <4>5, <5>3 DEF Sound, Listed
        <5> QED
          BY <3>3, <5>4
      <4> QED
        BY <4>3, <4>4, <4>5
    <3> QED
      BY <3>4, <3>5
  <2> QED
    BY <2>1, <2>2
<1>25. ExclusionsHold'
  <2>1. \A e \in Committed' : req'[e] \in Request
    BY <1>13 DEF Committed
  <2> QED
    BY <1>20, <2>1 DEF ExclusionsHold, Undone
<1>26. ASSUME NEW e \in Committed', req'[e].kind \in Lists PROVE req'[e].over \subseteq Committed'
  <2>1. CASE e = r
    BY <1>1, <1>8, <1>12, <1>15, <1>22, <2>1 DEF Sound
  <2>2. CASE e # r
    <3>1. e \in Committed /\ e \in Requests
      BY <1>15, <2>2 DEF Committed
    <3>2. req[e].kind \in Lists
      BY <1>16, <1>26, <3>1 DEF Grows
    <3>3. req[e].over \subseteq Committed /\ req'[e].over = req[e].over
      BY <1>16, <3>1, <3>2, ChangeStays DEF IInv, ListsHold
    <3> QED
      BY <1>15, <3>3
  <2> QED
    BY <2>1, <2>2
<1>27. ListsHold'
  BY <1>25, <1>26 DEF ListsHold
<1>21. MailInv'
  BY <1>2, <1>16, <1>18, MailsRest
<1> QED
  BY <1>14, <1>18, <1>19, <1>21, <1>27 DEF IInv
-----------------------------------------------------------------------------
LEMMA IdleIs ==
    ASSUME NEW k \in Kinds
    PROVE  /\ Idle(k) \in Request /\ Idle(k).kind = k /\ Idle(k).pc = "idle" /\ ~Idle(k).committed
           /\ Idle(k).todo = {} /\ Idle(k).generated = {} /\ Idle(k).before = {}
BY OpenCycleAssumption DEF Idle, Request

LEMMA NoPostIs ==
    ASSUME NEW k \in PostKinds
    PROVE  /\ NoPost(k) \in Post /\ NoPost(k).kind = k /\ NoPost(k).pc = "idle"
           /\ NoPost(k).todo = {} /\ NoPost(k).tx = {}
BY DEF NoPost, Post

LEMMA InitSound ==
    Init => IInv
<1> SUFFICES ASSUME Init PROVE IInv
  OBVIOUS
<1>1. \A r \in Requests :
        /\ req[r] \in Request /\ req[r].pc = "idle" /\ ~req[r].committed
        /\ req[r].todo = {} /\ req[r].generated = {} /\ req[r].before = {}
  BY IdleIs DEF Init
<1>2. \A r \in Requests :
        /\ post[r] \in Post /\ post[r].pc = "idle" /\ post[r].todo = {} /\ post[r].tx = {}
        /\ post[r].kind # "none" => req[r].kind = "none"
  BY NoPostIs DEF Init
<1>3. Committed = {}
  BY <1>1 DEF Committed
<1>4. PICK row \in Template : row = [by |-> Earlier, good |-> TRUE, count |-> 1]
  BY DEF Template
<1>5. row.by = Earlier /\ row.good /\ row.count = 1
  BY <1>4
<1>6. templates \in [Units -> {NULL, row}]
  BY <1>4 DEF Init
<1>7. files \subseteq Ids /\ \A id \in files : id[1] = Earlier
  BY DEF Init, Ids
<1>8. served \in [Ids -> Nat] /\ \A id \in Ids : served[id] = IF id \in files THEN 1 ELSE 0
  BY DEF Init
<1>9. TypeOK
  <2>1. req \in [Requests -> Request] /\ post \in [Requests -> Post]
    BY <1>1, <1>2 DEF Init
  <2>2. notes \in [Ids -> Statuses \cup {NULL}] /\ mails = {} /\ resubmits = {} /\ noted = {}
    BY DEF Init, MailInit, Statuses
  <2>3. templates \in [Units -> {NULL} \cup Template]
    BY <1>6
  <2> QED
    BY <1>7, <1>8, <2>1, <2>2, <2>3, OpenCycleAssumption DEF Init, TypeOK, MailTypeOK
<1>10. ASSUME NEW r \in Requests PROVE Sound(r, req[r])
  <2>1. Placed(req[r]) /\ FilesKept(r, req[r]) /\ Counting(req[r]) /\ Gated(req[r]) /\ Listed(req[r])
    BY <1>1 DEF Placed, FilesKept, Counting, Gated, Listed, WithUnit, Early, Lists
  <2> QED
    BY <1>1, <2>1 DEF Sound
<1>11. RowsServe
  <2>1. ASSUME NEW u \in Units, templates[u] # NULL
        PROVE  /\ templates[u].by = Earlier /\ templates[u].count = 1
               /\ <<Earlier, u>> \in files /\ served[<<Earlier, u>>] = 1
    <3>1. templates[u] = row
      BY <1>6, <2>1
    <3>2. <<Earlier, u>> \in files /\ <<Earlier, u>> \in Ids
      BY <2>1 DEF Init, Ids
    <3> QED
      BY <1>5, <1>8, <3>1, <3>2
  <2>2. ASSUME NEW s \in Requests, NEW u \in Units PROVE served[<<s, u>>] = 0
    <3>1. <<s, u>> \in Ids /\ <<s, u>> \notin files
      BY <1>7, NotificationsAssumption DEF Ids
    <3> QED
      BY <1>8, <3>1
  <2>3. \A u \in Units :
          templates[u] # NULL /\ templates[u].good =>
            /\ <<templates[u].by, u>> \in files
            /\ templates[u].count <= served[<<templates[u].by, u>>]
            /\ templates[u].count = 0 => served[<<templates[u].by, u>>] = 0
            /\ templates[u].by \in Requests => Passed(req[templates[u].by], u)
    <3> TAKE u \in Units
    <3> HAVE templates[u] # NULL /\ templates[u].good
    <3>1. PICK c \in Nat, n \in Nat : c = templates[u].count /\ c = 1 /\ n = served[<<Earlier, u>>] /\ n = 1
      BY <2>1
    <3>2. c <= n /\ c # 0
      BY <3>1
    <3> QED
      BY <2>1, <3>1, <3>2, NotificationsAssumption
  <2> QED
    BY <2>2, <2>3 DEF RowsServe
<1>12. ListsHold
  BY <1>3 DEF ListsHold, ExclusionsHold
<1>13. MailInv
  <2>1. \A id \in Ids : notes[id] # NULL => id[1] = Earlier /\ notes[id] = "failed"
    BY DEF Init, MailInit
  <2>2. NotesBacked
    BY <2>1, NotificationsAssumption DEF NotesBacked, Justified
  <2>3. \A r \in Requests : PostSound(post[r]) /\ PostPlaced(r)
    BY <1>2 DEF PostSound, PostPlaced
  <2> QED
    BY <2>2, <2>3 DEF MailInv, Init, MailInit
<1> QED
  BY <1>9, <1>10, <1>11, <1>12, <1>13 DEF IInv

LEMMA NextSound ==
    IInv /\ [Next]_vars => IInv'
<1> SUFFICES ASSUME IInv, [Next]_vars PROVE IInv'
  OBVIOUS
<1>1. ASSUME NEW r \in Requests,
             \/ ReadCycle(r) \/ ReadUnits(r) \/ ReadUsers(r) \/ CommitOpen(r)
             \/ regenerate(r) \/ Save(r) \/ Delete(r) \/ Insert(r) \/ AuditRow(r)
             \/ GenerationFails(r) \/ InsertError(r) \/ ErrorFails(r)
             \/ Dispatch(r) \/ Respond(r) \/ Remind(r)
             \/ ReadTemplate(r) \/ CountDownload(r)
             \/ ReadUnit(r) \/ CommitList(r)
             \/ Fail(r)
      PROVE  IInv'
  BY <1>1, ReadCycleStep, ReadUnitsStep, ReadUsersStep, CommitOpenStep, RegenerateStep, SaveStep,
     DeleteStep, InsertStep, AuditRowStep, GenerationFailsStep, InsertErrorStep, ErrorFailsStep,
     DispatchStep, RespondStep, RemindStep, ReadTemplateStep, CountDownloadStep, ReadUnitStep,
     CommitListStep, FailStep
<1>2. ASSUME NEW r \in Requests, UNCHANGED <<cycle, admin, rows, moves, req>>,
             confirm(r) \/ create(r) \/ resend(r) \/ send(r) \/ CommitPost(r) \/ FailPost(r)
      PROVE  IInv'
  BY <1>2, ConfirmStep, CreateStep, ResendStep, SendStep, CommitPostStep, FailPostStep
<1>3. CASE UNCHANGED vars
  <2>1. TypeOK'
    BY <1>3 DEF IInv, TypeOK, vars, mailvars, MailTypeOK
  <2>2. Grows /\ (\A r \in Requests : Sound(r, req[r])') /\ RowsServe' /\ ListsHold'
    BY <1>3, OwnRest DEF vars
  <2>3. \A r \in Requests : PostPlaced(r)'
    BY <1>3, RequestSound DEF PostPlaced, vars, mailvars
  <2>4. MailInv'
    BY <1>3, <2>2, <2>3, MailsRest DEF vars
  <2> QED
    BY <2>1, <2>2, <2>4 DEF IInv
<1> QED
  BY <1>1, <1>2, <1>3, StaffStep, MoveCycleStep DEF Next, MailNext

LEMMA AlwaysSound ==
    Spec => []IInv
<1>1. Init => IInv
  BY InitSound
<1>2. IInv /\ [Next]_vars => IInv'
  BY NextSound
<1> QED
  BY <1>1, <1>2, PTL DEF Spec

(* Every table and every request keeps its type; a count stays a number    *)
(* whatever downloads and generations meet.                                *)
THEOREM TypeCorrect == Spec => []TypeOK
<1>1. IInv => TypeOK
  BY DEF IInv
<1> QED
  BY <1>1, AlwaysSound, PTL

(* CR-008 of cycles/service.py:open: what the gate has read still holds    *)
(* when the opening is committed, but for the units an administrator has   *)
(* changed since.                                                          *)
THEOREM TheGateHolds == Spec => []GateHolds
<1>1. ASSUME IInv PROVE GateHolds
  <2> SUFFICES ASSUME NEW r \in Requests, req[r].kind = "open", req[r].pc = "write",
                      NEW u \in Units \ req[r].changed
               PROVE  This \in excluded[u] \/ u \in managed
    BY DEF GateHolds, At
  <2>1. Gated(req[r])
    BY <1>1, RequestSound DEF Sound
  <2> QED
    BY <2>1 DEF Gated
<1> QED
  BY <1>1, AlwaysSound, PTL

(* exclusions.py:apply_exclusion and the patch of a unit write a list that *)
(* was read before: what the last of them says of a cycle holds, and is    *)
(* lost to a later one only, that says the contrary or that is about       *)
(* another cycle and had read the list too early.                          *)
THEOREM ExclusionsAreKept == Spec => []ExclusionsHold
<1>1. IInv => ExclusionsHold
  BY DEF IInv, ListsHold
<1> QED
  BY <1>1, AlwaysSound, PTL

(* templates/service.py:download has a file for every row it offers, and   *)
(* its counter, read and written without a lock, never counts more than    *)
(* there was, nor nothing where there was something.                       *)
THEOREM TemplatesAreServed == Spec => []TemplatesServe
<1>1. IInv => TemplatesServe
  BY DEF IInv, RowsServe, TemplatesServe
<1> QED
  BY <1>1, AlwaysSound, PTL

(* Whoever is told that the cycle was opened has his template, a           *)
(* resubmission asked for is on record (CR-007), and a row that says sent  *)
(* stands for a mail that is out.                                          *)
THEOREM MailsTellTruth == Spec => []MailsTellTheTruth
<1>1. ASSUME IInv PROVE MailsTellTheTruth
  <2>1. /\ \A id \in mails : Justified(id)
        /\ NotesBacked
    BY <1>1 DEF IInv, MailInv
  <2>2. MailsAreBacked
    BY <2>1 DEF MailsAreBacked, NotesBacked, Justified
  <2> QED
    BY <2>1, <2>2 DEF MailsTellTheTruth, Justified
<1> QED
  BY <1>1, AlwaysSound, PTL
=============================================================================
