------------------------ MODULE UploadPipelineProofs ------------------------
(***************************************************************************)
(* The safety of UploadPipeline, and that it implements VersionLog, for    *)
(* every number of sessions, series and documents.                         *)
(***************************************************************************)
EXTENDS UploadPipeline, SequenceTheorems, TLAPS

LEMMA InitType == Init => TypeOK
  BY DEF Init, C!Init, C!CycleState, TypeOK

LEMMA RequestType ==
    ASSUME TypeOK
    PROVE  /\ \A s \in UnderWay : s \in Sessions /\ req[s] \in Running
           /\ \A s \in Sessions : req[s].pc \in Phases => s \in UnderWay
  BY DEF TypeOK, UnderWay, Idle, Phases

LEMMA TopsKept ==
    ASSUME TopsExist, \A k \in Series : Of(k)' = Of(k)
    PROVE  TopsExist'
  BY DEF TopsExist, IsMax

\* Where the handlers are before each step.
LEMMA ReachesFrom ==
    ASSUME TypeOK, NEW s \in Sessions
    PROVE  /\ Reaches(s, "compared") => req[s].pc = "checked"
           /\ Reaches(s, "saved") => req[s].pc \in {"checked", "compared"}
           /\ Reaches(s, "numbered") => req[s].pc = "saved"
           /\ Reaches(s, "auditing") => req[s].pc = "numbered"
           /\ \A p : Reaches(s, p) => s \in UnderWay /\ req[s] \in Running
<1>1. ASSUME NEW p, Reaches(s, p)
      PROVE  /\ s \in UnderWay /\ req[s] \in Running
             /\ <<req[s].pc, p>> \in BudgetSteps \cup PersonnelSteps \cup SharedCostSteps
  <2>1. s \in UnderWay /\ req[s] \in Running
    BY <1>1, RequestType DEF Reaches
  <2>2. KindOf[req[s].series] \in {"budget", "personnel", "shared"}
    BY <2>1, UploadAssumption DEF Running
  <2> QED  BY <1>1, <2>1, <2>2 DEF Reaches, StepsOf
<1> QED  BY <1>1 DEF BudgetSteps, PersonnelSteps, SharedCostSteps

\* A request takes a step: what it holds in memory changes, and perhaps its
\* file is saved.
LEMMA AdvanceStep ==
    ASSUME IInv, NEW s \in UnderWay, NEW new \in Running,
           req' = [req EXCEPT ![s] = new],
           new.series = req[s].series, new.doc = req[s].doc,
           status' = status, uploads' = uploads, audited' = audited, admitted' = admitted,
           files \subseteq files', files' \subseteq files \cup {new.doc},
           req[s].pc # "auditing", new.pc # "auditing",
           new.pc \in {"checked", "compared"} <=> new.doc \notin files',
           new.base # 0 => \E u \in Of(new.series) : u.version = new.base,
           new.pc = "numbered" => /\ new.version \in Versions
                                  /\ new.base < new.version
                                  /\ Filled(new.series, new.version)
    PROVE  IInv'
<1>1. s \in Sessions /\ req \in [Sessions -> Running \cup {Idle}] /\ new.pc # "idle"
  BY RequestType DEF IInv, TypeOK, Running, Phases
<1>2. /\ req'[s] = new
      /\ \A t \in Sessions : t # s => req'[t] = req[t]
  BY <1>1
<1>3. UnderWay' = UnderWay
  BY <1>1, <1>2 DEF UnderWay
<1>4. /\ \A t \in UnderWay : req'[t].doc = req[t].doc /\ req'[t].series = req[t].series
      /\ \A k : Of(k)' = Of(k)
      /\ UnderWay \subseteq Sessions
  BY <1>2 DEF UnderWay, Of
<1>5. TypeOK'
  BY <1>1 DEF IInv, TypeOK, Running
<1>6. DocsDistinct'
  BY <1>3, <1>4 DEF IInv, DocsDistinct
<1>7. DocsFollowRequests'
  <2>1. \A u \in uploads' : u.doc \in files'
    BY DEF IInv, DocsFollowRequests
  <2>2. ASSUME NEW t \in UnderWay
        PROVE  /\ req'[t].pc \in {"checked", "compared"} <=> req'[t].doc \notin files'
               /\ req'[t].pc = "auditing" <=> \E u \in uploads' : u.doc = req'[t].doc
    <3>1. CASE t = s
      <4>1. ~ \E u \in uploads : u.doc = new.doc
        BY DEF IInv, DocsFollowRequests
      <4> QED  BY <3>1, <4>1, <1>2
    <3>2. CASE t # s
      <4>1. req'[t] = req[t] /\ req[t].doc # new.doc
        BY <3>2, <1>2, <1>4 DEF IInv, DocsDistinct
      <4>2. req[t].doc \in files' <=> req[t].doc \in files
        BY <4>1
      <4> QED  BY <4>1, <4>2 DEF IInv, DocsFollowRequests
    <3> QED  BY <3>1, <3>2
  <2> QED  BY <2>1, <2>2, <1>3 DEF DocsFollowRequests
<1>8. VersionsUnique' /\ AuditTellsOnlyCommitted' /\ ComparedWithEarlier'
  BY <1>4 DEF IInv, VersionsUnique, AuditTellsOnlyCommitted, ComparedWithEarlier
<1>9. VersionsDense'
  <2>1. \A k, n : Filled(k, n)' <=> Filled(k, n)
    BY <1>4 DEF Filled
  <2>2. \A t \in UnderWay : req'[t].pc = "numbered" =>
          /\ req'[t].version \in Versions /\ req'[t].base < req'[t].version
          /\ Filled(req'[t].series, req'[t].version)
    BY <1>2, <1>4 DEF IInv, VersionsDense
  <2> QED  BY <2>1, <2>2, <1>3 DEF IInv, VersionsDense
<1>10. BasesExist'
  BY <1>2, <1>3, <1>4 DEF IInv, BasesExist
<1>11. ClosedCycleAdmitsNoNewWork'
  <2>1. \A c : DocsOf(c)' = DocsOf(c)
    BY <1>3, <1>4 DEF DocsOf
  <2> QED  BY <2>1 DEF IInv, ClosedCycleAdmitsNoNewWork
<1>12. TopsExist'
  BY <1>4, TopsKept DEF IInv
<1> QED  BY <1>5, <1>6, <1>7, <1>8, <1>9, <1>10, <1>11, <1>12 DEF IInv

LEMMA ReadLatestStep ==
    ASSUME IInv, NEW s \in Sessions, ReadLatest(s)
    PROVE  IInv'
<1>1. s \in UnderWay /\ req[s] \in Running /\ req[s].pc = "checked"
  BY ReachesFrom DEF IInv, ReadLatest
<1>2. PICK n \in Versions \cup {0} :
        /\ IsMax(n, req[s].series)
        /\ req' = [req EXCEPT ![s] = [req[s] EXCEPT !.pc = "compared", !.base = n]]
  BY DEF ReadLatest, IInv, TypeOK
<1> DEFINE new == [req[s] EXCEPT !.pc = "compared", !.base = n]
<1>3. /\ new \in Running /\ new.series = req[s].series /\ new.doc = req[s].doc
      /\ new.pc = "compared" /\ new.base = n
  BY <1>1 DEF Running, Phases
<1>4. n # 0 => \E u \in Of(req[s].series) : u.version = n
  BY <1>2 DEF IsMax
<1>5. req[s].doc \notin files
  BY <1>1 DEF IInv, DocsFollowRequests
<1>6. req' = [req EXCEPT ![s] = new]
  BY <1>2
<1> HIDE DEF new
<1> QED
  BY <1>1, <1>3, <1>4, <1>5, <1>6, AdvanceStep DEF ReadLatest

LEMMA SaveFileStep ==
    ASSUME IInv, NEW s \in Sessions, SaveFile(s)
    PROVE  IInv'
<1>1. s \in UnderWay /\ req[s] \in Running /\ req[s].pc \in {"checked", "compared"}
  BY ReachesFrom DEF IInv, SaveFile
<1> DEFINE new == [req[s] EXCEPT !.pc = "saved"]
<1>2. req' = [req EXCEPT ![s] = new] /\ files' = files \cup {req[s].doc}
  BY DEF SaveFile, IInv, TypeOK
<1>3. /\ new \in Running /\ new.series = req[s].series /\ new.doc = req[s].doc
      /\ new.pc = "saved" /\ new.base = req[s].base
  BY <1>1 DEF Running, Phases
<1>4. new.base # 0 => \E u \in Of(new.series) : u.version = new.base
  BY <1>1, <1>3 DEF IInv, BasesExist
<1> HIDE DEF new
<1> QED
  BY <1>1, <1>2, <1>3, <1>4, AdvanceStep DEF SaveFile

\* MAX(version) + 1 leaves no gap below it, and is above the version a shared
\* cost import was compared with.
LEMMA NextVersionStep ==
    ASSUME IInv, NEW s \in Sessions, next_version(s)
    PROVE  IInv'
<1>1. s \in UnderWay /\ req[s] \in Running /\ req[s].pc = "saved"
  BY ReachesFrom DEF IInv, next_version
<1> DEFINE k == req[s].series
<1>2. PICK n \in Versions \cup {0} :
        /\ IsMax(n, k) /\ n + 1 \in Versions
        /\ req' = [req EXCEPT ![s] = [req[s] EXCEPT !.pc = "numbered", !.version = n + 1]]
  BY DEF next_version, IInv, TypeOK
<1> DEFINE new == [req[s] EXCEPT !.pc = "numbered", !.version = n + 1]
<1>3. /\ new \in Running /\ new.series = k /\ new.doc = req[s].doc
      /\ new.pc = "numbered" /\ new.base = req[s].base /\ new.version = n + 1
  BY <1>1, <1>2 DEF Running, Phases
<1>4. n \in Nat /\ req[s].base \in Nat
  BY <1>1, UploadAssumption DEF Versions, Running
<1>5. new.base # 0 => \E u \in Of(k) : u.version = new.base
  BY <1>1, <1>3 DEF IInv, BasesExist
<1>6. new.base < n + 1
  BY <1>2, <1>3, <1>4, <1>5 DEF IsMax
<1>7. Filled(k, n + 1)
  <2> SUFFICES ASSUME NEW m \in 1..n PROVE \E u \in Of(k) : u.version = m
    BY <1>4 DEF Filled
  <2>1. PICK u \in Of(k) : u.version = n
    BY <1>2, <1>4 DEF IsMax
  <2>2. Filled(k, n)
    BY <2>1 DEF IInv, VersionsDense, Of
  <2> QED  BY <1>4, <2>1, <2>2 DEF Filled
<1>8. req[s].doc \in files
  BY <1>1 DEF IInv, DocsFollowRequests
<1>9. req' = [req EXCEPT ![s] = new]
  BY <1>2
<1> HIDE DEF new
<1> QED
  BY <1>1, <1>2, <1>3, <1>5, <1>6, <1>7, <1>8, <1>9, AdvanceStep DEF next_version

LEMMA AssertOpenStep ==
    ASSUME IInv, NEW s \in Sessions, NEW k \in Series, AssertOpen(s, k)
    PROVE  IInv'
<1>1. PICK d \in Docs \ Sent :
        req' = [req EXCEPT ![s] = [pc |-> "checked", series |-> k, doc |-> d,
                                   base |-> 0, version |-> 0]]
  BY DEF AssertOpen
<1> DEFINE new == [pc |-> "checked", series |-> k, doc |-> d, base |-> 0, version |-> 0]
<1>2. /\ new \in Running /\ new.pc = "checked" /\ new.series = k /\ new.doc = d
      /\ new.base = 0
  BY DEF Running, Phases
<1>3. /\ s \notin UnderWay /\ req'[s] = new /\ UnderWay' = UnderWay \cup {s}
      /\ \A t \in UnderWay : req'[t] = req[t]
  BY <1>1 DEF AssertOpen, IInv, TypeOK, UnderWay
<1>4. /\ status' = status /\ uploads' = uploads /\ files' = files
      /\ audited' = audited /\ admitted' = admitted /\ status[CycleOf[k]] = "open"
  BY DEF AssertOpen
<1>5. d \notin files /\ (\A t \in UnderWay : req[t].doc # d)
  BY <1>1 DEF Sent
<1>6. ~ \E u \in uploads : u.doc = d
  BY <1>5 DEF IInv, DocsFollowRequests
<1>7. \A j : Of(j)' = Of(j)
  BY <1>4 DEF Of
<1> HIDE DEF new
<1>8. TypeOK'
  BY <1>1, <1>2, <1>4 DEF IInv, TypeOK, new
<1>9. DocsDistinct'
  BY <1>2, <1>3, <1>4, <1>5 DEF IInv, DocsDistinct
<1>10. DocsFollowRequests'
  BY <1>2, <1>3, <1>4, <1>5, <1>6 DEF IInv, DocsFollowRequests
<1>11. VersionsUnique' /\ AuditTellsOnlyCommitted' /\ ComparedWithEarlier'
  BY <1>4, <1>7 DEF IInv, VersionsUnique, AuditTellsOnlyCommitted, ComparedWithEarlier
<1>12. VersionsDense'
  <2>1. \A j, n : Filled(j, n)' <=> Filled(j, n)
    BY <1>7 DEF Filled
  <2> QED  BY <2>1, <1>2, <1>3, <1>4 DEF IInv, VersionsDense
<1>13. BasesExist'
  BY <1>2, <1>3, <1>7 DEF IInv, BasesExist
<1>14. ClosedCycleAdmitsNoNewWork'
  <2> SUFFICES ASSUME NEW c \in Cycles, status[c] = "closed"
               PROVE  DocsOf(c)' \subseteq admitted[c]
    BY <1>4 DEF ClosedCycleAdmitsNoNewWork
  <2>1. DocsOf(c)' = DocsOf(c)
    BY <1>2, <1>3, <1>4 DEF DocsOf
  <2> QED  BY <2>1 DEF IInv, ClosedCycleAdmitsNoNewWork
<1>15. TopsExist'
  BY <1>7, TopsKept DEF IInv
<1> QED  BY <1>8, <1>9, <1>10, <1>11, <1>12, <1>13, <1>14, <1>15 DEF IInv

\* What the commit of an upload does: one row, above all the rows of its
\* series, for a document that no row had.
LEMMA PersistFacts ==
    ASSUME IInv, NEW s \in Sessions, Persist(s)
    PROVE  LET r == req[s]
               row == [series |-> r.series, version |-> r.version,
                       doc |-> r.doc, base |-> r.base]
           IN  /\ s \in UnderWay /\ r \in Running /\ r.pc = "numbered"
               /\ row \in Upload /\ uploads' = uploads \cup {row}
               /\ \A u \in uploads : u.doc # r.doc
               /\ \A u \in Of(r.series) : u.version < r.version
               /\ Filled(r.series, r.version) /\ r.base < r.version
<1> DEFINE r == req[s]
<1>1. s \in UnderWay /\ r \in Running /\ r.pc = "numbered"
  BY ReachesFrom DEF IInv, Persist
<1>2. /\ r.version \in Versions /\ r.base < r.version /\ Filled(r.series, r.version)
      /\ \A u \in uploads : u.doc # r.doc
  BY <1>1 DEF IInv, VersionsDense, DocsFollowRequests
<1>3. \A u \in Of(r.series) : u.version < r.version
  <2> SUFFICES ASSUME NEW u \in Of(r.series), ~ (u.version < r.version)
               PROVE  FALSE
    OBVIOUS
  <2>1. u \in uploads /\ u.series = r.series /\ u.version \in Nat /\ r.version \in Nat
        /\ r.version >= 1
    BY <1>2, UploadAssumption DEF Of, IInv, TypeOK, Upload, Versions
  <2>2. u.version # r.version
    BY DEF Persist, VersionFree
  <2>3. r.version \in 1..u.version - 1
    BY <2>1, <2>2
  <2>4. \E v \in Of(r.series) : v.version = r.version
    BY <2>1, <2>3 DEF IInv, VersionsDense, Filled
  <2> QED  BY <2>4 DEF Persist, VersionFree
<1> QED  BY <1>1, <1>2, <1>3 DEF Persist, Running, Upload

LEMMA PersistStep ==
    ASSUME IInv, NEW s \in Sessions, Persist(s)
    PROVE  IInv'
<1> DEFINE r == req[s]
           row == [series |-> r.series, version |-> r.version,
                   doc |-> r.doc, base |-> r.base]
           new == [r EXCEPT !.pc = "auditing"]
<1>1. /\ s \in UnderWay /\ r \in Running /\ r.pc = "numbered"
      /\ row \in Upload /\ uploads' = uploads \cup {row}
      /\ \A u \in uploads : u.doc # r.doc
      /\ \A u \in Of(r.series) : u.version < r.version
      /\ Filled(r.series, r.version) /\ r.base < r.version
  BY PersistFacts
<1>2. /\ row.series = r.series /\ row.version = r.version /\ row.doc = r.doc
      /\ row.base = r.base
  OBVIOUS
<1>3. /\ new \in Running /\ new.series = r.series /\ new.doc = r.doc /\ new.base = r.base
      /\ new.pc = "auditing"
  BY <1>1 DEF Running, Phases
<1>4. req' = [req EXCEPT ![s] = new]
  BY DEF Persist, IInv, TypeOK
<1>5. /\ status' = status /\ files' = files /\ audited' = audited /\ admitted' = admitted
  BY DEF Persist
<1> HIDE DEF row, new
<1>6. /\ req'[s] = new /\ UnderWay' = UnderWay
      /\ \A t \in UnderWay : t # s => req'[t] = req[t] /\ req[t].doc # r.doc
      /\ \A t \in UnderWay : req'[t].doc = req[t].doc /\ req'[t].series = req[t].series
                             /\ req'[t].base = req[t].base
  BY <1>1, <1>3, <1>4 DEF IInv, TypeOK, UnderWay, DocsDistinct
<1>7. \A k : Of(k) \subseteq Of(k)'
  BY <1>1 DEF Of
<1>8. TypeOK'
  BY <1>1, <1>3, <1>4, <1>5 DEF IInv, TypeOK
<1>9. DocsDistinct'
  BY <1>1, <1>2, <1>6 DEF IInv, DocsDistinct
<1>10. DocsFollowRequests'
  <2>1. r.doc \in files
    BY <1>1 DEF IInv, DocsFollowRequests
  <2>2. ASSUME NEW t \in UnderWay
        PROVE  /\ req'[t].pc \in {"checked", "compared"} <=> req'[t].doc \notin files'
               /\ req'[t].pc = "auditing" <=> \E u \in uploads' : u.doc = req'[t].doc
    <3>1. CASE t = s
      BY <3>1, <2>1, <1>1, <1>2, <1>3, <1>5, <1>6
    <3>2. CASE t # s
      BY <3>2, <1>1, <1>2, <1>5, <1>6 DEF IInv, DocsFollowRequests
    <3> QED  BY <3>1, <3>2
  <2> QED  BY <2>1, <2>2, <1>1, <1>2, <1>5, <1>6 DEF IInv, DocsFollowRequests
<1>11. VersionsUnique'
  <2>1. \A u \in uploads : u.series = r.series => u.version # r.version
    BY <1>1, UploadAssumption DEF Of, IInv, TypeOK, Upload, Versions, Running
  <2> QED  BY <2>1, <1>1, <1>2 DEF IInv, VersionsUnique
<1>12. VersionsDense'
  <2>1. \A k, n : Filled(k, n) => Filled(k, n)'
    BY <1>7 DEF Filled
  <2>2. \A u \in uploads' : Filled(u.series, u.version)'
    BY <2>1, <1>1, <1>2 DEF IInv, VersionsDense
  <2>3. \A t \in UnderWay : req'[t].pc = "numbered" => t # s
    BY <1>3, <1>6
  <2> QED  BY <2>1, <2>2, <2>3, <1>6 DEF IInv, VersionsDense
<1>13. BasesExist'
  BY <1>6, <1>7 DEF IInv, BasesExist
<1>14. ClosedCycleAdmitsNoNewWork'
  <2> SUFFICES ASSUME NEW c \in Cycles, status[c] = "closed"
               PROVE  DocsOf(c)' \subseteq admitted[c]
    BY <1>5 DEF ClosedCycleAdmitsNoNewWork
  <2>1. DocsOf(c)' \subseteq DocsOf(c)
    BY <1>1, <1>2, <1>6 DEF DocsOf
  <2> QED  BY <2>1 DEF IInv, ClosedCycleAdmitsNoNewWork
<1>15. AuditTellsOnlyCommitted'
  BY <1>1, <1>5 DEF IInv, AuditTellsOnlyCommitted
<1>16. ComparedWithEarlier'
  <2>1. r.base # 0 => \E u \in Of(r.series) : u.version = r.base
    BY <1>1 DEF IInv, BasesExist
  <2> QED  BY <2>1, <1>1, <1>2, <1>7 DEF IInv, ComparedWithEarlier
<1>17. TopsExist'
  <2> SUFFICES ASSUME NEW k \in Series
               PROVE  \E n \in Versions \cup {0} : IsMax(n, k)'
    BY DEF TopsExist
  <2>1. CASE k = r.series
    <3>1. Of(k)' = Of(k) \cup {row}
      BY <2>1, <1>1, <1>2 DEF Of
    <3>2. PICK n \in Versions : n = row.version
      BY <1>1 DEF Upload
    <3>3. \A u \in Of(k) : u.version \in Nat
      BY UploadAssumption DEF Of, IInv, TypeOK, Upload, Versions
    <3>4. IsMax(n, k)'
      BY <2>1, <3>1, <3>2, <3>3, <1>1, <1>2, UploadAssumption DEF IsMax, Versions
    <3> QED  BY <3>4
  <2>2. CASE k # r.series
    <3>1. Of(k)' = Of(k)
      BY <2>2, <1>1, <1>2 DEF Of
    <3> QED  BY <3>1 DEF IInv, TopsExist, IsMax
  <2> QED  BY <2>1, <2>2
<1> QED  BY <1>8, <1>9, <1>10, <1>11, <1>12, <1>13, <1>14, <1>15, <1>16, <1>17 DEF IInv

LEMMA EndStep ==
    ASSUME IInv, NEW s \in Sessions, Finish(s) \/ Fail(s)
    PROVE  IInv'
<1>1. s \in UnderWay /\ req[s] \in Running
  BY RequestType DEF IInv, Finish, Fail, UnderWay
<1>2. /\ UnderWay' = UnderWay \ {s}
      /\ \A t \in UnderWay : t # s => req'[t] = req[t]
  BY DEF Finish, Fail, Idle, IInv, TypeOK, UnderWay
<1>3. /\ status' = status /\ uploads' = uploads /\ files' = files /\ admitted' = admitted
  BY DEF Finish, Fail
<1>4. /\ \A k : Of(k)' = Of(k)
      /\ \A k, n : Filled(k, n)' <=> Filled(k, n)
  BY <1>3 DEF Of, Filled
<1>5. audited' \subseteq audited \cup {req[s].doc} /\ (Fail(s) => audited' = audited)
  BY DEF Finish, Fail
<1>6. TypeOK'
  BY <1>1, <1>3, <1>5 DEF Finish, Fail, IInv, TypeOK, Running
<1>7. DocsDistinct' /\ DocsFollowRequests' /\ VersionsUnique' /\ ComparedWithEarlier'
  BY <1>2, <1>3, <1>4 DEF IInv, DocsDistinct, DocsFollowRequests, VersionsUnique,
                          ComparedWithEarlier
<1>8. VersionsDense' /\ BasesExist'
  BY <1>2, <1>3, <1>4 DEF IInv, VersionsDense, BasesExist
<1>9. ClosedCycleAdmitsNoNewWork'
  <2> SUFFICES ASSUME NEW c \in Cycles, status[c] = "closed"
               PROVE  DocsOf(c)' \subseteq admitted[c]
    BY <1>3 DEF ClosedCycleAdmitsNoNewWork
  <2>1. DocsOf(c)' \subseteq DocsOf(c)
    BY <1>2, <1>3 DEF DocsOf
  <2> QED  BY <2>1 DEF IInv, ClosedCycleAdmitsNoNewWork
<1>10. AuditTellsOnlyCommitted'
  <2>1. CASE Fail(s)
    BY <2>1, <1>3, <1>5 DEF IInv, AuditTellsOnlyCommitted
  <2>2. CASE Finish(s)
    <3>1. \E u \in uploads : u.doc = req[s].doc
      BY <2>2, <1>1 DEF Finish, IInv, DocsFollowRequests
    <3> QED  BY <3>1, <1>3, <1>5 DEF IInv, AuditTellsOnlyCommitted
  <2> QED  BY <2>1, <2>2
<1>11. TopsExist'
  BY <1>4, TopsKept DEF IInv
<1> QED  BY <1>6, <1>7, <1>8, <1>9, <1>10, <1>11 DEF IInv

\* Closing fixes what the cycle may still admit; no other move touches it.
LEMMA MoveCycleStep ==
    ASSUME IInv, NEW c \in Cycles, NEW to \in C!CycleState, MoveCycle(c, to)
    PROVE  IInv'
<1>1. /\ uploads' = uploads /\ files' = files /\ audited' = audited /\ req' = req
      /\ status' = [status EXCEPT ![c] = to]
      /\ admitted' = [admitted EXCEPT ![c] = IF to = "closed" THEN DocsOf(c) ELSE @]
  BY DEF MoveCycle, C!Move
<1>2. UnderWay' = UnderWay /\ (\A k : Of(k)' = Of(k)) /\ (\A b : DocsOf(b)' = DocsOf(b))
      /\ (\A k, n : Filled(k, n)' <=> Filled(k, n))
  BY <1>1 DEF UnderWay, Of, DocsOf, Filled
<1>3. DocsOf(c) \subseteq Docs
  BY RequestType DEF DocsOf, IInv, TypeOK, Upload, Running
<1>4. TypeOK'
  BY <1>1, <1>3 DEF IInv, TypeOK
<1>5. DocsDistinct' /\ DocsFollowRequests' /\ VersionsUnique' /\ VersionsDense'
      /\ BasesExist' /\ AuditTellsOnlyCommitted' /\ ComparedWithEarlier'
  BY <1>1, <1>2 DEF IInv, DocsDistinct, DocsFollowRequests, VersionsUnique,
     VersionsDense, BasesExist, AuditTellsOnlyCommitted, ComparedWithEarlier
<1>6. ClosedCycleAdmitsNoNewWork'
  BY <1>1, <1>2 DEF IInv, TypeOK, ClosedCycleAdmitsNoNewWork
<1>7. TopsExist'
  BY <1>2, TopsKept DEF IInv
<1> QED  BY <1>4, <1>5, <1>6, <1>7 DEF IInv

LEMMA InvariantInit == Init => IInv
<1>1. Init => TopsExist
  BY UploadAssumption DEF Init, TopsExist, IsMax, Of, Versions
<1> QED
  BY <1>1, InitType DEF Init, C!Init, Idle, UnderWay, IInv, DocsDistinct, DocsFollowRequests,
     VersionsUnique, VersionsDense, BasesExist, ClosedCycleAdmitsNoNewWork,
     AuditTellsOnlyCommitted, ComparedWithEarlier

LEMMA InvariantStep == IInv /\ [Next]_vars => IInv'
<1> SUFFICES ASSUME IInv, [Next]_vars PROVE IInv'
  OBVIOUS
<1>1. ASSUME NEW c \in Cycles, NEW to \in C!CycleState, MoveCycle(c, to)
      PROVE  IInv'
  BY <1>1, MoveCycleStep
<1>2. ASSUME NEW s \in Sessions, NEW k \in Series, AssertOpen(s, k)
      PROVE  IInv'
  BY <1>2, AssertOpenStep
<1>3. ASSUME NEW s \in Sessions,
             \/ ReadLatest(s) \/ SaveFile(s) \/ next_version(s)
             \/ Persist(s) \/ Finish(s) \/ Fail(s)
      PROVE  IInv'
  BY <1>3, ReadLatestStep, SaveFileStep, NextVersionStep, PersistStep, EndStep
<1>4. CASE UNCHANGED vars
  BY <1>4, TopsKept DEF vars, IInv, TypeOK, UnderWay, Of, DocsOf, Filled, DocsDistinct,
     DocsFollowRequests, VersionsUnique, VersionsDense, BasesExist,
     ClosedCycleAdmitsNoNewWork, AuditTellsOnlyCommitted, ComparedWithEarlier
<1> QED  BY <1>1, <1>2, <1>3, <1>4 DEF Next

THEOREM InductiveInvariant == Spec => []IInv
  BY InvariantInit, InvariantStep, PTL DEF Spec

\* Every variable keeps its type in every behaviour.
THEOREM TypeCorrect == Spec => []TypeOK
<1>1. IInv => TypeOK
  BY DEF IInv
<1> QED  BY <1>1, InductiveInvariant, PTL

\* A closed cycle admits no document whose request began after it was closed.
THEOREM NoNewWorkAfterClose == Spec => []ClosedCycleAdmitsNoNewWork
<1>1. IInv => ClosedCycleAdmitsNoNewWork
  BY DEF IInv
<1> QED  BY <1>1, InductiveInvariant, PTL

\* Every accepted upload's file is on disk and belongs to it alone.
THEOREM FilesExist == Spec => []UploadsHaveTheirFiles
<1>1. IInv => UploadsHaveTheirFiles
  BY DEF IInv, DocsFollowRequests, DocsDistinct, UploadsHaveTheirFiles
<1> QED  BY <1>1, InductiveInvariant, PTL

\* CR-006: an audit row follows its commit, so it tells of a committed upload.
THEOREM AuditsFollowCommits == Spec => []AuditTellsOnlyCommitted
<1>1. IInv => AuditTellsOnlyCommitted
  BY DEF IInv
<1> QED  BY <1>1, InductiveInvariant, PTL

\* shared_costs/service.py: an import was compared with a committed version
\* earlier than its own, whatever was accepted while it was under way.
THEOREM BasesAreEarlier == Spec => []ComparedWithEarlier
<1>1. IInv => ComparedWithEarlier
  BY DEF IInv
<1> QED  BY <1>1, InductiveInvariant, PTL

-----------------------------------------------------------------------------
(* Refinement *)

\* The length of a series is its highest version.
LEMMA LengthIsTop ==
    ASSUME IInv, NEW k \in Series
    PROVE  /\ Length(k) \in Versions \cup {0} /\ Length(k) \in Nat
           /\ IsMax(Length(k), k)
           /\ \A n \in Versions \cup {0} : IsMax(n, k) => n = Length(k)
<1>1. \A u \in Of(k) : u.version \in Nat /\ u.version >= 1
  BY UploadAssumption DEF IInv, TypeOK, Of, Upload, Versions
<1>2. \E n \in Versions \cup {0} : IsMax(n, k)
  BY DEF IInv, TopsExist
<1>3. Length(k) \in Versions \cup {0} /\ IsMax(Length(k), k)
  BY <1>2 DEF Length
<1>4. \A n \in Versions \cup {0} : n \in Nat
  BY UploadAssumption DEF Versions
<1>5. ASSUME NEW n \in Versions \cup {0}, IsMax(n, k)
      PROVE  n = Length(k)
  BY <1>1, <1>3, <1>4, <1>5 DEF IsMax
<1> QED  BY <1>3, <1>4, <1>5

\* Every position of the log holds the document of the one upload that has
\* this version.
LEMMA LogEntry ==
    ASSUME IInv, NEW k \in Series, NEW v \in 1..Length(k)
    PROVE  \E u \in Of(k) : u.version = v /\ DocAt(k, v) = u.doc
<1>1. Length(k) \in Nat /\ IsMax(Length(k), k)
  BY LengthIsTop
<1>2. PICK t \in Of(k) : t.version = Length(k)
  BY <1>1 DEF IsMax
<1>3. Filled(k, Length(k))
  BY <1>2 DEF IInv, VersionsDense, Of
<1>4. \E u \in Of(k) : u.version = v
  BY <1>1, <1>2, <1>3 DEF Filled
<1> QED  BY <1>4 DEF DocAt

LEMMA LogType ==
    ASSUME IInv, NEW k \in Series
    PROVE  /\ Log[k] \in Seq(Docs) /\ Len(Log[k]) = Length(k)
           /\ \A v \in 1..Length(k) : Log[k][v] = DocAt(k, v)
<1>1. Length(k) \in Nat
  BY LengthIsTop
<1>2. \A v \in 1..Length(k) : DocAt(k, v) \in Docs
  BY LogEntry DEF IInv, TypeOK, Of, Upload
<1>3. Log[k] = [v \in 1..Length(k) |-> DocAt(k, v)]
  BY DEF Log
<1> QED  BY <1>1, <1>2, <1>3

LEMMA LogUnchanged ==
    ASSUME uploads' = uploads
    PROVE  Log' = Log
  BY DEF Log, Length, DocAt, IsMax, Of

\* The two lemmas as facts of a state, so that they hold of the next one too.
TopFacts == \A k \in Series : \A n \in Versions \cup {0} : IsMax(n, k) => n = Length(k)

LogFacts ==
    \A k \in Series : /\ Log[k] \in Seq(Docs) /\ Len(Log[k]) = Length(k)
                      /\ \A v \in 1..Length(k) : Log[k][v] = DocAt(k, v)

LEMMA StateFacts == IInv => TopFacts /\ LogFacts
  BY LengthIsTop, LogType DEF TopFacts, LogFacts

\* The commit of an upload appends its document to the log of its series.
LEMMA PersistAccepts ==
    ASSUME IInv, NEW s \in Sessions, Persist(s)
    PROVE  V!Accept(req[s].series, req[s].doc)
<1>1. PICK k \in Series, d \in Docs, n \in Versions, row \in Upload :
        /\ k = req[s].series /\ d = req[s].doc /\ n = req[s].version
        /\ row.series = k /\ row.version = n /\ row.doc = d
        /\ uploads' = uploads \cup {row}
        /\ \A u \in uploads : u.doc # d
        /\ \A u \in Of(k) : u.version < n
        /\ Filled(k, n)
  <2> DEFINE r == req[s]
             row == [series |-> r.series, version |-> r.version,
                     doc |-> r.doc, base |-> r.base]
  <2>1. /\ r \in Running /\ row \in Upload /\ uploads' = uploads \cup {row}
        /\ \A u \in uploads : u.doc # r.doc
        /\ \A u \in Of(r.series) : u.version < r.version
        /\ Filled(r.series, r.version)
    BY PersistFacts
  <2>2. /\ row.series = r.series /\ row.version = r.version /\ row.doc = r.doc
        /\ r.series \in Series /\ r.doc \in Docs /\ r.version \in Versions
    BY <2>1 DEF Running, Upload
  <2> HIDE DEF row
  <2> QED  BY <2>1, <2>2
<1>2. IInv' /\ TopFacts' /\ LogFacts'
  <2>1. IInv'
    BY PersistStep
  <2>2. (IInv => TopFacts /\ LogFacts)'
    BY StateFacts, PTL
  <2> QED  BY <2>1, <2>2
<1>3. /\ n \in Nat /\ n >= 1 /\ n - 1 \in Versions \cup {0}
      /\ \A u \in Of(k) : u.version \in Nat
  BY <1>1, UploadAssumption DEF Versions, Of, IInv, TypeOK, Upload
<1>4. Length(k) = n - 1
  <2>1. IsMax(n - 1, k)
    <3>1. n - 1 # 0 => n - 1 \in 1..n - 1
      BY <1>3
    <3>2. n - 1 = 0 \/ \E u \in Of(k) : u.version = n - 1
      BY <3>1, <1>1 DEF Filled
    <3> QED  BY <3>2, <1>1, <1>3 DEF IsMax
  <2> QED  BY <2>1, <1>3, LengthIsTop
<1>5. Of(k)' = Of(k) \cup {row}
  BY <1>1 DEF Of
<1>6. Length(k)' = n
  <2>1. IsMax(n, k)'
    BY <1>1, <1>3, <1>5 DEF IsMax
  <2>2. \A m \in Versions \cup {0} : IsMax(m, k)' => m = Length(k)'
    BY <1>2 DEF TopFacts
  <2> QED  BY <2>1, <2>2
<1>7. \A u, w \in Of(k)' : u.version = w.version => u = w
  BY <1>2 DEF IInv, VersionsUnique, Of
<1>8. ASSUME NEW v \in 1..n - 1
      PROVE  DocAt(k, v)' = DocAt(k, v)
  <2>1. PICK u \in Of(k) : u.version = v /\ DocAt(k, v) = u.doc
    BY <1>4, LogEntry
  <2>2. u \in Of(k)'
    BY <1>5
  <2> QED  BY <2>1, <2>2, <1>7 DEF DocAt
<1>9. DocAt(k, n)' = d
  <2>1. row \in Of(k)'
    BY <1>5
  <2> QED  BY <2>1, <1>1, <1>7 DEF DocAt
<1>10. Log'[k] = Append(Log[k], d)
  <2>1. Log[k] \in Seq(Docs) /\ Len(Log[k]) = n - 1
        /\ \A v \in 1..n - 1 : Log[k][v] = DocAt(k, v)
    BY <1>4, LogType
  <2>2. Log'[k] \in Seq(Docs) /\ Len(Log'[k]) = n
        /\ \A v \in 1..n : Log'[k][v] = DocAt(k, v)'
    BY <1>2, <1>6 DEF LogFacts
  <2> DEFINE app == Append(Log[k], d)
  <2>3. /\ app \in Seq(Docs) /\ Len(app) = n
        /\ \A v \in 1..n - 1 : app[v] = Log[k][v]
        /\ app[n] = d
    BY <2>1, <1>3, AppendProperties
  <2> HIDE DEF app
  <2>4. \A v \in 1..n : Log'[k][v] = app[v]
    <3> SUFFICES ASSUME NEW v \in 1..n PROVE Log'[k][v] = app[v]
      OBVIOUS
    <3>1. CASE v = n
      BY <3>1, <2>2, <2>3, <1>9
    <3>2. CASE v # n
      <4>1. v \in 1..n - 1
        BY <3>2, <1>3
      <4> QED  BY <4>1, <2>1, <2>2, <2>3, <1>8
    <3> QED  BY <3>1, <3>2
  <2>5. Log'[k] = app
    BY <2>2, <2>3, <2>4, SeqEqual
  <2> QED  BY <2>5 DEF app
<1>11. ASSUME NEW j \in Series, j # k
       PROVE  Log'[j] = Log[j]
  <2>1. Of(j)' = Of(j)
    BY <1>1, <1>11 DEF Of
  <2> QED  BY <2>1 DEF Log, Length, DocAt, IsMax
<1>12. Log' = [Log EXCEPT ![k] = Append(@, d)]
  BY <1>10, <1>11 DEF Log
<1>13. \A j \in Series : \A v \in 1..Len(Log[j]) : Log[j][v] # d
  BY <1>1, LogType, LogEntry DEF Of
<1> QED  BY <1>1, <1>12, <1>13 DEF V!Accept

LEMMA StepImplements == IInv /\ [Next]_vars => [V!Next]_Log
<1> SUFFICES ASSUME IInv, [Next]_vars PROVE V!Next \/ Log' = Log
  OBVIOUS
<1>1. ASSUME NEW s \in Sessions, Persist(s)
      PROVE  V!Next
  <2>1. req[s].series \in Series /\ req[s].doc \in Docs
    BY <1>1, PersistFacts DEF Running
  <2> QED  BY <1>1, <2>1, PersistAccepts DEF V!Next
<1>2. CASE ~ \E s \in Sessions : Persist(s)
  <2>1. uploads' = uploads
    BY <1>2 DEF Next, MoveCycle, AssertOpen, ReadLatest, SaveFile, next_version,
                Finish, Fail, vars
  <2> QED  BY <2>1, LogUnchanged
<1> QED  BY <1>1, <1>2

LEMMA InitImplements == Init => V!Init
<1> SUFFICES ASSUME Init, NEW k \in Series PROVE Log[k] = << >>
  BY DEF V!Init, Log
<1>1. IInv /\ Of(k) = {}
  BY InvariantInit DEF Init, Of
<1>2. Length(k) = 0
  BY <1>1, LengthIsTop DEF IsMax
<1> QED  BY <1>1, <1>2, LogType, EmptySeq

\* The three importers, interleaved statement by statement, implement the
\* append-only log: a commit appends one document that was not there, and no
\* other step changes a version.
THEOREM Implements == Spec => ImplementsVersionLog
  BY InitImplements, StepImplements, InductiveInvariant, PTL
     DEF Spec, V!Spec, ImplementsVersionLog
=============================================================================
