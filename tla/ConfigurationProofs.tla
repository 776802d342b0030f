--------------------------- MODULE ConfigurationProofs ---------------------------
(***************************************************************************)
(* Proofs about Configuration, for every number of requests, documents,    *)
(* inodes, consoles and edits.                                             *)
(*                                                                         *)
(* UnderMu says what the holder of Manager.mu has done and what it left to *)
(* do; OneListens, where a console listens meanwhile; Recorded, that what  *)
(* a request saves, and any file it may have got into, is in the revision  *)
(* table; ToReload, that whoever changed the file leaves somebody who will *)
(* reload it; OpenFiles, that a file that is cut off is open; Shared, what *)
(* two saves may make of the file they share while it is not crowded.      *)
(***************************************************************************)
EXTENDS Configuration, FiniteSetTheorems, TLAPS

Held   == {"apply", "admin", "stopping", "start"}
Saves  == {"write", "rename", "rewrite", "remove"}
Others(q) == \E r \in Other(q) : Came(r)
Mixed(f)  == Cardinality(content[f]) > 1

\* r has made its last use of path.tmp's name but for the removal, which hits no file of
\* its own.
Past(r) == pc[r] \notin {"new", "check", "write", "rename", "rewrite"}

\* The goroutine that reloads owns Manager.mu, and applies the document of config.Ref.
UnderMu ==
    /\ \A t \in Threads : pc[t] \in Held <=> mu = t
    /\ mu = None => limits = ref
    /\ mu # None => /\ cfg[mu] = ref
                    /\ pc[mu] # "apply" => limits = ref

OneListens ==
    /\ live \subseteq {adminServer}
    /\ \A t \in Threads :
          /\ pc[t] = "stopping" => adminServer # None
          /\ pc[t] \in {"stopping", "start"} => live = {}

Recorded ==
    /\ \A q \in Requests :
          /\ pc[q] = "check" => text[q] \in Texts
          /\ pc[q] \in {"write", "rename", "rewrite"} => text[q] \in Texts
          /\ text[q] \in Sent => text[q] \in revisions
    /\ \A f \in Files : \A d \in content[f] : d \in Sent => d \in revisions

ToReload ==
    content[path] \in Documents =>
        \/ ref = content[path]
        \/ armed \/ unseen
        \/ \E t \in Threads : pc[t] \in Saves \cup {"lock"}

OpenFiles ==
    /\ tmp # path
    /\ \A f \in Files :
          f \in {path, tmp} /\ content[f] = {} =>
              \E q \in Requests : fd[q] = f /\ pc[q] \in {"write", "rewrite"}
    /\ \A q \in Requests :
          /\ pc[q] \in {"write", "rewrite"} => fd[q] \in Files
          /\ pc[q] = "write"   => mounted \/ Others(q) \/ fd[q] = tmp
          /\ pc[q] = "rename"  => mounted \/ Others(q) \/ tmp # None
          /\ pc[q] = "rewrite" => mounted \/ Others(q)

Falls == {"rewrite", "remove"}

\* Whoever finds path.tmp gone owes it to somebody who is past it.  While it is not
\* crowded nobody else writes during a fallback, and a mixed file has been written by
\* two saves of which one has yet to rename.
Shared ==
    /\ \A q \in Requests :
          /\ pc[q] \in Falls => mounted \/ \E r \in Other(q) : Past(r)
          /\ pc[q] \in {"write", "rename"} => tmp # None \/ \E r \in Other(q) : Past(r)
    /\ ~Crowded =>
          /\ \A q \in Requests : pc[q] = "rewrite" => fd[q] = path /\ content[path] = {}
          /\ tmp # None /\ content[tmp] # {} => \E q \in Requests : pc[q] \in {"rename"} \cup Falls
          /\ tmp # None /\ Mixed(tmp) =>
                \E q \in Requests : pc[q] = "rename" /\ \E r \in Other(q) : pc[r] = "rename"
          /\ Mixed(path) => \E q \in Requests : pc[q] = "rename"

IInv == TypeOK /\ UnderMu /\ OneListens /\ Recorded /\ ToReload /\ OpenFiles /\ Shared

-----------------------------------------------------------------------------
LEMMA Facts ==
    /\ Files \subseteq Nat /\ Consoles \subseteq Nat /\ 0 \in Files /\ 0 \in Consoles
    /\ None \notin Files /\ None \notin Consoles /\ None \notin Threads
    /\ None \notin Documents /\ None \notin Texts
    /\ Requests \subseteq Threads /\ Watcher \in Threads /\ Main \in Threads
    /\ Watcher \notin Requests /\ Main \notin Requests
    /\ Documents \subseteq SUBSET Texts /\ {} \notin Documents
    /\ Typed \subseteq Texts /\ Sent \subseteq Texts /\ Bad \in Texts
    /\ \A d \in Typed \cup Sent : {d} \in Documents
    /\ Size \in [Texts -> Nat] /\ Bad \notin Sent
    /\ \A d \in Typed : d \notin Sent
    /\ MaxEdits \in Nat
    /\ None \in Addresses /\ \A d \in Documents : AdminOf[d] \in Addresses
BY ConfigurationAssumption DEF Texts, Threads, Addresses

\* A write puts its text into the file and nothing else.
LEMMA OverFacts ==
    ASSUME NEW d \in Texts, NEW c \in SUBSET Texts
    PROVE  /\ Over(d, c) \in SUBSET Texts /\ Over(d, c) # {}
           /\ \A e \in Over(d, c) : e = d \/ e \in c
           /\ c = {} => Over(d, c) = {d}
BY DEF Over

\* A file that is cut off or whole is not mixed.
LEMMA WholeFacts ==
    /\ ~(Cardinality({}) > 1)
    /\ \A d : ~(Cardinality({d}) > 1)
BY FS_EmptySet, FS_Singleton

LEMMA InitOK == Init => IInv
<1>. SUFFICES ASSUME Init PROVE IInv
  OBVIOUS
<1>. USE Facts
<1>0. PICK d \in Typed : Init!(d)
  BY DEF Init
<1>1. TypeOK
  <2>1. AdminOf[{d}] \in Addresses /\ {d} \in Documents
    OBVIOUS
  <2>2. content \in [Files -> SUBSET Texts]
    BY <1>0, <2>1
  <2>3. pc \in [Threads -> Places]
    BY <1>0 DEF Places
  <2>4. adminServer \in Consoles \cup {None} /\ live \subseteq Consoles
    BY <1>0
  <2>5. Admin \in Addresses
    BY <1>0, <2>1
  <2>6. /\ at \in [Requests -> Consoles \cup {None}]
        /\ text \in [Requests -> Texts \cup {None}]
        /\ fd \in [Requests -> Files \cup {None}]
        /\ cfg \in [Threads -> Documents \cup {None}]
    BY <1>0
  <2>7. /\ path \in Files /\ tmp = None /\ watched \in Files
        /\ edits \in 0 .. MaxEdits /\ revisions = {} /\ mu = None
        /\ ref \in Documents /\ limits \in Documents
    BY <1>0, <2>1
  <2>8. mounted \in BOOLEAN /\ armed \in BOOLEAN /\ unseen \in BOOLEAN
    BY <1>0, Zenon
  <2>. QED BY <2>2, <2>3, <2>4, <2>5, <2>6, <2>7, <2>8 DEF TypeOK
<1>2. UnderMu BY <1>0 DEF UnderMu, Held
<1>3. OneListens BY <1>0 DEF OneListens
<1>4. Recorded BY <1>0 DEF Recorded
<1>5. ToReload BY <1>0 DEF ToReload
<1>6. OpenFiles BY <1>0 DEF OpenFiles
<1>7. Shared
  <2>1. tmp = None /\ content[path] = {d} /\ \A q \in Requests : pc[q] = "new"
    BY <1>0
  <2>2. ~Mixed(path)
    BY <2>1, WholeFacts DEF Mixed
  <2>. QED BY <2>1, <2>2 DEF Shared, Falls
<1>. QED BY <1>1, <1>2, <1>3, <1>4, <1>5, <1>6, <1>7 DEF IInv

-----------------------------------------------------------------------------
(* Each part of the invariant is kept by every step *)

\* A write leaves all inodes but one alone, and that one is not cut off any more.
LEMMA WriteFacts ==
    ASSUME IInv, NEW q \in Requests, pc[q] \in {"write", "rewrite"}, Writes(q)
    PROVE  /\ text[q] \in Texts /\ fd[q] \in Files
           /\ content' \in [Files -> SUBSET Texts]
           /\ content'[fd[q]] # {}
           /\ content[fd[q]] = {} => content'[fd[q]] = {text[q]}
           /\ \A f \in Files : f # fd[q] => content'[f] = content[f]
           /\ \A f \in Files : \A d \in content'[f] : d = text[q] \/ d \in content[f]
           /\ fd' = [fd EXCEPT ![q] = None] /\ fd' \in [Requests -> Files \cup {None}]
           /\ armed' = (armed \/ fd[q] = watched) /\ armed' \in BOOLEAN
<1>1. text[q] \in Texts /\ fd[q] \in Files /\ content[fd[q]] \in SUBSET Texts
  BY DEF IInv, TypeOK, Recorded, OpenFiles
<1>2. /\ content' = [content EXCEPT ![fd[q]] = Over(text[q], content[fd[q]])]
      /\ fd' = [fd EXCEPT ![q] = None]
      /\ armed' = (armed \/ fd[q] = watched)
  BY DEF Writes, Written
<1>3. /\ Over(text[q], content[fd[q]]) \in SUBSET Texts /\ Over(text[q], content[fd[q]]) # {}
      /\ \A e \in Over(text[q], content[fd[q]]) : e = text[q] \/ e \in content[fd[q]]
      /\ content[fd[q]] = {} => Over(text[q], content[fd[q]]) = {text[q]}
  BY <1>1, OverFacts
<1>4. armed' \in BOOLEAN
  BY <1>2, Zenon
<1>. QED BY <1>1, <1>2, <1>3, <1>4 DEF IInv, TypeOK

LEMMA TypeStep == IInv /\ Next => TypeOK'
<1>. SUFFICES ASSUME IInv, Next PROVE TypeOK'
  OBVIOUS
<1>. USE Facts
<1>1. ASSUME NEW q \in Requests, Put(q) PROVE TypeOK'
  BY <1>1 DEF IInv, TypeOK, UnderMu, Held, Recorded, Places, Put, Accepted, Records, Row,
    At, Ends, disk, asking, force, console
<1>2. ASSUME NEW q \in Requests, Restore(q) PROVE TypeOK'
  BY <1>2 DEF IInv, TypeOK, UnderMu, Held, Recorded, Places, Restore, Accepted, Records,
    Row, At, Ends, disk, asking, force, console
<1>3. ASSUME NEW q \in Requests, Reload(q) PROVE TypeOK'
  BY <1>3 DEF IInv, TypeOK, UnderMu, Held, Recorded, Places, Reload, Accepted, At, Ends,
    disk, asking, force, console
<1>4. ASSUME NEW q \in Requests, OpenTmp(q) PROVE TypeOK'
  <2>1. (/\ path \in Files /\ tmp \in Files \cup {None} /\ watched \in Files \cup {None}
        /\ content \in [Files -> SUBSET Texts])'
    BY <1>4 DEF IInv, TypeOK, Recorded, OpenTmp, Opened, First, Written, At, Ends, disk,
       asking, force, console
  <2>2. (/\ mounted \in BOOLEAN /\ armed \in BOOLEAN /\ unseen \in BOOLEAN
        /\ edits \in 0 .. MaxEdits /\ revisions \subseteq Texts)'
    BY <1>4 DEF IInv, TypeOK, Recorded, OpenTmp, Opened, First, Written, At, Ends, disk,
       asking, force, console
  <2>3. (/\ pc \in [Threads -> Places] /\ at \in [Requests -> Consoles \cup {None}]
        /\ text \in [Requests -> Texts \cup {None}]
        /\ fd \in [Requests -> Files \cup {None}] /\ mu \in Threads \cup {None})'
    BY <1>4 DEF IInv, TypeOK, Places, Recorded, OpenTmp, Opened, First, Written, At,
       Ends, disk, asking, force, console
  <2>4. (/\ cfg \in [Threads -> Documents \cup {None}] /\ ref \in Documents
        /\ limits \in Documents)'
    BY <1>4 DEF IInv, TypeOK, Recorded, OpenTmp, Opened, First, Written, At, Ends, disk,
       asking, force, console
  <2>5. (/\ adminServer \in Consoles \cup {None} /\ Admin \in Addresses
        /\ live \subseteq Consoles)'
    BY <1>4 DEF IInv, TypeOK, Recorded, OpenTmp, Opened, First, Written, At, Ends, disk,
       asking, force, console
  <2>. QED BY <2>1, <2>2, <2>3, <2>4, <2>5 DEF TypeOK
<1>5. ASSUME NEW q \in Requests, WriteTmp(q) PROVE TypeOK'
  <2>1. /\ pc[q] = "write" /\ pc' = [pc EXCEPT ![q] = "rename"] /\ Writes(q)
        /\ UNCHANGED <<path, tmp, watched, unseen, mounted, edits, revisions, at, text, mu, cfg,
                       ref, limits, adminServer, Admin, live>>
    BY <1>5 DEF WriteTmp, At, force, console
  <2>. QED BY <2>1, WriteFacts DEF IInv, TypeOK, Places
<1>6. ASSUME NEW q \in Requests, Rename(q) PROVE TypeOK'
  <2>1. (/\ path \in Files /\ tmp \in Files \cup {None} /\ watched \in Files \cup {None}
        /\ content \in [Files -> SUBSET Texts])'
    BY <1>6 DEF IInv, TypeOK, Recorded, Rename, Named, Written, At, Ends, disk, asking,
       force, console
  <2>2. (/\ mounted \in BOOLEAN /\ armed \in BOOLEAN /\ unseen \in BOOLEAN
        /\ edits \in 0 .. MaxEdits /\ revisions \subseteq Texts)'
    BY <1>6 DEF IInv, TypeOK, Recorded, Rename, Named, Written, At, Ends, disk, asking,
       force, console
  <2>3. (/\ pc \in [Threads -> Places] /\ at \in [Requests -> Consoles \cup {None}]
        /\ text \in [Requests -> Texts \cup {None}]
        /\ fd \in [Requests -> Files \cup {None}] /\ mu \in Threads \cup {None})'
    BY <1>6 DEF IInv, TypeOK, Places, Recorded, Rename, Named, Written, At, Ends, disk,
       asking, force, console
  <2>4. (/\ cfg \in [Threads -> Documents \cup {None}] /\ ref \in Documents
        /\ limits \in Documents)'
    BY <1>6 DEF IInv, TypeOK, Recorded, Rename, Named, Written, At, Ends, disk, asking,
       force, console
  <2>5. (/\ adminServer \in Consoles \cup {None} /\ Admin \in Addresses
        /\ live \subseteq Consoles)'
    BY <1>6 DEF IInv, TypeOK, Recorded, Rename, Named, Written, At, Ends, disk, asking,
       force, console
  <2>. QED BY <2>1, <2>2, <2>3, <2>4, <2>5 DEF TypeOK
<1>7. ASSUME NEW q \in Requests, Rewrite(q) PROVE TypeOK'
  <2>1. /\ pc[q] = "rewrite" /\ pc' = [pc EXCEPT ![q] = "remove"] /\ Writes(q)
        /\ UNCHANGED <<path, tmp, watched, unseen, mounted, edits, revisions, at, text, mu, cfg,
                       ref, limits, adminServer, Admin, live>>
    BY <1>7 DEF Rewrite, At, force, console
  <2>. QED BY <2>1, WriteFacts DEF IInv, TypeOK, Places
<1>8. ASSUME NEW q \in Requests, RemoveTmp(q) PROVE TypeOK'
  BY <1>8 DEF IInv, TypeOK, UnderMu, Held, Recorded, Places, RemoveTmp, At, Ends, disk,
    asking, force, console
<1>9. ASSUME NEW t \in Threads, Load(t) PROVE TypeOK'
  <2>1. (/\ path \in Files /\ tmp \in Files \cup {None} /\ watched \in Files \cup {None}
        /\ content \in [Files -> SUBSET Texts])'
    BY <1>9 DEF IInv, TypeOK, Load, Valid, At, Ends, disk, asking, force, console
  <2>2. (/\ mounted \in BOOLEAN /\ armed \in BOOLEAN /\ unseen \in BOOLEAN
        /\ edits \in 0 .. MaxEdits /\ revisions \subseteq Texts)'
    BY <1>9 DEF IInv, TypeOK, Load, Valid, At, Ends, disk, asking, force, console
  <2>3. (/\ pc \in [Threads -> Places] /\ at \in [Requests -> Consoles \cup {None}]
        /\ text \in [Requests -> Texts \cup {None}]
        /\ fd \in [Requests -> Files \cup {None}] /\ mu \in Threads \cup {None})'
    BY <1>9 DEF IInv, TypeOK, Places, Load, Valid, At, Ends, disk, asking, force, console
  <2>4. (/\ cfg \in [Threads -> Documents \cup {None}] /\ ref \in Documents
        /\ limits \in Documents)'
    BY <1>9 DEF IInv, TypeOK, Load, Valid, At, Ends, disk, asking, force, console
  <2>5. (/\ adminServer \in Consoles \cup {None} /\ Admin \in Addresses
        /\ live \subseteq Consoles)'
    BY <1>9 DEF IInv, TypeOK, Load, Valid, At, Ends, disk, asking, force, console
  <2>. QED BY <2>1, <2>2, <2>3, <2>4, <2>5 DEF TypeOK
<1>10. ASSUME NEW t \in Threads, UpdateConfig(t) PROVE TypeOK'
  BY <1>10 DEF IInv, TypeOK, UnderMu, Held, Recorded, Places, UpdateConfig, At, Ends,
    disk, asking, force, console
<1>11. ASSUME NEW t \in Threads, ReconcileAdmin(t) PROVE TypeOK'
  <2>0. Wanted(t) \in Addresses
    BY <1>11 DEF IInv, TypeOK, UnderMu, Held, ReconcileAdmin, Wanted
  <2>1. (/\ path \in Files /\ tmp \in Files \cup {None} /\ watched \in Files \cup {None}
        /\ content \in [Files -> SUBSET Texts])'
    BY <1>11, <2>0 DEF IInv, TypeOK, ReconcileAdmin, Returns, Goes, Closed, At, Ends,
       disk, asking, force, console
  <2>2. (/\ mounted \in BOOLEAN /\ armed \in BOOLEAN /\ unseen \in BOOLEAN
        /\ edits \in 0 .. MaxEdits /\ revisions \subseteq Texts)'
    BY <1>11, <2>0 DEF IInv, TypeOK, ReconcileAdmin, Returns, Goes, Closed, At, Ends,
       disk, asking, force, console
  <2>3. (/\ pc \in [Threads -> Places] /\ at \in [Requests -> Consoles \cup {None}]
        /\ text \in [Requests -> Texts \cup {None}]
        /\ fd \in [Requests -> Files \cup {None}] /\ mu \in Threads \cup {None})'
    BY <1>11, <2>0 DEF IInv, TypeOK, Places, ReconcileAdmin, Returns, Goes, Closed, At,
       Ends, disk, asking, force, console
  <2>4. (/\ cfg \in [Threads -> Documents \cup {None}] /\ ref \in Documents
        /\ limits \in Documents)'
    BY <1>11, <2>0 DEF IInv, TypeOK, ReconcileAdmin, Returns, Goes, Closed, At, Ends,
       disk, asking, force, console
  <2>5. (/\ adminServer \in Consoles \cup {None} /\ Admin \in Addresses
        /\ live \subseteq Consoles)'
    BY <1>11, <2>0 DEF IInv, TypeOK, ReconcileAdmin, Returns, Goes, Closed, At, Ends,
       disk, asking, force, console
  <2>. QED BY <2>1, <2>2, <2>3, <2>4, <2>5 DEF TypeOK
<1>12. ASSUME NEW t \in Threads, Stopped(t) PROVE TypeOK'
  BY <1>12 DEF IInv, TypeOK, UnderMu, Held, Recorded, Places, Stopped, Waited, Wanted,
    Returns, Goes, At, Ends, disk, asking, force, console
<1>13. ASSUME NEW t \in Threads, Start(t) PROVE TypeOK'
  <2>0. Wanted(t) \in Addresses
    BY <1>13 DEF IInv, TypeOK, UnderMu, Held, Start, Wanted
  <2>1. (/\ path \in Files /\ tmp \in Files \cup {None} /\ watched \in Files \cup {None}
        /\ content \in [Files -> SUBSET Texts])'
    BY <1>13, <2>0 DEF IInv, TypeOK, Start, First, Returns, At, Ends, disk, asking, force,
       console
  <2>2. (/\ mounted \in BOOLEAN /\ armed \in BOOLEAN /\ unseen \in BOOLEAN
        /\ edits \in 0 .. MaxEdits /\ revisions \subseteq Texts)'
    BY <1>13, <2>0 DEF IInv, TypeOK, Start, First, Returns, At, Ends, disk, asking, force,
       console
  <2>3. (/\ pc \in [Threads -> Places] /\ at \in [Requests -> Consoles \cup {None}]
        /\ text \in [Requests -> Texts \cup {None}]
        /\ fd \in [Requests -> Files \cup {None}] /\ mu \in Threads \cup {None})'
    BY <1>13, <2>0 DEF IInv, TypeOK, Places, Start, First, Returns, At, Ends, disk,
       asking, force, console
  <2>4. (/\ cfg \in [Threads -> Documents \cup {None}] /\ ref \in Documents
        /\ limits \in Documents)'
    BY <1>13, <2>0 DEF IInv, TypeOK, Start, First, Returns, At, Ends, disk, asking, force,
       console
  <2>5. (/\ adminServer \in Consoles \cup {None} /\ Admin \in Addresses
        /\ live \subseteq Consoles)'
    <3>1. CASE UNCHANGED console
      BY <3>1 DEF IInv, TypeOK, console
    <3>2. CASE /\ \E c \in Consoles : adminServer' = c /\ live' = live \cup {c}
               /\ Admin' = Wanted(t)
      BY <2>0, <3>2 DEF IInv, TypeOK
    <3>. QED BY <1>13, <3>1, <3>2 DEF Start
  <2>. QED BY <2>1, <2>2, <2>3, <2>4, <2>5 DEF TypeOK
<1>14. CASE TimerFires
  BY <1>14 DEF IInv, TypeOK, UnderMu, Held, Recorded, Places, TimerFires, At, Ends, disk,
    asking, force, console
<1>15. CASE Hangup
  BY <1>15 DEF IInv, TypeOK, UnderMu, Held, Recorded, Places, Hangup, At, Ends, disk,
    asking, force, console
<1>16. CASE Edit
  <2>1. (/\ path \in Files /\ tmp \in Files \cup {None} /\ watched \in Files \cup {None}
        /\ content \in [Files -> SUBSET Texts])'
    BY <1>16 DEF IInv, TypeOK, Edit, First, Named, Written, At, Ends, disk, asking, force,
       console
  <2>0. armed' \in BOOLEAN /\ unseen' \in BOOLEAN
    BY <1>16, Zenon DEF IInv, TypeOK, Edit, Named, Written
  <2>2. (/\ mounted \in BOOLEAN /\ armed \in BOOLEAN /\ unseen \in BOOLEAN
        /\ edits \in 0 .. MaxEdits /\ revisions \subseteq Texts)'
    BY <1>16, <2>0 DEF IInv, TypeOK, Edit
  <2>3. (/\ pc \in [Threads -> Places] /\ at \in [Requests -> Consoles \cup {None}]
        /\ text \in [Requests -> Texts \cup {None}]
        /\ fd \in [Requests -> Files \cup {None}] /\ mu \in Threads \cup {None})'
    BY <1>16 DEF IInv, TypeOK, Places, Edit, First, Named, Written, At, Ends, disk,
       asking, force, console
  <2>4. (/\ cfg \in [Threads -> Documents \cup {None}] /\ ref \in Documents
        /\ limits \in Documents)'
    BY <1>16 DEF IInv, TypeOK, Edit, First, Named, Written, At, Ends, disk, asking, force,
       console
  <2>5. (/\ adminServer \in Consoles \cup {None} /\ Admin \in Addresses
        /\ live \subseteq Consoles)'
    BY <1>16 DEF IInv, TypeOK, Edit, First, Named, Written, At, Ends, disk, asking, force,
       console
  <2>. QED BY <2>1, <2>2, <2>3, <2>4, <2>5 DEF TypeOK
<1>. QED BY <1>1, <1>2, <1>3, <1>4, <1>5, <1>6, <1>7, <1>8, <1>9, <1>10, <1>11, <1>12, <1>13, <1>14, <1>15, <1>16
       DEF Next, Saving, Applying

\* Only the owner of the mutex is in the part of Reload that changes what is in force.
LEMMA MuStep == IInv /\ Next => UnderMu'
<1>. SUFFICES ASSUME IInv, Next PROVE UnderMu'
  OBVIOUS
<1>. USE Facts
<1>1. ASSUME NEW q \in Requests, Put(q) PROVE UnderMu'
  BY <1>1 DEF IInv, TypeOK, UnderMu, Held, Put, Accepted, Records, Row, At, Ends, disk,
    asking, force, console
<1>2. ASSUME NEW q \in Requests, Restore(q) PROVE UnderMu'
  BY <1>2 DEF IInv, TypeOK, UnderMu, Held, Restore, Accepted, Records, Row, At, Ends,
    disk, asking, force, console
<1>3. ASSUME NEW q \in Requests, Reload(q) PROVE UnderMu'
  BY <1>3 DEF IInv, TypeOK, UnderMu, Held, Reload, Accepted, At, Ends, disk, asking,
    force, console
<1>4. ASSUME NEW q \in Requests, OpenTmp(q) PROVE UnderMu'
  BY <1>4 DEF IInv, TypeOK, UnderMu, Held, OpenTmp, Opened, First, Written, At, Ends,
    disk, asking, force, console
<1>5. ASSUME NEW q \in Requests, WriteTmp(q) PROVE UnderMu'
  BY <1>5 DEF IInv, TypeOK, UnderMu, Held, WriteTmp, Writes, Written, At, Ends, disk,
    asking, force, console
<1>6. ASSUME NEW q \in Requests, Rename(q) PROVE UnderMu'
  BY <1>6 DEF IInv, TypeOK, UnderMu, Held, Rename, Named, Written, At, Ends, disk,
    asking, force, console
<1>7. ASSUME NEW q \in Requests, Rewrite(q) PROVE UnderMu'
  BY <1>7 DEF IInv, TypeOK, UnderMu, Held, Rewrite, Writes, Written, At, Ends, disk,
    asking, force, console
<1>8. ASSUME NEW q \in Requests, RemoveTmp(q) PROVE UnderMu'
  BY <1>8 DEF IInv, TypeOK, UnderMu, Held, RemoveTmp, At, Ends, disk, asking, force,
    console
<1>9. ASSUME NEW t \in Threads, Load(t) PROVE UnderMu'
  BY <1>9 DEF IInv, TypeOK, UnderMu, Held, Load, Valid, At, Ends, disk, asking, force,
    console
<1>10. ASSUME NEW t \in Threads, UpdateConfig(t) PROVE UnderMu'
  BY <1>10 DEF IInv, TypeOK, UnderMu, Held, UpdateConfig, At, Ends, disk, asking, force,
    console
<1>11. ASSUME NEW t \in Threads, ReconcileAdmin(t) PROVE UnderMu'
  BY <1>11 DEF IInv, TypeOK, UnderMu, Held, ReconcileAdmin, Settled, Wanted, Returns,
    Goes, Closed, At, Ends, disk, asking, force, console
<1>12. ASSUME NEW t \in Threads, Stopped(t) PROVE UnderMu'
  BY <1>12 DEF IInv, TypeOK, UnderMu, Held, Stopped, Waited, Wanted, Returns, Goes, At,
    Ends, disk, asking, force, console
<1>13. ASSUME NEW t \in Threads, Start(t) PROVE UnderMu'
  BY <1>13 DEF IInv, TypeOK, UnderMu, Held, Start, First, Wanted, Returns, At, Ends,
    disk, asking, force, console
<1>14. CASE TimerFires
  BY <1>14 DEF IInv, TypeOK, UnderMu, Held, TimerFires, At, Ends, disk, asking, force,
    console
<1>15. CASE Hangup
  BY <1>15 DEF IInv, TypeOK, UnderMu, Held, Hangup, At, Ends, disk, asking, force, console
<1>16. CASE Edit
  BY <1>16 DEF IInv, TypeOK, UnderMu, Held, Edit, First, Named, Written, At, Ends, disk,
    asking, force, console
<1>. QED BY <1>1, <1>2, <1>3, <1>4, <1>5, <1>6, <1>7, <1>8, <1>9, <1>10, <1>11, <1>12, <1>13, <1>14, <1>15, <1>16
       DEF Next, Saving, Applying

\* A console is started when none listens.
LEMMA ConsoleStep == IInv /\ Next => OneListens'
<1>. SUFFICES ASSUME IInv, Next PROVE OneListens'
  OBVIOUS
<1>. USE Facts
<1>1. ASSUME NEW q \in Requests, Put(q) PROVE OneListens'
  BY <1>1 DEF IInv, TypeOK, UnderMu, OneListens, Held, Put, Accepted, Records, Row, At,
    Ends, disk, asking, force, console
<1>2. ASSUME NEW q \in Requests, Restore(q) PROVE OneListens'
  BY <1>2 DEF IInv, TypeOK, UnderMu, OneListens, Held, Restore, Accepted, Records, Row,
    At, Ends, disk, asking, force, console
<1>3. ASSUME NEW q \in Requests, Reload(q) PROVE OneListens'
  BY <1>3 DEF IInv, TypeOK, UnderMu, OneListens, Held, Reload, Accepted, At, Ends, disk,
    asking, force, console
<1>4. ASSUME NEW q \in Requests, OpenTmp(q) PROVE OneListens'
  BY <1>4 DEF IInv, TypeOK, UnderMu, OneListens, Held, OpenTmp, Opened, First, Written,
    At, Ends, disk, asking, force, console
<1>5. ASSUME NEW q \in Requests, WriteTmp(q) PROVE OneListens'
  BY <1>5 DEF IInv, TypeOK, UnderMu, OneListens, Held, WriteTmp, Writes, Written, At,
    Ends, disk, asking, force, console
<1>6. ASSUME NEW q \in Requests, Rename(q) PROVE OneListens'
  BY <1>6 DEF IInv, TypeOK, UnderMu, OneListens, Held, Rename, Named, Written, At, Ends,
    disk, asking, force, console
<1>7. ASSUME NEW q \in Requests, Rewrite(q) PROVE OneListens'
  BY <1>7 DEF IInv, TypeOK, UnderMu, OneListens, Held, Rewrite, Writes, Written, At,
    Ends, disk, asking, force, console
<1>8. ASSUME NEW q \in Requests, RemoveTmp(q) PROVE OneListens'
  BY <1>8 DEF IInv, TypeOK, UnderMu, OneListens, Held, RemoveTmp, At, Ends, disk, asking,
    force, console
<1>9. ASSUME NEW t \in Threads, Load(t) PROVE OneListens'
  BY <1>9 DEF IInv, TypeOK, UnderMu, OneListens, Held, Load, Valid, At, Ends, disk,
    asking, force, console
<1>10. ASSUME NEW t \in Threads, UpdateConfig(t) PROVE OneListens'
  BY <1>10 DEF IInv, TypeOK, UnderMu, OneListens, Held, UpdateConfig, At, Ends, disk,
    asking, force, console
<1>11. ASSUME NEW t \in Threads, ReconcileAdmin(t) PROVE OneListens'
  <2>1. /\ pc[t] = "admin" /\ t \in Threads /\ adminServer' = adminServer
        /\ \A u \in Threads : u # t => pc'[u] = pc[u] /\ pc[u] \notin Held
    BY <1>11 DEF IInv, TypeOK, UnderMu, Held, ReconcileAdmin, Returns, Goes, At, Ends, disk,
       asking, force, console
  <2>2. CASE Settled(t) /\ Returns(t, "ok") /\ UNCHANGED live
    <3>1. pc'[t] \in {"ok", "idle"}
      BY <2>1, <2>2 DEF IInv, TypeOK, Returns, Ends, At
    <3>. QED BY <2>1, <2>2, <3>1 DEF IInv, OneListens, Held
  <2>3. CASE adminServer = None /\ Goes(t, "start") /\ UNCHANGED live
    <3>1. pc'[t] = "start" /\ live = {}
      BY <2>1, <2>3 DEF IInv, TypeOK, OneListens, Goes, At
    <3>. QED BY <2>1, <2>3, <3>1 DEF IInv, OneListens, Held
  <2>4. CASE adminServer # None /\ live' = Closed(adminServer) /\ Goes(t, "stopping")
    <3>1. pc'[t] = "stopping" /\ live' = {}
      BY <2>1, <2>4 DEF IInv, TypeOK, OneListens, Goes, At, Closed
    <3>. QED BY <2>1, <2>4, <3>1 DEF IInv, OneListens, Held
  <2>. QED BY <1>11, <2>2, <2>3, <2>4 DEF ReconcileAdmin
<1>12. ASSUME NEW t \in Threads, Stopped(t) PROVE OneListens'
  BY <1>12 DEF IInv, TypeOK, UnderMu, OneListens, Held, Stopped, Waited, Wanted, Returns,
    Goes, At, Ends, disk, asking, force, console
<1>13. ASSUME NEW t \in Threads, Start(t) PROVE OneListens'
  <2>1. /\ pc[t] = "start" /\ live = {}
        /\ \A u \in Threads : u # t => pc'[u] = pc[u] /\ pc[u] \notin Held
        /\ pc'[t] \in {"ok", "error", "idle"}
    BY <1>13 DEF IInv, TypeOK, UnderMu, OneListens, Held, Start, Returns, At, Ends
  <2>2. live' \subseteq {adminServer'}
    BY <1>13, <2>1 DEF Start, console
  <2>. QED BY <2>1, <2>2 DEF OneListens, Held
<1>14. CASE TimerFires
  BY <1>14 DEF IInv, TypeOK, UnderMu, OneListens, Held, TimerFires, At, Ends, disk,
    asking, force, console
<1>15. CASE Hangup
  BY <1>15 DEF IInv, TypeOK, UnderMu, OneListens, Held, Hangup, At, Ends, disk, asking,
    force, console
<1>16. CASE Edit
  BY <1>16 DEF IInv, TypeOK, UnderMu, OneListens, Held, Edit, First, Named, Written, At,
    Ends, disk, asking, force, console
<1>. QED BY <1>1, <1>2, <1>3, <1>4, <1>5, <1>6, <1>7, <1>8, <1>9, <1>10, <1>11, <1>12, <1>13, <1>14, <1>15, <1>16
       DEF Next, Saving, Applying

\* Texts reach files by way of the revision table.
LEMMA RecordedStep == IInv /\ Next => Recorded'
<1>. SUFFICES ASSUME IInv, Next PROVE Recorded'
  OBVIOUS
<1>. USE Facts
<1>1. ASSUME NEW q \in Requests, Put(q) PROVE Recorded'
  BY <1>1 DEF IInv, TypeOK, Recorded, Put, Accepted, Records, Row, At, Ends, disk,
    asking, force, console
<1>2. ASSUME NEW q \in Requests, Restore(q) PROVE Recorded'
  BY <1>2 DEF IInv, TypeOK, Recorded, Restore, Accepted, Records, Row, At, Ends, disk,
    asking, force, console
<1>3. ASSUME NEW q \in Requests, Reload(q) PROVE Recorded'
  BY <1>3 DEF IInv, TypeOK, Recorded, Reload, Accepted, At, Ends, disk, asking, force,
    console
<1>4. ASSUME NEW q \in Requests, OpenTmp(q) PROVE Recorded'
  BY <1>4 DEF IInv, TypeOK, Recorded, OpenTmp, Opened, First, Written, At, Ends, disk,
    asking, force, console
<1>5. ASSUME NEW q \in Requests, WriteTmp(q) PROVE Recorded'
  <2>1. /\ pc[q] = "write" /\ pc' = [pc EXCEPT ![q] = "rename"] /\ Writes(q)
        /\ UNCHANGED <<path, tmp, watched, unseen, mounted, edits, revisions, at, text, mu, cfg,
                       ref, limits, adminServer, Admin, live>>
    BY <1>5 DEF WriteTmp, At, force, console
  <2>. QED BY <2>1, WriteFacts DEF IInv, TypeOK, Recorded
<1>6. ASSUME NEW q \in Requests, Rename(q) PROVE Recorded'
  BY <1>6 DEF IInv, TypeOK, Recorded, Rename, Named, Written, At, Ends, disk, asking,
    force, console
<1>7. ASSUME NEW q \in Requests, Rewrite(q) PROVE Recorded'
  <2>1. /\ pc[q] = "rewrite" /\ pc' = [pc EXCEPT ![q] = "remove"] /\ Writes(q)
        /\ UNCHANGED <<path, tmp, watched, unseen, mounted, edits, revisions, at, text, mu, cfg,
                       ref, limits, adminServer, Admin, live>>
    BY <1>7 DEF Rewrite, At, force, console
  <2>. QED BY <2>1, WriteFacts DEF IInv, TypeOK, Recorded
<1>8. ASSUME NEW q \in Requests, RemoveTmp(q) PROVE Recorded'
  BY <1>8 DEF IInv, TypeOK, Recorded, RemoveTmp, At, Ends, disk, asking, force, console
<1>9. ASSUME NEW t \in Threads, Load(t) PROVE Recorded'
  BY <1>9 DEF IInv, TypeOK, Recorded, Load, Valid, At, Ends, disk, asking, force, console
<1>10. ASSUME NEW t \in Threads, UpdateConfig(t) PROVE Recorded'
  BY <1>10 DEF IInv, TypeOK, Recorded, UpdateConfig, At, Ends, disk, asking, force,
    console
<1>11. ASSUME NEW t \in Threads, ReconcileAdmin(t) PROVE Recorded'
  BY <1>11 DEF IInv, TypeOK, Recorded, ReconcileAdmin, Settled, Wanted, Returns, Goes,
    Closed, At, Ends, disk, asking, force, console
<1>12. ASSUME NEW t \in Threads, Stopped(t) PROVE Recorded'
  BY <1>12 DEF IInv, TypeOK, Recorded, Stopped, Waited, Wanted, Returns, Goes, At, Ends,
    disk, asking, force, console
<1>13. ASSUME NEW t \in Threads, Start(t) PROVE Recorded'
  BY <1>13 DEF IInv, TypeOK, Recorded, Start, First, Wanted, Returns, At, Ends, disk,
    asking, force, console
<1>14. CASE TimerFires
  BY <1>14 DEF IInv, TypeOK, Recorded, TimerFires, At, Ends, disk, asking, force, console
<1>15. CASE Hangup
  BY <1>15 DEF IInv, TypeOK, Recorded, Hangup, At, Ends, disk, asking, force, console
<1>16. CASE Edit
  BY <1>16 DEF IInv, TypeOK, Recorded, Edit, First, Named, Written, At, Ends, disk,
    asking, force, console
<1>. QED BY <1>1, <1>2, <1>3, <1>4, <1>5, <1>6, <1>7, <1>8, <1>9, <1>10, <1>11, <1>12, <1>13, <1>14, <1>15, <1>16
       DEF Next, Saving, Applying

\* Who changes the file is about to reload it, or has armed the watcher's timer.
LEMMA ReloadStep == IInv /\ Next => ToReload'
<1>. SUFFICES ASSUME IInv, Next PROVE ToReload'
  OBVIOUS
<1>. USE Facts
<1>1. ASSUME NEW q \in Requests, Put(q) PROVE ToReload'
  BY <1>1 DEF IInv, TypeOK, ToReload, Saves, Put, Accepted, Records, Row, At, Ends, disk,
    asking, force, console
<1>2. ASSUME NEW q \in Requests, Restore(q) PROVE ToReload'
  BY <1>2 DEF IInv, TypeOK, ToReload, Saves, Restore, Accepted, Records, Row, At, Ends,
    disk, asking, force, console
<1>3. ASSUME NEW q \in Requests, Reload(q) PROVE ToReload'
  BY <1>3 DEF IInv, TypeOK, ToReload, Saves, Reload, Accepted, At, Ends, disk, asking,
    force, console
<1>4. ASSUME NEW q \in Requests, OpenTmp(q) PROVE ToReload'
  BY <1>4 DEF IInv, TypeOK, ToReload, Saves, OpenTmp, Opened, First, Written, At, Ends,
    disk, asking, force, console
<1>5. ASSUME NEW q \in Requests, WriteTmp(q) PROVE ToReload'
  BY <1>5 DEF IInv, TypeOK, ToReload, Saves, WriteTmp, Writes, Written, At, Ends, disk,
    asking, force, console
<1>6. ASSUME NEW q \in Requests, Rename(q) PROVE ToReload'
  BY <1>6 DEF IInv, TypeOK, ToReload, Saves, Rename, Named, Written, At, Ends, disk,
    asking, force, console
<1>7. ASSUME NEW q \in Requests, Rewrite(q) PROVE ToReload'
  BY <1>7 DEF IInv, TypeOK, ToReload, Saves, Rewrite, Writes, Written, At, Ends, disk,
    asking, force, console
<1>8. ASSUME NEW q \in Requests, RemoveTmp(q) PROVE ToReload'
  BY <1>8 DEF IInv, TypeOK, ToReload, Saves, RemoveTmp, At, Ends, disk, asking, force,
    console
<1>9. ASSUME NEW t \in Threads, Load(t) PROVE ToReload'
  BY <1>9 DEF IInv, TypeOK, ToReload, Saves, Load, Valid, At, Ends, disk, asking, force,
    console
<1>10. ASSUME NEW t \in Threads, UpdateConfig(t) PROVE ToReload'
  BY <1>10 DEF IInv, TypeOK, ToReload, Saves, UpdateConfig, At, Ends, disk, asking,
    force, console
<1>11. ASSUME NEW t \in Threads, ReconcileAdmin(t) PROVE ToReload'
  BY <1>11 DEF IInv, TypeOK, ToReload, Saves, ReconcileAdmin, Settled, Wanted, Returns,
    Goes, Closed, At, Ends, disk, asking, force, console
<1>12. ASSUME NEW t \in Threads, Stopped(t) PROVE ToReload'
  BY <1>12 DEF IInv, TypeOK, ToReload, Saves, Stopped, Waited, Wanted, Returns, Goes, At,
    Ends, disk, asking, force, console
<1>13. ASSUME NEW t \in Threads, Start(t) PROVE ToReload'
  BY <1>13 DEF IInv, TypeOK, ToReload, Saves, Start, First, Wanted, Returns, At, Ends,
    disk, asking, force, console
<1>14. CASE TimerFires
  BY <1>14 DEF IInv, TypeOK, ToReload, Saves, TimerFires, At, Ends, disk, asking, force,
    console
<1>15. CASE Hangup
  BY <1>15 DEF IInv, TypeOK, ToReload, Saves, Hangup, At, Ends, disk, asking, force,
    console
<1>16. CASE Edit
  BY <1>16 DEF IInv, TypeOK, ToReload, Saves, Edit, First, Named, Written, At, Ends,
    disk, asking, force, console
<1>. QED BY <1>1, <1>2, <1>3, <1>4, <1>5, <1>6, <1>7, <1>8, <1>9, <1>10, <1>11, <1>12, <1>13, <1>14, <1>15, <1>16
       DEF Next, Saving, Applying

\* A file that is cut off is open; alone, a request writes a file of its own.
LEMMA OpenStep == IInv /\ Next => OpenFiles'
<1>. SUFFICES ASSUME IInv, Next PROVE OpenFiles'
  OBVIOUS
<1>. USE Facts
<1>1. ASSUME NEW q \in Requests, Put(q) PROVE OpenFiles'
  BY <1>1 DEF IInv, TypeOK, Recorded, OpenFiles, Others, Other, Came, Put, Accepted, Records, Row, At,
    Ends, disk, asking, force, console
<1>2. ASSUME NEW q \in Requests, Restore(q) PROVE OpenFiles'
  BY <1>2 DEF IInv, TypeOK, Recorded, OpenFiles, Others, Other, Came, Restore, Accepted, Records, Row,
    At, Ends, disk, asking, force, console
<1>3. ASSUME NEW q \in Requests, Reload(q) PROVE OpenFiles'
  BY <1>3 DEF IInv, TypeOK, Recorded, OpenFiles, Others, Other, Came, Reload, Accepted, At, Ends,
    disk, asking, force, console
<1>4. ASSUME NEW q \in Requests, OpenTmp(q) PROVE OpenFiles'
  BY <1>4 DEF IInv, TypeOK, Recorded, OpenFiles, Others, Other, Came, OpenTmp, Opened, First, Written,
    At, Ends, disk, asking, force, console
<1>5. ASSUME NEW q \in Requests, WriteTmp(q) PROVE OpenFiles'
  <2>1. /\ pc[q] = "write" /\ pc' = [pc EXCEPT ![q] = "rename"] /\ Writes(q)
        /\ UNCHANGED <<path, tmp, watched, unseen, mounted, edits, revisions, at, text, mu, cfg,
                       ref, limits, adminServer, Admin, live>>
    BY <1>5 DEF WriteTmp, At, force, console
  <2>. QED BY <2>1, WriteFacts DEF IInv, TypeOK, OpenFiles, Others, Other, Came
<1>6. ASSUME NEW q \in Requests, Rename(q) PROVE OpenFiles'
  <2>0. pc[q] = "rename" /\ \A r \in Requests : r = q \/ (pc'[r] = pc[r] /\ fd'[r] = fd[r])
    BY <1>6 DEF IInv, TypeOK, Rename, At
  <2>1. CASE /\ tmp # None /\ tmp' = None /\ path' = tmp /\ pc'[q] = "lock"
             /\ UNCHANGED <<content, mounted>>
    <3>1. \A r \in Requests : r # q => Others(r)'
      BY <2>1 DEF Others, Other, Came
    <3>. QED BY <2>0, <2>1, <3>1 DEF IInv, TypeOK, OpenFiles
  <2>2. CASE /\ content' = [content EXCEPT ![path] = {}]
             /\ fd' = [fd EXCEPT ![q] = path]
             /\ pc'[q] = "rewrite" /\ UNCHANGED <<tmp, path, mounted>>
             /\ mounted \/ tmp = None
    <3>1. fd'[q] = path /\ \A f \in Files : f # path => content'[f] = content[f]
      BY <2>2 DEF IInv, TypeOK
    <3>2. \A r \in Requests : Others(r) => Others(r)'
      BY <2>0, <2>2 DEF Others, Other, Came
    <3>. QED BY <2>0, <2>2, <3>1, <3>2 DEF IInv, TypeOK, OpenFiles
  <2>. QED BY <1>6, <2>1, <2>2 DEF IInv, TypeOK, Rename, Named, At
<1>7. ASSUME NEW q \in Requests, Rewrite(q) PROVE OpenFiles'
  <2>1. /\ pc[q] = "rewrite" /\ pc' = [pc EXCEPT ![q] = "remove"] /\ Writes(q)
        /\ UNCHANGED <<path, tmp, watched, unseen, mounted, edits, revisions, at, text, mu, cfg,
                       ref, limits, adminServer, Admin, live>>
    BY <1>7 DEF Rewrite, At, force, console
  <2>. QED BY <2>1, WriteFacts DEF IInv, TypeOK, OpenFiles, Others, Other, Came
<1>8. ASSUME NEW q \in Requests, RemoveTmp(q) PROVE OpenFiles'
  BY <1>8 DEF IInv, TypeOK, Recorded, OpenFiles, Others, Other, Came, RemoveTmp, At, Ends, disk,
    asking, force, console
<1>9. ASSUME NEW t \in Threads, Load(t) PROVE OpenFiles'
  BY <1>9 DEF IInv, TypeOK, Recorded, OpenFiles, Others, Other, Came, Load, Valid, At, Ends, disk,
    asking, force, console
<1>10. ASSUME NEW t \in Threads, UpdateConfig(t) PROVE OpenFiles'
  BY <1>10 DEF IInv, TypeOK, Recorded, OpenFiles, Others, Other, Came, UpdateConfig, At, Ends, disk,
    asking, force, console
<1>11. ASSUME NEW t \in Threads, ReconcileAdmin(t) PROVE OpenFiles'
  BY <1>11 DEF IInv, TypeOK, Recorded, OpenFiles, Others, Other, Came, ReconcileAdmin, Settled,
    Wanted, Returns, Goes, Closed, At, Ends, disk, asking, force, console
<1>12. ASSUME NEW t \in Threads, Stopped(t) PROVE OpenFiles'
  BY <1>12 DEF IInv, TypeOK, Recorded, OpenFiles, Others, Other, Came, Stopped, Waited, Wanted,
    Returns, Goes, At, Ends, disk, asking, force, console
<1>13. ASSUME NEW t \in Threads, Start(t) PROVE OpenFiles'
  BY <1>13 DEF IInv, TypeOK, Recorded, OpenFiles, Others, Other, Came, Start, First, Wanted, Returns,
    At, Ends, disk, asking, force, console
<1>14. CASE TimerFires
  BY <1>14 DEF IInv, TypeOK, Recorded, OpenFiles, Others, Other, Came, TimerFires, At, Ends, disk,
    asking, force, console
<1>15. CASE Hangup
  BY <1>15 DEF IInv, TypeOK, Recorded, OpenFiles, Others, Other, Came, Hangup, At, Ends, disk, asking,
    force, console
<1>16. CASE Edit
  <2>1. UNCHANGED <<tmp, mounted, pc, fd>> /\ path \in Files /\ tmp # path
    BY <1>16 DEF IInv, TypeOK, OpenFiles, Edit, asking
  <2>2. PICK f \in Files, d \in Typed \cup {Bad} : f # tmp /\ path' = f /\ content' = [content EXCEPT ![f] = {d}]
    BY <1>16, <2>1 DEF Edit, First, Named
  <2>3. content'[f] # {} /\ \A g \in Files : g # f => content'[g] = content[g]
    BY <2>2 DEF IInv, TypeOK
  <2>4. tmp' # path'
    BY <2>1, <2>2
  <2>5. ASSUME NEW g \in Files, g \in {path', tmp'}, content'[g] = {}
        PROVE  \E q \in Requests : fd[q] = g /\ pc[q] \in {"write", "rewrite"}
    BY <2>1, <2>2, <2>3, <2>5 DEF IInv, OpenFiles
  <2>. QED BY <2>1, <2>4, <2>5 DEF IInv, OpenFiles, Others, Came
<1>. QED BY <1>1, <1>2, <1>3, <1>4, <1>5, <1>6, <1>7, <1>8, <1>9, <1>10, <1>11, <1>12, <1>13, <1>14, <1>15, <1>16
       DEF Next, Saving, Applying

\* What has come stays, and what is past stays past.
LEMMA Onward ==
    ASSUME IInv, Next
    PROVE  /\ mounted' = mounted
           /\ edits > 0 => edits' > 0
           /\ \A q \in Requests : (Came(q) => Came(q)') /\ (Past(q) => Past(q)')
<1>. USE Facts
<1>1. mounted' = mounted
  BY DEF IInv, Next, Saving, Applying, Put, Restore, Reload, Accepted, Records, OpenTmp, WriteTmp,
     Rename, Rewrite, RemoveTmp, Load, UpdateConfig, ReconcileAdmin, Stopped, Start, TimerFires,
     Hangup, Edit
<1>2. edits > 0 => edits' > 0
  <2>1. edits' = edits \/ edits' = edits + 1
    BY DEF IInv, Next, Saving, Applying, Put, Restore, Reload, Accepted, Records, OpenTmp, WriteTmp,
       Rename, Rewrite, RemoveTmp, Load, UpdateConfig, ReconcileAdmin, Stopped, Start, TimerFires,
       Hangup, Edit
  <2>2. edits \in Nat
    BY DEF IInv, TypeOK
  <2>. QED BY <2>1, <2>2
<1>3. ASSUME NEW q \in Requests, pc'[q] # pc[q]
      PROVE  /\ pc'[q] # "new"
             /\ pc'[q] \in {"check", "write", "rename", "rewrite"}
                => pc[q] \in {"new", "check", "write", "rename"}
  <2>1. CASE \E r \in Requests : Put(r) \/ Restore(r) \/ Reload(r)
    BY <1>3, <2>1 DEF IInv, TypeOK, Put, Restore, Reload, Accepted, Records, At
  <2>2. CASE \E r \in Requests : Saving(r)
    BY <1>3, <2>2 DEF IInv, TypeOK, Saving, OpenTmp, WriteTmp, Rename, Rewrite, RemoveTmp, At, Ends
  <2>3. CASE \E t \in Threads : Load(t) \/ UpdateConfig(t)
    BY <1>3, <2>3 DEF IInv, TypeOK, Load, UpdateConfig, At, Ends
  <2>4. CASE \E t \in Threads : ReconcileAdmin(t) \/ Stopped(t) \/ Start(t)
    BY <1>3, <2>4 DEF IInv, TypeOK, ReconcileAdmin, Stopped, Start, Returns, Goes, At, Ends
  <2>5. CASE TimerFires \/ Hangup \/ Edit
    BY <1>3, <2>5 DEF IInv, TypeOK, TimerFires, Hangup, Edit, At
  <2>. QED BY <2>1, <2>2, <2>3, <2>4, <2>5 DEF Next, Applying
<1>. QED BY <1>1, <1>2, <1>3 DEF Came, Past

\* It does not become less crowded.
LEMMA CrowdStays ==
    ASSUME IInv, Next, Crowded
    PROVE  Crowded'
BY Onward DEF Crowded, Other

\* A fallback has nobody beside it, unless it is crowded.
LEMMA AloneInFallback ==
    ASSUME IInv, ~Crowded, NEW q \in Requests, pc[q] \in Falls
    PROVE  \A r \in Other(q) : pc[r] \notin {"check", "write", "rename", "rewrite"}
<1>0. Came(q) /\ Other(q) \subseteq Requests
  BY DEF Came, Falls, Other
<1>1. CASE mounted
  <2>1. \A r \in Other(q) : ~Came(r)
    BY <1>0, <1>1 DEF Crowded
  <2>. QED BY <2>1 DEF Came
<1>2. CASE ~mounted
  <2>1. PICK r \in Other(q) : Past(r)
    BY <1>2 DEF IInv, Shared
  <2>2. Came(r)
    BY <2>1 DEF Came, Past
  <2>3. \A s \in Other(q) \ {r} : ~Came(s)
    BY <1>0, <2>2 DEF Crowded
  <2>. QED BY <2>1, <2>3 DEF Came, Past
<1>. QED BY <1>1, <1>2

\* The parts of Shared that hold however crowded it is.
LEMMA OwedStep ==
    ASSUME IInv, Next
    PROVE  \A q \in Requests :
              /\ pc'[q] \in Falls => mounted' \/ \E r \in Other(q) : Past(r)'
              /\ pc'[q] \in {"write", "rename"} => tmp' # None \/ \E r \in Other(q) : Past(r)'
<1>. USE Facts DEF Falls
<1>. DEFINE Owed(q) ==
              /\ pc'[q] \in Falls => mounted' \/ \E r \in Other(q) : Past(r)'
              /\ pc'[q] \in {"write", "rename"} => tmp' # None \/ \E r \in Other(q) : Past(r)'
<1>0. /\ mounted' = mounted /\ \A r \in Requests : Past(r) => Past(r)'
      /\ \A r \in Requests : Other(r) \subseteq Requests
  BY Onward DEF Other
<1>1. ASSUME NEW q \in Requests, pc'[q] = pc[q], tmp' = tmp \/ tmp' # None PROVE Owed(q)
  BY <1>0, <1>1 DEF IInv, Shared
<1>2. ASSUME NEW q \in Requests, pc'[q] \notin {"write", "rename", "rewrite", "remove"} PROVE Owed(q)
  BY <1>2
<1>3. ASSUME NEW q \in Requests, Put(q) \/ Restore(q) \/ Reload(q)
      PROVE  \A r \in Requests : Owed(r)
  <2>1. /\ tmp' = tmp /\ pc'[q] \in {"check", "lock"}
        /\ \A r \in Requests : r = q \/ pc'[r] = pc[r]
    BY <1>3 DEF IInv, TypeOK, Put, Restore, Reload, Accepted, Records, At, disk
  <2>. QED BY <1>1, <1>2, <2>1
<1>4. ASSUME NEW q \in Requests, OpenTmp(q) PROVE \A r \in Requests : Owed(r)
  <2>1. CASE text[q] = Bad
    <3>1. /\ tmp' = tmp /\ pc'[q] = "error"
          /\ \A r \in Requests : r = q \/ pc'[r] = pc[r]
      BY <1>4, <2>1 DEF IInv, TypeOK, OpenTmp, At, Ends
    <3>. QED BY <1>1, <1>2, <3>1
  <2>2. CASE text[q] # Bad
    <3>1. /\ tmp' \in Files /\ tmp' # None /\ pc'[q] = "write"
          /\ \A r \in Requests : r = q \/ pc'[r] = pc[r]
      BY <1>4, <2>2 DEF IInv, TypeOK, OpenTmp, At
    <3>. QED BY <1>1, <3>1
  <2>. QED BY <2>1, <2>2
<1>5. ASSUME NEW q \in Requests, WriteTmp(q) PROVE \A r \in Requests : Owed(r)
  <2>1. /\ tmp' = tmp /\ pc[q] = "write" /\ pc'[q] = "rename"
        /\ \A r \in Requests : r = q \/ pc'[r] = pc[r]
    BY <1>5 DEF IInv, TypeOK, WriteTmp, At
  <2>. QED BY <1>0, <1>1, <2>1 DEF IInv, Shared
<1>6. ASSUME NEW q \in Requests, Rename(q) PROVE \A r \in Requests : Owed(r)
  <2>0. \A r \in Requests : r = q \/ pc'[r] = pc[r]
    BY <1>6 DEF IInv, TypeOK, Rename, At
  <2>1. CASE pc'[q] = "lock"
    <3>1. Past(q)' /\ \A r \in Requests : r # q => q \in Other(r)
      BY <2>1 DEF Past, Other
    <3>. QED BY <1>0, <2>0, <2>1, <3>1 DEF IInv, Shared
  <2>2. CASE tmp' = tmp /\ pc[q] = "rename" /\ pc'[q] = "rewrite" /\ (mounted \/ tmp = None)
    BY <1>0, <1>1, <2>0, <2>2 DEF IInv, Shared
  <2>. QED BY <1>6, <2>1, <2>2 DEF IInv, TypeOK, Rename, At
<1>7. ASSUME NEW q \in Requests, Rewrite(q) PROVE \A r \in Requests : Owed(r)
  <2>1. /\ tmp' = tmp /\ pc[q] = "rewrite" /\ pc'[q] = "remove"
        /\ \A r \in Requests : r = q \/ pc'[r] = pc[r]
    BY <1>7 DEF IInv, TypeOK, Rewrite, At
  <2>. QED BY <1>0, <1>1, <2>1 DEF IInv, Shared
<1>70. ASSUME NEW q \in Requests, RemoveTmp(q) PROVE \A r \in Requests : Owed(r)
  <2>1. /\ pc'[q] = "lock"
        /\ \A r \in Requests : r = q \/ pc'[r] = pc[r]
    BY <1>70 DEF IInv, TypeOK, RemoveTmp, At
  <2>2. Past(q)' /\ \A r \in Requests : r # q => q \in Other(r)
    BY <2>1 DEF Past, Other
  <2>. QED BY <1>0, <2>1, <2>2 DEF IInv, Shared
<1>8. ASSUME NEW t \in Threads,
             Load(t) \/ UpdateConfig(t) \/ ReconcileAdmin(t) \/ Stopped(t) \/ Start(t)
      PROVE  \A r \in Requests : Owed(r)
  <2>1. /\ tmp' = tmp /\ pc'[t] \notin {"write", "rename", "rewrite", "remove"}
        /\ \A r \in Requests : r = t \/ pc'[r] = pc[r]
    BY <1>8 DEF IInv, TypeOK, Load, UpdateConfig, ReconcileAdmin, Stopped, Start, Returns, Goes,
       At, Ends, disk
  <2>. QED BY <1>1, <1>2, <2>1
<1>9. CASE TimerFires \/ Hangup \/ Edit
  <2>1. tmp' = tmp /\ \A r \in Requests : pc'[r] = pc[r]
    BY <1>9 DEF IInv, TypeOK, TimerFires, Hangup, Edit, At, disk
  <2>. QED BY <1>1, <2>1
<1>. QED BY <1>3, <1>4, <1>5, <1>6, <1>7, <1>70, <1>8, <1>9 DEF Next, Saving, Applying

\* Two saves and the file they share.
LEMMA SharedStep ==
    ASSUME IInv, Next
    PROVE  Shared'
<1>. USE Facts DEF Falls
<1>. DEFINE Kept ==
              /\ \A q \in Requests : pc'[q] = "rewrite" => fd'[q] = path' /\ content'[path'] = {}
              /\ tmp' # None /\ content'[tmp'] # {} =>
                    \E q \in Requests : pc'[q] \in {"rename"} \cup Falls
              /\ tmp' # None /\ Mixed(tmp)' =>
                    \E q \in Requests : /\ pc'[q] = "rename"
                                       /\ \E r \in Other(q) : pc'[r] = "rename"
              /\ Mixed(path)' => \E q \in Requests : pc'[q] = "rename"
<1>. SUFFICES ASSUME ~Crowded' PROVE Kept
  BY OwedStep DEF Shared
<1>0. ~Crowded /\ \A q \in Requests : Other(q) = Requests \ {q}
  BY CrowdStays DEF Other
<1>00. /\ \A q \in Requests : pc[q] = "rewrite" => fd[q] = path /\ content[path] = {}
       /\ tmp # None /\ content[tmp] # {} => \E q \in Requests : pc[q] \in {"rename"} \cup Falls
       /\ tmp # None /\ Mixed(tmp) =>
             \E q \in Requests : pc[q] = "rename" /\ \E r \in Other(q) : pc[r] = "rename"
       /\ Mixed(path) => \E q \in Requests : pc[q] = "rename"
  BY <1>0 DEF IInv, Shared
<1>1. ASSUME UNCHANGED <<path, tmp, content, fd>>,
             \A q \in Requests : \/ pc'[q] = pc[q]
                                \/ /\ pc[q] \notin {"rename"} \cup Falls
                                   /\ pc'[q] \notin {"write", "rename", "rewrite"}
      PROVE  Kept
  BY <1>00, <1>1 DEF Mixed, Other
<1>2. ASSUME NEW q \in Requests, Put(q) \/ Restore(q) \/ Reload(q) PROVE Kept
  <2>1. /\ UNCHANGED <<path, tmp, content, fd>> /\ pc[q] = "new" /\ pc'[q] \in {"check", "lock"}
        /\ \A r \in Requests : r = q \/ pc'[r] = pc[r]
    BY <1>2 DEF IInv, TypeOK, Put, Restore, Reload, Accepted, Records, At, disk, asking
  <2>. QED BY <1>1, <2>1
<1>3. ASSUME NEW q \in Requests, OpenTmp(q) PROVE Kept
  <2>0. pc[q] = "check" /\ path' = path /\ \A r \in Requests : r = q \/ pc'[r] = pc[r]
    BY <1>3 DEF IInv, TypeOK, OpenTmp, At, Ends
  <2>1. CASE text[q] = Bad
    <3>1. UNCHANGED <<tmp, content, fd>> /\ pc'[q] = "error"
      BY <1>3, <2>1 DEF IInv, TypeOK, OpenTmp, At, Ends
    <3>. QED BY <1>1, <2>0, <3>1
  <2>2. CASE text[q] # Bad
    <3>1. PICK f \in Files : /\ Opened(f) /\ tmp' = f
                             /\ content' = [content EXCEPT ![f] = {}]
                             /\ fd' = [fd EXCEPT ![q] = f]
      BY <1>3, <2>2 DEF OpenTmp
    <3>2. pc'[q] = "write" /\ f # path
      BY <1>3, <2>2, <3>1 DEF IInv, TypeOK, OpenFiles, OpenTmp, Opened, First, At
    <3>3. /\ content'[tmp'] = {} /\ content'[path] = content[path]
          /\ \A r \in Requests : r # q => fd'[r] = fd[r]
      BY <3>1, <3>2 DEF IInv, TypeOK
    <3>4. ~Mixed(tmp)' /\ (Mixed(path)' => Mixed(path))
      BY <2>0, <3>3, WholeFacts DEF Mixed
    <3>5. \A r \in Requests : pc'[r] = "rewrite" => fd'[r] = path /\ content[path] = {}
      BY <1>00, <2>0, <3>2, <3>3
    <3>6. \A r \in Requests : pc[r] = "rename" => pc'[r] = "rename"
      BY <2>0
    <3>. QED BY <1>00, <2>0, <3>3, <3>4, <3>5, <3>6
  <2>. QED BY <2>1, <2>2
<1>4. ASSUME NEW q \in Requests, WriteTmp(q) PROVE Kept
  <2>0. /\ pc[q] = "write" /\ pc'[q] = "rename" /\ UNCHANGED <<path, tmp>>
        /\ \A r \in Requests : r = q \/ (pc'[r] = pc[r] /\ fd'[r] = fd[r])
        /\ Writes(q)
    BY <1>4 DEF IInv, TypeOK, WriteTmp, Writes, At
  <2>1. \A r \in Requests : pc'[r] # "rewrite"
    BY <1>0, <2>0, AloneInFallback
  <2>2. \A r \in Requests : pc[r] = "rename" => r # q /\ pc'[r] = "rename"
    BY <2>0
  <2>3. tmp # None /\ Mixed(tmp)' =>
           \E r \in Requests : pc'[r] = "rename" /\ \E u \in Other(r) : pc'[u] = "rename"
    <3>. SUFFICES ASSUME tmp # None, Mixed(tmp)'
                  PROVE  \E r \in Requests : r # q /\ pc[r] = "rename"
      BY <1>0, <2>0, <2>2
    <3>1. CASE fd[q] # tmp
      <4>1. Mixed(tmp)
        BY <2>0, <3>1, WriteFacts DEF IInv, TypeOK, Mixed
      <4>. QED BY <1>00, <2>2, <4>1
    <3>2. CASE fd[q] = tmp
      <4>1. content[tmp] # {}
        BY <2>0, <3>2, WriteFacts, WholeFacts DEF Mixed
      <4>2. PICK r \in Requests : pc[r] \in {"rename"} \cup Falls
        BY <1>00, <4>1
      <4>3. r # q /\ q \in Other(r)
        BY <1>0, <2>0, <4>2
      <4>4. pc[r] \notin Falls
        BY <1>0, <2>0, <4>3, AloneInFallback
      <4>. QED BY <4>2, <4>3, <4>4
    <3>. QED BY <3>1, <3>2
  <2>. QED BY <2>0, <2>1, <2>3
<1>5. ASSUME NEW q \in Requests, Rename(q) PROVE Kept
  <2>0. pc[q] = "rename" /\ \A r \in Requests : r = q \/ pc'[r] = pc[r]
    BY <1>5 DEF IInv, TypeOK, Rename, At
  <2>1. CASE /\ tmp # None /\ tmp' = None /\ path' = tmp /\ pc'[q] = "lock"
             /\ UNCHANGED <<content, fd>>
    <3>1. \A r \in Requests : pc'[r] # "rewrite"
      <4>. SUFFICES ASSUME NEW r \in Requests, r # q, pc[r] = "rewrite" PROVE FALSE
        BY <2>0, <2>1
      <4>. QED BY <1>0, <2>0, AloneInFallback
    <3>2. Mixed(path)' => Mixed(tmp)
      BY <2>1 DEF Mixed
    <3>3. Mixed(tmp) => \E r \in Requests : r # q /\ pc[r] = "rename"
      BY <1>00, <1>0, <2>1
    <3>. QED BY <2>0, <2>1, <3>1, <3>2, <3>3
  <2>2. CASE /\ content' = [content EXCEPT ![path] = {}]
             /\ fd' = [fd EXCEPT ![q] = path]
             /\ pc'[q] = "rewrite" /\ UNCHANGED <<tmp, path>>
    <3>1. \A r \in Requests : r = q \/ pc'[r] # "rewrite"
      BY <1>0, <2>0, AloneInFallback
    <3>2. content'[path] = {} /\ fd'[q] = path /\ ~Mixed(path)'
      BY <2>2, WholeFacts DEF IInv, TypeOK, Mixed
    <3>3. tmp # None => /\ content'[tmp] = content[tmp]
                        /\ mounted /\ \A r \in Requests : r = q \/ pc[r] = "new"
      <4>1. tmp # None => content'[tmp] = content[tmp]
        BY <2>2 DEF IInv, TypeOK, OpenFiles
      <4>2. tmp # None => mounted
        BY <1>5, <2>2 DEF Rename, At, IInv, TypeOK
      <4>3. mounted => \A r \in Requests : r = q \/ pc[r] = "new"
        BY <1>0, <2>0 DEF Crowded, Came
      <4>. QED BY <4>1, <4>2, <4>3
    <3>4. tmp # None => ~Mixed(tmp)'
      <4>1. tmp # None => ~Mixed(tmp)
        BY <1>0, <1>00, <2>0, <3>3
      <4>. QED BY <2>2, <3>3, <4>1 DEF Mixed
    <3>. QED BY <2>2, <3>1, <3>2, <3>4
  <2>. QED BY <1>5, <2>1, <2>2 DEF IInv, TypeOK, Rename, Named, At
<1>6. ASSUME NEW q \in Requests, Rewrite(q) PROVE Kept
  <2>0. /\ pc[q] = "rewrite" /\ pc'[q] = "remove" /\ UNCHANGED <<path, tmp>>
        /\ \A r \in Requests : r = q \/ pc'[r] = pc[r]
        /\ fd[q] = path /\ content[path] = {} /\ Writes(q)
    BY <1>00, <1>6 DEF IInv, TypeOK, Rewrite, At
  <2>1. \A r \in Requests : pc'[r] \notin {"write", "rename", "rewrite"}
    BY <1>0, <2>0, AloneInFallback
  <2>2. ~Mixed(path)'
    BY <2>0, WriteFacts, WholeFacts DEF Mixed
  <2>3. tmp # None => content'[tmp] = content[tmp]
    BY <2>0, WriteFacts DEF IInv, TypeOK, OpenFiles
  <2>4. tmp # None => ~Mixed(tmp)
    BY <1>00, <2>0, <2>1
  <2>. QED BY <2>0, <2>1, <2>2, <2>3, <2>4 DEF Mixed
<1>7. ASSUME NEW q \in Requests, RemoveTmp(q) PROVE Kept
  <2>1. /\ pc[q] = "remove" /\ pc'[q] = "lock" /\ UNCHANGED <<path, content, fd>> /\ tmp' = None
        /\ \A r \in Requests : r = q \/ pc'[r] = pc[r]
    BY <1>7 DEF IInv, TypeOK, RemoveTmp, At
  <2>. QED BY <1>00, <2>1 DEF Mixed
<1>8. ASSUME NEW t \in Threads,
             Load(t) \/ UpdateConfig(t) \/ ReconcileAdmin(t) \/ Stopped(t) \/ Start(t)
      PROVE  Kept
  <2>1. /\ UNCHANGED <<path, tmp, content, fd>>
        /\ pc[t] \notin {"rename"} \cup Falls
        /\ pc'[t] \notin {"write", "rename", "rewrite"}
        /\ \A r \in Requests : r = t \/ pc'[r] = pc[r]
    BY <1>8 DEF IInv, TypeOK, Load, UpdateConfig, ReconcileAdmin, Stopped, Start, Returns, Goes,
       At, Ends, disk, asking
  <2>. QED BY <1>1, <2>1
<1>9. CASE TimerFires \/ Hangup
  <2>1. UNCHANGED <<path, tmp, content, fd>> /\ \A r \in Requests : pc'[r] = pc[r]
    BY <1>9 DEF IInv, TypeOK, TimerFires, Hangup, At, disk, asking
  <2>. QED BY <1>1, <2>1
<1>10. ~Edit
  BY DEF Edit, Crowded, IInv, TypeOK
<1>. QED BY <1>2, <1>3, <1>4, <1>5, <1>6, <1>7, <1>8, <1>9, <1>10 DEF Next, Saving, Applying

-----------------------------------------------------------------------------
LEMMA Inductive == IInv /\ [Next]_vars => IInv'
<1>1. IInv /\ Next => IInv'
  BY TypeStep, MuStep, ConsoleStep, RecordedStep, ReloadStep, OpenStep, SharedStep DEF IInv
<1>2. IInv /\ UNCHANGED vars => IInv'
  <2>. SUFFICES ASSUME IInv, UNCHANGED vars PROVE IInv'
    OBVIOUS
  <2>. USE DEF IInv, vars, disk, asking, force, console
  <2>1. TypeOK' BY DEF TypeOK
  <2>2. UnderMu' /\ OneListens' BY DEF UnderMu, OneListens
  <2>3. Recorded' /\ ToReload' BY DEF Recorded, ToReload
  <2>4. OpenFiles' BY DEF OpenFiles, Others, Came
  <2>5. Shared' BY DEF Shared, Crowded, Came, Past, Mixed
  <2>. QED BY <2>1, <2>2, <2>3, <2>4, <2>5
<1>. QED BY <1>1, <1>2

THEOREM Invariant == Spec => []IInv
BY InitOK, Inductive, PTL DEF Spec

\* What is in force is a document that was accepted, and everything keeps to its range.
THEOREM TypeCorrect == Spec => []TypeOK
BY Invariant, PTL DEF IInv

\* Once saves, reloads and the watcher's timer are done, the document in the file is in
\* force (Manager.Reload, watchConfigFile).
THEOREM InForce == Spec => []SettledInForce
<1>1. IInv => SettledInForce
  <2>. SUFFICES ASSUME IInv,
                       \A t \in Threads : pc[t] \in {"new", "idle", "ok", "error"},
                       ~armed, ~unseen, content[path] \in Documents
                PROVE  ref = content[path] /\ limits = content[path]
    BY DEF SettledInForce
  <2>1. mu = None
    BY DEF IInv, TypeOK, UnderMu, Held
  <2>2. ref = content[path]
    BY DEF IInv, ToReload, Saves
  <2>. QED BY <2>1, <2>2 DEF IInv, UnderMu
<1>. QED BY <1>1, Invariant, PTL

\* What the console has put into the file is in the revision table (SaveRaw, Restore).
THEOREM Logged == Spec => []LoggedFirst
<1>1. IInv => LoggedFirst
  BY DEF IInv, TypeOK, Recorded, LoggedFirst
<1>. QED BY <1>1, Invariant, PTL

\* A file that is cut off has a writer that is not alone or could not rename; a mixed one is
\* about to be replaced, unless it is crowded (writeFileAtomic).
THEOREM FileInWork == Spec => []WholeOrInWork
<1>1. IInv => WholeOrInWork
  <2>. SUFFICES ASSUME IInv PROVE WholeOrInWork
    OBVIOUS
  <2>1. ASSUME content[path] = {}
        PROVE  \E q \in Requests :
                  /\ fd[q] = path /\ pc[q] \in {"write", "rewrite"}
                  /\ mounted \/ Others(q)
    <3>1. PICK q \in Requests : fd[q] = path /\ pc[q] \in {"write", "rewrite"}
      BY <2>1 DEF IInv, TypeOK, OpenFiles
    <3>2. mounted \/ Others(q)
      BY <3>1 DEF IInv, OpenFiles
    <3>. QED BY <3>1, <3>2
  <2>2. Mixed(path) => (Crowded \/ \E q \in Requests : pc[q] = "rename")
    BY DEF IInv, Shared
  <2>. QED BY <2>1, <2>2 DEF WholeOrInWork, Others, Mixed
<1>. QED BY <1>1, Invariant, PTL

\* At most one console listens, and the server knows it (ReconcileAdmin).
THEOREM Console == Spec => []OneConsole
<1>1. IInv => OneConsole
  BY DEF IInv, OneListens, OneConsole
<1>. QED BY <1>1, Invariant, PTL

=============================================================================
