--------------------------- MODULE CataloguesProofs ---------------------------
(***************************************************************************)
(* Proofs about the libraries, for any rows, releases, file names, uploads *)
(* and walks.                                                              *)
(*                                                                         *)
(* That a published file is whole is a matter of where a file can be: one  *)
(* that is written bears its .part name, unless two uploads have shared    *)
(* that name, and no file bears two names.  That the caches are current is *)
(* inductive as soon as it is said of stale lists, and of the walks that   *)
(* are going to make one, as well.                                         *)
(***************************************************************************)
EXTENDS Catalogues, TLAPS

WimShapes ==
    /\ part \in [Names -> Uploads \cup {NoFile}]
    /\ dest \in [Names -> Uploads \cup {NoFile}]
    /\ stream \in [Uploads -> Stream \cup {NoFile}]
    /\ walk \in [Walks -> Listing \cup {NoFile}]
    /\ wimCache \in Listing \cup {NoFile}


\* Whatever file there is, some upload has begun it.
FilesBegun ==
    /\ \A n \in Names : part[n] \in begun \cup {NoFile} /\ dest[n] \in begun \cup {NoFile}
    /\ \A u \in Uploads : stream[u] # NoFile => stream[u].file \in begun

\* No file bears two names, a .part file's among them.
NamesApart ==
    /\ \A m, n \in Names : part[m] = part[n] /\ part[m] # NoFile => m = n
    /\ \A m, n \in Names : part[m] = dest[n] => part[m] = NoFile

\* A file that is written bears the name of its upload, or none any more.
WrittenAtHome ==
    \A u \in Uploads, m \in Names :
        stream[u] # NoFile /\ stream[u].file \in {part[m], dest[m]} => m = stream[u].name

\* An upload that has had its name to itself still has its .part file.
AloneHasPart ==
    \A u \in Uploads :
        stream[u] # NoFile /\ stream[u].name \notin shared =>
            /\ part[stream[u].name] = stream[u].file
            /\ \A w \in Uploads :
                  stream[w] # NoFile /\ stream[w].name = stream[u].name => w = u

WimInv == WimShapes /\ FilesBegun /\ NamesApart /\ WrittenAtHome /\ AloneHasPart

Covers(l) == l # NoFile => Published \subseteq l.names \cup l.missed

ListsCover == Covers(wimCache) /\ \A w \in Walks : Covers(walk[w])

RegistryInv ==
    /\ cache \in [Files -> [rows : Table, fresh : BOOLEAN] \cup {Absent}]
    /\ overlay \in [Files -> Table \cup {Unreadable}]
    /\ release \in Releases
    /\ \A f \in Files \ edited : cache[f] # Absent => cache[f].rows = Current(f)

IInv == WimInv /\ ListsCover /\ RegistryInv

LEMMA WholeFromInv == WimInv => PublishedIsWhole
<1> SUFFICES ASSUME WimInv, NEW n \in Published, n \notin shared,
                    NEW u \in Uploads, stream[u] # NoFile, stream[u].file = dest[n]
             PROVE  FALSE
  BY DEF PublishedIsWhole, Written
<1>1. n \in Names /\ dest[n] # NoFile
  BY DEF Published
<1>2. stream[u].name = n
  BY <1>1 DEF WimInv, WrittenAtHome
<1>3. part[n] = stream[u].file
  BY <1>2 DEF WimInv, AloneHasPart
<1> QED
  BY <1>1, <1>3 DEF WimInv, NamesApart

LEMMA CurrentFromInv == ListsCover /\ RegistryInv => CachesAreCurrent
BY DEF ListsCover, RegistryInv, CachesAreCurrent, ServedIsCurrent, ListIsCurrent, Usable, Covers

LEMMA InitIInv == Init => IInv
<1> SUFFICES ASSUME Init PROVE IInv
  OBVIOUS
<1>1. WimInv
  BY DEF Init, WimInit, WimInv, WimShapes, FilesBegun, NamesApart, WrittenAtHome, AloneHasPart
<1>2. ListsCover
  BY DEF Init, WimInit, ListsCover, Covers
<1>3. RegistryInv
  BY DEF Init, RegistryInit, RegistryInv, Table
<1> QED
  BY <1>1, <1>2, <1>3 DEF IInv

-----------------------------------------------------------------------------
(* The library of images *)

LEMMA BeginInv ==
  ASSUME WimInv, NEW u \in Uploads, NEW n \in Names, Begin(u, n)
  PROVE  WimInv'
<1> DEFINE file == IF part[n] = NoFile THEN u ELSE part[n]
<1>1. /\ u \notin begun /\ begun' = begun \cup {u}
      /\ stream' = [stream EXCEPT ![u] = [name |-> n, file |-> file]]
      /\ part' = [part EXCEPT ![n] = file]
      /\ shared' = IF InHand(n) THEN shared \cup {n} ELSE shared
      /\ UNCHANGED <<dest, walk, wimCache>>
  BY DEF Begin
<1>2. /\ part \in [Names -> Uploads \cup {NoFile}]
      /\ dest \in [Names -> Uploads \cup {NoFile}]
      /\ stream \in [Uploads -> Stream \cup {NoFile}]
  BY DEF WimInv, WimShapes
<1>3. /\ u # NoFile /\ file \in Uploads /\ file # NoFile
      /\ [name |-> n, file |-> file] \in Stream
      /\ [name |-> n, file |-> file] # NoFile
  BY <1>2, WimAssumption DEF Stream
<1>4. WimShapes'
  BY <1>1, <1>2, <1>3 DEF WimInv, WimShapes
<1>5. file \in begun' /\ (file = u \/ file = part[n])
  BY <1>1, <1>2 DEF WimInv, FilesBegun
<1>6. FilesBegun'
  BY <1>1, <1>2, <1>3, <1>5 DEF WimInv, FilesBegun
<1>7. \A m \in Names : part[m] # u /\ dest[m] # u
  BY <1>1, <1>3 DEF WimInv, FilesBegun
<1>8. NamesApart'
  BY <1>1, <1>2, <1>3, <1>7 DEF WimInv, NamesApart
<1>9. WrittenAtHome'
  <2> SUFFICES ASSUME NEW w \in Uploads, NEW m \in Names, stream'[w] # NoFile,
                      stream'[w].file \in {part'[m], dest'[m]}
               PROVE  m = stream'[w].name
    BY DEF WrittenAtHome
  <2>1. CASE w = u
    <3>1. stream'[w].file = file /\ stream'[w].name = n
      BY <1>1, <1>2, <2>1
    <3>2. CASE part'[m] = file
      BY <1>1, <1>2, <1>3, <1>7, <3>1, <3>2 DEF WimInv, NamesApart
    <3>3. CASE dest'[m] = file
      BY <1>1, <1>2, <1>3, <1>7, <3>1, <3>3 DEF WimInv, NamesApart
    <3> QED
      BY <3>1, <3>2, <3>3
  <2>2. CASE w # u
    <3>1. stream'[w] = stream[w] /\ stream[w].file # u
      BY <1>1, <1>2, <2>2 DEF WimInv, FilesBegun
    <3>2. stream[w].file \in {part[m], dest[m]}
      BY <1>1, <1>2, <3>1
    <3> QED
      BY <3>1, <3>2 DEF WimInv, WrittenAtHome
  <2> QED
    BY <2>1, <2>2
<1>10. AloneHasPart'
  <2> SUFFICES ASSUME NEW w \in Uploads, stream'[w] # NoFile, stream'[w].name \notin shared'
               PROVE  /\ part'[stream'[w].name] = stream'[w].file
                      /\ \A v \in Uploads :
                            stream'[v] # NoFile /\ stream'[v].name = stream'[w].name => v = w
    BY DEF AloneHasPart
  <2>1. \A v \in Uploads \ {u} :
           /\ stream'[v] = stream[v]
           /\ stream[v] # NoFile /\ stream[v].name = n => n \in shared'
    BY <1>1, <1>2 DEF InHand
  <2>2. stream'[u].name = n /\ stream'[u].file = file /\ part'[n] = file
    BY <1>1, <1>2
  <2>3. CASE w = u
    BY <2>1, <2>2, <2>3
  <2>4. CASE w # u
    <3>1. stream[w] # NoFile /\ stream[w].name # n /\ stream[w].name \notin shared
      BY <1>1, <2>1, <2>4
    <3>2. stream[w].name \in Names
      BY <1>2, <3>1 DEF Stream
    <3>3. part[stream[w].name] = stream[w].file
      BY <3>1 DEF WimInv, AloneHasPart
    <3>4. part'[stream[w].name] = part[stream[w].name]
      BY <1>1, <1>2, <3>1, <3>2
    <3>5. \A v \in Uploads : stream[v] # NoFile /\ stream[v].name = stream[w].name => v = w
      BY <3>1 DEF WimInv, AloneHasPart
    <3> QED
      BY <2>1, <2>2, <2>4, <3>1, <3>3, <3>4, <3>5
  <2> QED
    BY <2>3, <2>4
<1> QED
  BY <1>4, <1>6, <1>8, <1>9, <1>10 DEF WimInv

\* When upload u ends, another one that has had its name to itself has kept its
\* .part file, and u is of another name.
LEMMA GoneLeavesRest ==
  ASSUME WimInv, NEW u \in Uploads, stream[u] # NoFile, NEW w \in Uploads, w # u,
         stream[w] # NoFile, stream[w].name \notin shared
  PROVE  /\ stream[w].name # stream[u].name
         /\ stream[w].name \in Names
         /\ part[stream[w].name] = stream[w].file
         /\ \A v \in Uploads : stream[v] # NoFile /\ stream[v].name = stream[w].name => v = w
BY DEF WimInv, WimShapes, Stream, AloneHasPart

LEMMA FinishInv ==
  ASSUME WimInv, NEW u \in Uploads, Finish(u)
  PROVE  WimInv'
<1> DEFINE n == stream[u].name
<1>1. /\ stream[u] # NoFile /\ part[n] # NoFile
      /\ dest' = [dest EXCEPT ![n] = part[n]]
      /\ part' = [part EXCEPT ![n] = NoFile]
      /\ stream' = [stream EXCEPT ![u] = NoFile]
      /\ wimCache' = NoFile
      /\ UNCHANGED <<begun, shared>>
  BY DEF Finish, Ends
<1>2. /\ part \in [Names -> Uploads \cup {NoFile}]
      /\ dest \in [Names -> Uploads \cup {NoFile}]
      /\ stream \in [Uploads -> Stream \cup {NoFile}]
      /\ n \in Names
  BY <1>1 DEF WimInv, WimShapes, Stream
<1>3. walk' \in [Walks -> Listing \cup {NoFile}]
  <2> SUFFICES ASSUME NEW w \in Walks, walk[w] # NoFile
               PROVE  [walk[w] EXCEPT !.missed = walk[w].missed \cup {n}] \in Listing
    BY DEF Finish, Noted
  <2> QED
    BY <1>2 DEF WimInv, WimShapes, Listing
<1>4. WimShapes'
  BY <1>1, <1>2, <1>3 DEF WimShapes
<1>5. FilesBegun'
  BY <1>1, <1>2 DEF WimInv, FilesBegun
<1>6. NamesApart'
  BY <1>1, <1>2 DEF WimInv, NamesApart
<1>7. WrittenAtHome'
  <2> SUFFICES ASSUME NEW w \in Uploads, NEW m \in Names, stream'[w] # NoFile,
                      stream'[w].file \in {part'[m], dest'[m]}
               PROVE  m = stream'[w].name
    BY DEF WrittenAtHome
  <2>1. stream'[w] = stream[w] /\ stream[w] # NoFile /\ stream[w].file \in Uploads
    BY <1>1, <1>2 DEF Stream
  <2>2. stream[w].file # NoFile
    BY <2>1, WimAssumption
  <2>3. stream[w].file \in {part[m], dest[m]}
    BY <1>1, <1>2, <2>1, <2>2
  <2> QED
    BY <2>1, <2>3 DEF WimInv, WrittenAtHome
<1>8. AloneHasPart'
  <2> SUFFICES ASSUME NEW w \in Uploads, stream'[w] # NoFile, stream'[w].name \notin shared'
               PROVE  /\ part'[stream'[w].name] = stream'[w].file
                      /\ \A v \in Uploads :
                            stream'[v] # NoFile /\ stream'[v].name = stream'[w].name => v = w
    BY DEF AloneHasPart
  <2>1. w # u /\ stream'[w] = stream[w]
    BY <1>1, <1>2
  <2> QED
    BY <1>1, <1>2, <2>1, GoneLeavesRest
<1> QED
  BY <1>4, <1>5, <1>6, <1>7, <1>8 DEF WimInv

LEMMA FailInv ==
  ASSUME WimInv, NEW u \in Uploads, Fail(u)
  PROVE  WimInv'
<1> DEFINE n == stream[u].name
<1>1. /\ stream[u] # NoFile
      /\ part' = [part EXCEPT ![n] = NoFile]
      /\ stream' = [stream EXCEPT ![u] = NoFile]
      /\ UNCHANGED <<dest, begun, shared, walk, wimCache>>
  BY DEF Fail, Ends
<1>2. /\ part \in [Names -> Uploads \cup {NoFile}]
      /\ dest \in [Names -> Uploads \cup {NoFile}]
      /\ stream \in [Uploads -> Stream \cup {NoFile}]
      /\ n \in Names
  BY <1>1 DEF WimInv, WimShapes, Stream
<1>3. WimShapes'
  BY <1>1, <1>2 DEF WimInv, WimShapes
<1>4. FilesBegun'
  BY <1>1, <1>2 DEF WimInv, FilesBegun
<1>5. NamesApart'
  BY <1>1, <1>2 DEF WimInv, NamesApart
<1>6. WrittenAtHome'
  <2> SUFFICES ASSUME NEW w \in Uploads, NEW m \in Names, stream'[w] # NoFile,
                      stream'[w].file \in {part'[m], dest'[m]}
               PROVE  m = stream'[w].name
    BY DEF WrittenAtHome
  <2>1. stream'[w] = stream[w] /\ stream[w].file \in Uploads
    BY <1>1, <1>2 DEF Stream
  <2>2. stream[w].file # NoFile
    BY <2>1, WimAssumption
  <2> QED
    BY <1>1, <1>2, <2>1, <2>2 DEF WimInv, WrittenAtHome
<1>7. AloneHasPart'
  <2> SUFFICES ASSUME NEW w \in Uploads, stream'[w] # NoFile, stream'[w].name \notin shared'
               PROVE  /\ part'[stream'[w].name] = stream'[w].file
                      /\ \A v \in Uploads :
                            stream'[v] # NoFile /\ stream'[v].name = stream'[w].name => v = w
    BY DEF AloneHasPart
  <2>1. w # u /\ stream'[w] = stream[w]
    BY <1>1, <1>2
  <2> QED
    BY <1>1, <1>2, <2>1, GoneLeavesRest
<1> QED
  BY <1>3, <1>4, <1>5, <1>6, <1>7 DEF WimInv

\* A step that leaves files and uploads alone.
LEMMA WimIdle ==
  ASSUME WimInv, UNCHANGED <<part, dest, stream, begun, shared>>,
         walk' \in [Walks -> Listing \cup {NoFile}], wimCache' \in Listing \cup {NoFile}
  PROVE  WimInv'
BY DEF WimInv, WimShapes, FilesBegun, NamesApart, WrittenAtHome, AloneHasPart

LEMMA WimRestartInv ==
  ASSUME WimInv, WimRestart
  PROVE  WimInv'
BY DEF WimInv, WimShapes, FilesBegun, NamesApart, WrittenAtHome, AloneHasPart, WimRestart

\* What walks have read, and what becomes of it.
LEMMA WalksInv ==
  ASSUME WimInv, ListsCover, WalkStep \/ Aged
  PROVE  WimInv' /\ ListsCover'
<1>1. CASE \E w \in Walks : Walk(w)
  <2> PICK w \in Walks : Walk(w)
    BY <1>1
  <2> DEFINE l == [names |-> Published, missed |-> {}]
  <2>1. l \in Listing
    BY DEF Listing, Published
  <2>2. /\ walk' = [walk EXCEPT ![w] = l]
        /\ UNCHANGED <<part, dest, stream, begun, shared, wimCache>>
    BY DEF Walk
  <2>3. /\ walk \in [Walks -> Listing \cup {NoFile}] /\ wimCache \in Listing \cup {NoFile}
    BY DEF WimInv, WimShapes
  <2>4. WimInv'
    BY <2>1, <2>2, <2>3, WimIdle
  <2>5. Published' = Published
    BY <2>2 DEF Published
  <2>6. ListsCover'
    BY <2>2, <2>3, <2>5 DEF ListsCover, Covers
  <2> QED
    BY <2>4, <2>6
<1>2. CASE \E w \in Walks : Listed(w)
  <2> PICK w \in Walks : Listed(w)
    BY <1>2
  <2>1. /\ walk' = [walk EXCEPT ![w] = NoFile] /\ wimCache' = walk[w]
        /\ UNCHANGED <<part, dest, stream, begun, shared>>
    BY DEF Listed
  <2>2. walk \in [Walks -> Listing \cup {NoFile}]
    BY DEF WimInv, WimShapes
  <2>3. WimInv'
    BY <2>1, <2>2, WimIdle
  <2>4. Published' = Published
    BY <2>1 DEF Published
  <2>5. ListsCover'
    BY <2>1, <2>2, <2>4 DEF ListsCover, Covers
  <2> QED
    BY <2>3, <2>5
<1>3. CASE Aged
  <2>1. UNCHANGED <<part, dest, stream, begun, shared, walk, wimCache>>
    BY <1>3 DEF Aged
  <2> QED
    BY <2>1, WimIdle DEF WimInv, WimShapes, ListsCover, Covers, Published
<1> QED
  BY <1>1, <1>2, <1>3 DEF WalkStep

\* Publishing drops the list, and is noted for the walks under way.
LEMMA FinishCovers ==
  ASSUME WimInv, ListsCover, NEW u \in Uploads, Finish(u)
  PROVE  ListsCover'
<1> DEFINE n == stream[u].name
<1>1. /\ dest' = [dest EXCEPT ![n] = part[n]] /\ wimCache' = NoFile
      /\ walk' = [w \in Walks |-> IF walk[w] = NoFile THEN NoFile
                                  ELSE [walk[w] EXCEPT !.missed = walk[w].missed \cup {n}]]
  BY DEF Finish, Noted
<1>2. Published' \subseteq Published \cup {n}
  BY <1>1 DEF Published, WimInv, WimShapes
<1>3. ASSUME NEW w \in Walks PROVE Covers(walk[w])'
  <2>1. CASE walk[w] = NoFile
    BY <1>1, <2>1 DEF Covers
  <2>2. CASE walk[w] # NoFile
    <3>1. walk[w] \in [names : SUBSET Names, missed : SUBSET Names]
      BY <2>2 DEF WimInv, WimShapes, Listing
    <3>2. walk'[w].names = walk[w].names /\ walk'[w].missed = walk[w].missed \cup {n}
      BY <1>1, <2>2, <3>1
    <3>3. Published \subseteq walk[w].names \cup walk[w].missed
      BY <2>2 DEF ListsCover, Covers
    <3> QED
      BY <1>2, <3>2, <3>3 DEF Covers
  <2> QED
    BY <2>1, <2>2
<1> QED
  BY <1>1, <1>3 DEF ListsCover, Covers

LEMMA WimNextInv ==
  ASSUME WimInv, ListsCover, WimNext
  PROVE  WimInv' /\ ListsCover'
<1>1. CASE \E u \in Uploads : Finish(u)
  BY <1>1, FinishInv, FinishCovers
<1>2. CASE \E u \in Uploads : Fail(u)
  <2>1. UNCHANGED <<dest, walk, wimCache>>
    BY <1>2 DEF Fail
  <2> QED
    BY <1>2, <2>1, FailInv DEF ListsCover, Covers, Published
<1>3. CASE \E u \in Uploads, n \in Names : Begin(u, n)
  <2>1. UNCHANGED <<dest, walk, wimCache>>
    BY <1>3 DEF Begin
  <2> QED
    BY <1>3, <2>1, BeginInv DEF ListsCover, Covers, Published
<1>4. CASE WalkStep \/ Aged
  BY <1>4, WalksInv
<1>5. CASE WimRestart
  BY <1>5, WimRestartInv DEF WimRestart, ListsCover, Covers
<1> QED
  BY <1>1, <1>2, <1>3, <1>4, <1>5 DEF WimNext

-----------------------------------------------------------------------------
(* The catalogue *)

LEMMA OverlayIsTable ==
  ASSUME RegistryInv, NEW f \in Files
  PROVE  Overlay(f) \in Table /\ Current(f) \in Table
<1>1. Overlay(f) \in Table
  BY DEF RegistryInv, Overlay, Table
<1>2. Shipped[release][f] \in Table
  BY ShippedAssumption DEF RegistryInv
<1> QED
  BY <1>1, <1>2 DEF Current, Merge, Table

\* Saving and deleting write one overlay and drop its cache, which leaves what
\* the other cache was made from.
LEMMA WriteOverlayInv ==
  ASSUME RegistryInv, NEW f \in Files, NEW rows \in Table, WriteOverlay(f, rows)
  PROVE  RegistryInv'
<1>1. /\ overlay' = [overlay EXCEPT ![f] = rows]
      /\ cache' = [cache EXCEPT ![f] = Absent]
      /\ UNCHANGED <<release, edited>>
  BY DEF WriteOverlay
<1>2. ASSUME NEW g \in Files \ edited, cache'[g] # Absent
      PROVE  cache'[g].rows = Current(g)'
  <2>1. g # f /\ cache'[g] = cache[g] /\ overlay'[g] = overlay[g]
    BY <1>1, <1>2 DEF RegistryInv
  <2> QED
    BY <1>1, <1>2, <2>1 DEF RegistryInv, Current, Overlay
<1> QED
  BY <1>1, <1>2 DEF RegistryInv

LEMMA RegistryNextInv ==
  ASSUME RegistryInv, RegistryNext
  PROVE  RegistryInv'
<1>1. ASSUME NEW f \in Files, Load(f) PROVE RegistryInv'
  <2>1. /\ cache' = [cache EXCEPT ![f] = [rows |-> Current(f), fresh |-> TRUE]]
        /\ edited' = edited \ {f} /\ UNCHANGED <<release, overlay>>
    BY <1>1 DEF Load
  <2>2. ASSUME NEW g \in Files PROVE Current(g)' = Current(g)
    BY <2>1 DEF Current, Overlay
  <2> QED
    BY <2>1, <2>2, OverlayIsTable DEF RegistryInv
<1>2. ASSUME NEW f \in Files, NEW i \in Rows, NEW v \in Versions, Save(f, i, v) PROVE RegistryInv'
  <2>1. [Overlay(f) EXCEPT ![i] = v] \in Table
    BY OverlayIsTable DEF Table
  <2> QED
    BY <1>2, <2>1, WriteOverlayInv DEF Save
<1>3. ASSUME NEW f \in Files, NEW i \in Rows, Delete(f, i) PROVE RegistryInv'
  <2>1. [Overlay(f) EXCEPT ![i] = Absent] \in Table
    BY OverlayIsTable DEF Table
  <2> QED
    BY <1>3, <2>1, WriteOverlayInv DEF Delete
<1>4. ASSUME NEW f \in Files, Age(f) PROVE RegistryInv'
  <2>1. /\ cache[f] # Absent /\ cache' = [cache EXCEPT ![f].fresh = FALSE]
        /\ UNCHANGED <<release, overlay, edited>>
    BY <1>4 DEF Age
  <2>2. cache[f] \in [rows : Table, fresh : BOOLEAN]
    BY <2>1 DEF RegistryInv
  <2>3. /\ cache' \in [Files -> [rows : Table, fresh : BOOLEAN] \cup {Absent}]
        /\ cache'[f].rows = cache[f].rows
    BY <2>1, <2>2 DEF RegistryInv
  <2>4. ASSUME NEW g \in Files PROVE Current(g)' = Current(g)
    BY <2>1 DEF Current, Overlay
  <2> QED
    BY <2>1, <2>3, <2>4 DEF RegistryInv
<1>5. ASSUME NEW f \in Files, EditByHand(f) PROVE RegistryInv'
  <2>1. /\ overlay' \in [Files -> Table \cup {Unreadable}]
        /\ \A g \in Files \ {f} : overlay'[g] = overlay[g]
        /\ edited' = edited \cup {f} /\ UNCHANGED <<release, cache>>
    <3>1. PICK file \in Table \cup {Unreadable} : overlay' = [overlay EXCEPT ![f] = file]
      <4>1. ASSUME NEW i \in Rows, NEW v \in Versions
            PROVE  [Overlay(f) EXCEPT ![i] = v] \in Table
        BY OverlayIsTable DEF Table
      <4> QED
        BY <1>5, <4>1 DEF EditByHand
    <3> QED
      BY <1>5, <3>1 DEF EditByHand, RegistryInv
  <2>2. ASSUME NEW g \in Files \ edited' PROVE Current(g)' = Current(g)
    BY <2>1 DEF Current, Overlay
  <2> QED
    BY <2>1, <2>2 DEF RegistryInv
<1>6. CASE RegistryRestart
  BY <1>6 DEF RegistryRestart, RegistryInv
<1> QED
  BY <1>1, <1>2, <1>3, <1>4, <1>5, <1>6 DEF RegistryNext, ApiCall

-----------------------------------------------------------------------------

LEMMA RestingInv ==
  ASSUME IInv
  PROVE  /\ UNCHANGED wvars => WimInv' /\ ListsCover'
         /\ UNCHANGED rvars => RegistryInv'
<1>1. ASSUME UNCHANGED wvars PROVE WimInv' /\ ListsCover'
  BY <1>1, WimIdle DEF IInv, wvars, WimInv, WimShapes, ListsCover, Covers, Published
<1>2. ASSUME UNCHANGED rvars PROVE RegistryInv'
  BY <1>2 DEF IInv, rvars, RegistryInv, Current, Overlay
<1> QED
  BY <1>1, <1>2

LEMMA NextIInv == IInv /\ [Next]_vars => IInv'
<1> SUFFICES ASSUME IInv, [Next]_vars PROVE IInv'
  OBVIOUS
<1>1. CASE subject = "registry" /\ RegistryNext /\ UNCHANGED <<wvars, svars>>
  BY <1>1, RegistryNextInv, RestingInv DEF IInv
<1>2. CASE subject = "wims" /\ WimNext /\ UNCHANGED <<rvars, svars>>
  BY <1>2, WimNextInv, RestingInv DEF IInv
<1>3. CASE subject = "packages" /\ SdkNext /\ UNCHANGED <<rvars, wvars>>
  BY <1>3, RestingInv DEF IInv
<1>4. CASE UNCHANGED vars
  BY <1>4, RestingInv DEF IInv, vars
<1> QED
  BY <1>1, <1>2, <1>3, <1>4 DEF Next

LEMMA SpecIInv == Spec => []IInv
BY InitIInv, NextIInv, PTL DEF Spec

\* "The scan never lists a half-uploaded image" (server/index.ts:539-540): for
\* any names and uploads, across failures and restarts, nobody writes a
\* published file any more, unless two uploads of its name have met.
THEOREM SpecPublishedIsWhole == Spec => []PublishedIsWhole
<1>1. IInv => PublishedIsWhole
  BY WholeFromInv DEF IInv
<1> QED
  BY <1>1, SpecIInv, PTL

\* A saved catalogue row shows at once, and an uploaded image is listed unless
\* a walk was under way (registry.ts:73-75, server/index.ts:566), for any rows,
\* releases and number of walks.
THEOREM SpecCachesAreCurrent == Spec => []CachesAreCurrent
<1>1. IInv => CachesAreCurrent
  BY CurrentFromInv DEF IInv
<1> QED
  BY <1>1, SpecIInv, PTL
=============================================================================
