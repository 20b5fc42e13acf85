------------------------------ MODULE WimLibrary ------------------------------
(***************************************************************************)
(* The library of Windows images (server/index.ts): uploads streamed into  *)
(* a .part file that is renamed when it is complete, and the listing, a    *)
(* walk over the drive whose result is kept for a minute.                  *)
(*                                                                         *)
(* Two uploads of one name write one .part file; two requests for the      *)
(* list may walk at once.                                                  *)
(***************************************************************************)
EXTENDS FiniteSets

CONSTANTS
    Names,      \* file names, as sanitised
    Uploads,    \* upload requests; a file is called after the one that made it
    Walks,      \* walks over the drive under way
    NoFile      \* no file there; no list; no upload

\* file is what the upload's stream writes to.
Stream == [name : Names, file : Uploads]

\* A list, and the names that were published while it was being made.
Listing == [names : SUBSET Names, missed : SUBSET Names]

ASSUME WimAssumption == NoFile \notin Uploads \cup Listing \cup Stream

VARIABLES
    part,      \* the .part files
    dest,      \* the published files
    stream,    \* uploads being received
    begun,     \* uploads ever begun
    shared,    \* history: names two uploads have had at the same time
    walk,      \* walks under way, and what they have read
    wimCache,  \* the last walk's list
    fresh      \* whether that is younger than WIM_TTL_MS

wvars == <<part, dest, stream, begun, shared, walk, wimCache, fresh>>

WimTypeOK ==
    /\ part \in [Names -> Uploads \cup {NoFile}]
    /\ dest \in [Names -> Uploads \cup {NoFile}]
    /\ stream \in [Uploads -> Stream \cup {NoFile}]
    /\ begun \subseteq Uploads
    /\ shared \subseteq Names
    /\ walk \in [Walks -> Listing \cup {NoFile}]
    /\ wimCache \in Listing \cup {NoFile}
    /\ fresh \in BOOLEAN

WimInit ==
    /\ part = [n \in Names |-> NoFile]
    /\ dest = [n \in Names |-> NoFile]
    /\ stream = [u \in Uploads |-> NoFile]
    /\ begun = {}
    /\ shared = {}
    /\ walk = [w \in Walks |-> NoFile]
    /\ wimCache = NoFile
    /\ fresh = FALSE

Published == {n \in Names : dest[n] # NoFile}

\* Somebody is writing file f.
Written(f) == \E u \in Uploads : stream[u] # NoFile /\ stream[u].file = f

\* Somebody is uploading name n.
InHand(n) == \E u \in Uploads : stream[u] # NoFile /\ stream[u].name = n

-----------------------------------------------------------------------------
(* POST /svc/upload-wim *)

\* Mutant: the upload writes the published file in place.
BeginInPlace(u, n) ==
    /\ u \notin begun
    /\ begun' = begun \cup {u}
    /\ stream' = [stream EXCEPT ![u] = [name |-> n, file |-> u]]
    /\ dest' = [dest EXCEPT ![n] = u]
    /\ UNCHANGED <<part, shared, walk, wimCache, fresh>>

\* The .part file is opened, and truncated if it is there.
Begin(u, n) ==
    LET file == IF part[n] = NoFile THEN u ELSE part[n]
    IN  /\ u \notin begun
        /\ begun' = begun \cup {u}
        /\ stream' = [stream EXCEPT ![u] = [name |-> n, file |-> file]]
        /\ part' = [part EXCEPT ![n] = file]
        /\ shared' = IF InHand(n) THEN shared \cup {n} ELSE shared
        /\ UNCHANGED <<dest, walk, wimCache, fresh>>

Ends(u) == stream' = [stream EXCEPT ![u] = NoFile]

\* What is published while a walk is under way may be missing from its list.
Noted(n) ==
    walk' = [w \in Walks |-> IF walk[w] = NoFile THEN NoFile
                             ELSE [walk[w] EXCEPT !.missed = walk[w].missed \cup {n}]]

\* All received: whatever bears the .part name is published, and the list
\* dropped.
Finish(u) ==
    /\ stream[u] # NoFile
    /\ LET n == stream[u].name
       IN  /\ part[n] # NoFile
           /\ dest' = [dest EXCEPT ![n] = part[n]]
           /\ part' = [part EXCEPT ![n] = NoFile]
           /\ Noted(n)
    /\ wimCache' = NoFile
    /\ Ends(u)
    /\ UNCHANGED <<begun, shared, fresh>>

\* The connection or the drive failed, or there is no .part to rename any
\* more: whatever bears that name is removed.
Fail(u) ==
    /\ stream[u] # NoFile
    /\ part' = [part EXCEPT ![stream[u].name] = NoFile]
    /\ Ends(u)
    /\ UNCHANGED <<dest, begun, shared, walk, wimCache, fresh>>

-----------------------------------------------------------------------------
(* GET /svc/wims *)

Usable == wimCache # NoFile /\ fresh

\* Mutant: a list, once made, is good for ever.
WalkOnce(w) ==
    /\ walk[w] = NoFile /\ wimCache = NoFile
    /\ walk' = [walk EXCEPT ![w] = [names |-> Published, missed |-> {}]]
    /\ UNCHANGED <<part, dest, stream, begun, shared, wimCache, fresh>>

\* Without a usable list, the drive is walked.
Walk(w) ==
    /\ walk[w] = NoFile /\ ~Usable
    /\ walk' = [walk EXCEPT ![w] = [names |-> Published, missed |-> {}]]
    /\ UNCHANGED <<part, dest, stream, begun, shared, wimCache, fresh>>

\* The walk's list is kept, whatever happened to the library meanwhile.
Listed(w) ==
    /\ walk[w] # NoFile
    /\ wimCache' = walk[w]
    /\ fresh' = TRUE
    /\ walk' = [walk EXCEPT ![w] = NoFile]
    /\ UNCHANGED <<part, dest, stream, begun, shared>>

\* WIM_TTL_MS passes.
Aged ==
    /\ fresh
    /\ fresh' = FALSE
    /\ UNCHANGED <<part, dest, stream, begun, shared, walk, wimCache>>

\* The server restarts: .part files stay behind.
WimRestart ==
    /\ stream' = [u \in Uploads |-> NoFile]
    /\ walk' = [w \in Walks |-> NoFile]
    /\ wimCache' = NoFile
    /\ fresh' = FALSE
    /\ UNCHANGED <<part, dest, begun, shared>>

WalkStep == \E w \in Walks : Walk(w) \/ Listed(w)

WimNext ==
    \/ \E u \in Uploads : Finish(u) \/ Fail(u) \/ \E n \in Names : Begin(u, n)
    \/ WalkStep
    \/ Aged
    \/ WimRestart

WimSpec == WimInit /\ [][WimNext]_wvars

-----------------------------------------------------------------------------
(* Properties *)

\* "The scan never lists a half-uploaded image" (server/index.ts:539-540),
\* across failures and restarts: nobody writes a published file any more,
\* unless two uploads of its name have met, on their one .part file.
PublishedIsWhole == \A n \in Published : n \in shared \/ ~Written(dest[n])

\* "The new image shows up on the next scan immediately" (server/index.ts:566):
\* a list that is served lacks a published file only if the walk that made it
\* was already under way when the file was published.
ListIsCurrent == Usable => Published \subseteq wimCache.names \cup wimCache.missed

\* A published file comes to be listed, such a walk or not, as long as
\* somebody asks (server/index.ts:253-266).
PublishedIsListed ==
    \A n \in Names : n \in Published ~> wimCache # NoFile /\ n \in wimCache.names
=============================================================================
