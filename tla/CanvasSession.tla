---------------------------- MODULE CanvasSession ----------------------------
(***************************************************************************)
(* What the browser keeps of the canvas: the autosave of useCanvasAutoSave *)
(* with the banner that offers it back, and the list of recently saved     *)
(* pipelines.  The canvas survives navigation inside the app and is lost   *)
(* with a reload, which unmounts nothing; localStorage survives both.      *)
(* A canvas is a number here, 0 the empty one.                             *)
(***************************************************************************)
EXTENDS Naturals, SequencesExt, Lists

CONSTANTS
  MaxCanvases,  \* bound: different contents of the canvas
  MaxSaves,     \* bound: clicks on Save
  MaxUnpinned,  \* MAX_UNPINNED
  Names,        \* names a recent pipeline may be given
  MyPipeline    \* the name Save gives it

ASSUME SessionAssumption ==
  /\ MaxCanvases \in Nat \ {0} /\ MaxSaves \in Nat /\ MaxUnpinned \in Nat \ {0}
  /\ MyPipeline \in Names

VARIABLES
  page,       \* where the user is
  canvas,     \* nodes and edges of useGraphStore
  made,       \* contents there have been
  timer,      \* timerRef of the autosave is set
  stored,     \* what localStorage holds for the autosave
  written,    \* the last saveCanvasSnapshot succeeded
  banner,     \* snapshot, unavailable and dismissed of RestoreSessionBanner
  recents,    \* entries of the recent pipelines, newest first
  sending,    \* saves that the server has not answered
  saves,
  isSaving,
  wiped       \* history: the autosave stored the empty canvas

sessionVars == <<page, canvas, made, timer, stored, written, banner, recents, sending, saves, isSaving, wiped>>

Canvases == 0 .. MaxCanvases
Stored == [status : {"empty", "corrupt", "version-mismatch"}, canvas : {0}]
          \cup [status : {"available"}, canvas : Canvases]
Unavailable == {"no", "corrupt", "version-mismatch", "storage-error"}
Entries == [name : Names, pinned : BOOLEAN]
NoBanner == [snapshot |-> 0, unavailable |-> "no", dismissed |-> FALSE]

SessionTypeOK ==
  /\ page \in {"canvas", "elsewhere"} /\ canvas \in Canvases /\ made \in Canvases
  /\ timer \in BOOLEAN /\ stored \in Stored /\ written \in BOOLEAN
  /\ banner \in [snapshot : Canvases, unavailable : Unavailable, dismissed : BOOLEAN]
  /\ recents \in Seq(Entries) /\ sending \in 0 .. MaxSaves /\ saves \in 0 .. MaxSaves
  /\ isSaving \in BOOLEAN /\ wiped \in BOOLEAN

-----------------------------------------------------------------------------
(* The autosave.                                                           *)

\* saveCanvasSnapshot; a full or disabled storage is ignored.
SaveSnapshot(c) ==
  \/ stored' = [status |-> "available", canvas |-> c] /\ written' = TRUE
  \/ UNCHANGED stored /\ written' = FALSE

\* loadCanvasSnapshotDiagnostic
Diagnoses == {stored, [status |-> "storage-error", canvas |-> 0]}

\* The banner's look at the storage, whenever it finds the canvas empty.
Probed(b) ==
  {[b EXCEPT !.snapshot = IF d.status = "available" THEN d.canvas ELSE 0,
             !.unavailable = IF d.status \in {"available", "empty"} THEN "no" ELSE d.status]
    : d \in Diagnoses}

\* Mutant of Became: the banner looks when it mounts, and never again.
BecameUnprobed(c) ==
  /\ canvas' = c
  /\ timer' = (timer \/ c # 0)
  /\ banner' = IF c # 0 THEN [banner EXCEPT !.dismissed = FALSE] ELSE banner

\* What the effects of autosave and banner make of a canvas that changed to c: an
\* empty one neither sets nor clears the timer.
Became(c) ==
  /\ canvas' = c
  /\ timer' = (timer \/ c # 0)
  /\ IF c # 0 THEN banner' = [banner EXCEPT !.dismissed = FALSE] ELSE banner' \in Probed(banner)

\* An edit, undo, redo or load on the canvas page; Clear, for 0.
Change(c) ==
  /\ page = "canvas" /\ c # canvas /\ c \in 0 .. made + 1 /\ c \in Canvases
  /\ made' = IF c > made THEN c ELSE made
  /\ Became(c)
  /\ UNCHANGED <<page, stored, written, recents, sending, saves, isSaving, wiped>>

\* The timer saves the canvas of the latest render.
TimerFires ==
  /\ timer /\ timer' = FALSE
  /\ SaveSnapshot(canvas)
  /\ wiped' = (wiped \/ canvas = 0)
  /\ UNCHANGED <<page, canvas, made, banner, recents, sending, saves, isSaving>>

\* Mutant of Leave: the timer is cleared and nothing flushed.
LeaveUnflushed ==
  /\ page = "canvas" /\ page' = "elsewhere"
  /\ timer' = FALSE
  /\ banner' = NoBanner /\ isSaving' = FALSE
  /\ UNCHANGED <<canvas, made, stored, written, recents, sending, saves, wiped>>

\* Another page is opened: the canvas page unmounts and flushes what is pending.
Leave ==
  /\ page = "canvas" /\ page' = "elsewhere"
  /\ timer' = FALSE
  /\ IF timer /\ canvas # 0 THEN SaveSnapshot(canvas) ELSE UNCHANGED <<stored, written>>
  /\ banner' = NoBanner /\ isSaving' = FALSE
  /\ UNCHANGED <<canvas, made, recents, sending, saves, wiped>>

\* The canvas page mounts over the canvas the store still holds.
Enter ==
  /\ page = "elsewhere" /\ page' = "canvas"
  /\ timer' = (canvas # 0)
  /\ IF canvas # 0 THEN UNCHANGED banner ELSE banner' \in Probed(NoBanner)
  /\ UNCHANGED <<canvas, made, stored, written, recents, sending, saves, isSaving, wiped>>

\* The tab is reloaded, or crashes and is opened again: nothing is flushed.
Reload ==
  /\ page' = "canvas" /\ canvas' = 0 /\ timer' = FALSE
  /\ banner' \in Probed(NoBanner)
  /\ sending' = 0 /\ isSaving' = FALSE
  /\ UNCHANGED <<made, stored, written, recents, saves, wiped>>

-----------------------------------------------------------------------------
(* The banner.                                                             *)

Offered == IF page = "canvas" /\ canvas = 0 /\ ~banner.dismissed /\ banner.unavailable = "no"
           THEN banner.snapshot ELSE 0

Restore ==
  /\ Offered # 0 /\ Became(Offered)
  /\ UNCHANGED <<page, made, stored, written, recents, sending, saves, isSaving, wiped>>

\* removeItem may throw as well.
Discard ==
  /\ Offered # 0
  /\ stored' \in {stored, [status |-> "empty", canvas |-> 0]}
  /\ banner' = [banner EXCEPT !.snapshot = 0, !.dismissed = TRUE]
  /\ UNCHANGED <<page, canvas, made, timer, written, recents, sending, saves, isSaving, wiped>>

\* The X of the prompt, or of the notice that the storage could not be read.
DismissNotice ==
  /\ page = "canvas" /\ canvas = 0 /\ ~banner.dismissed
  /\ banner.snapshot # 0 \/ banner.unavailable # "no"
  /\ banner' = [banner EXCEPT !.dismissed = TRUE]
  /\ UNCHANGED <<page, canvas, made, timer, stored, written, recents, sending, saves, isSaving, wiped>>

-----------------------------------------------------------------------------
(* Recent pipelines.                                                       *)

Session == <<page, canvas, made, timer, stored, written, banner, wiped>>

\* Mutant of CapUnpinned: pinned entries count, and go.
CapAll(entries) == SubSeq(entries, 1, IF Len(entries) > MaxUnpinned THEN MaxUnpinned ELSE Len(entries))

Unpinned(entries) == {i \in 1 .. Len(entries) : ~entries[i].pinned}
CapUnpinned(entries) ==
  Picked(entries, {i \in 1 .. Len(entries) :
                     entries[i].pinned \/ Cardinality(Unpinned(entries) \cap 1 .. i) <= MaxUnpinned})

\* pushRecentPipeline: the first entry of that name gives its pin to the new one.
Push(entries, name) ==
  LET same == {i \in 1 .. Len(entries) : entries[i].name = name}
      first == CHOOSE i \in same : \A k \in same : i <= k
      remaining == IF same = {} THEN entries ELSE RemoveAt(entries, first)
      pinned == same # {} /\ entries[first].pinned
  IN CapUnpinned(<<[name |-> name, pinned |-> pinned]>> \o remaining)

\* The button is disabled while isSaving, which a page that is left forgets.
HandleSave ==
  /\ page = "canvas" /\ canvas # 0 /\ ~isSaving /\ saves < MaxSaves
  /\ isSaving' = TRUE /\ sending' = sending + 1 /\ saves' = saves + 1
  /\ UNCHANGED <<Session, recents>>

\* Only a pipeline that the server took is pushed; localStorage may refuse it.
\* Any of the saves that are out may be the one, and end the spinner.
SaveAnswered ==
  /\ sending > 0 /\ sending' = sending - 1
  /\ recents' \in {recents, Push(recents, MyPipeline)}
  /\ isSaving' \in {FALSE} \cup (IF sending > 1 THEN {isSaving} ELSE {})
  /\ UNCHANGED <<Session, saves>>

\* togglePin, rename and delete, of an entry of the menu.
TogglePin(i) ==
  /\ page = "canvas" /\ i \in 1 .. Len(recents)
  /\ recents' \in {recents, [recents EXCEPT ![i].pinned = ~@]}
  /\ UNCHANGED <<Session, sending, saves, isSaving>>

RenameRecent(i, name) ==
  /\ page = "canvas" /\ i \in 1 .. Len(recents)
  /\ \A k \in 1 .. Len(recents) : k # i => recents[k].name # name
  /\ recents' \in {recents, [recents EXCEPT ![i].name = name]}
  /\ UNCHANGED <<Session, sending, saves, isSaving>>

DeleteRecent(i) ==
  /\ page = "canvas" /\ i \in 1 .. Len(recents)
  /\ recents' \in {recents, RemoveAt(recents, i)}
  /\ UNCHANGED <<Session, sending, saves, isSaving>>

ClearRecents ==
  /\ page = "canvas" /\ recents' \in {recents, << >>}
  /\ UNCHANGED <<Session, sending, saves, isSaving>>

-----------------------------------------------------------------------------
\* What an earlier session, or an earlier version of the program, left behind.
SessionInit ==
  /\ page = "canvas" /\ canvas = 0 /\ made = 1 /\ timer = FALSE
  /\ stored \in {[status |-> s, canvas |-> 0] : s \in {"empty", "corrupt", "version-mismatch"}}
                \cup {[status |-> "available", canvas |-> 1]}
  /\ written = TRUE
  /\ banner \in Probed(NoBanner)
  /\ recents = << >> /\ sending = 0 /\ saves = 0 /\ isSaving = FALSE
  /\ wiped = FALSE

SessionNext ==
  \/ \E c \in Canvases : Change(c)
  \/ TimerFires \/ Leave \/ Enter \/ Reload
  \/ Restore \/ Discard \/ DismissNotice
  \/ HandleSave \/ SaveAnswered
  \/ \E i \in 1 .. Len(recents) : TogglePin(i) \/ DeleteRecent(i) \/ (\E name \in Names : RenameRecent(i, name))
  \/ ClearRecents

SessionSpec == SessionInit /\ [][SessionNext]_sessionVars

-----------------------------------------------------------------------------
(* Properties.                                                             *)

\* With no save pending and the last one written, the storage holds the canvas: a
\* reload then loses nothing, wherever the user is and whatever was undone,
\* restored or discarded before.
StoredIsCurrent ==
  canvas # 0 /\ ~timer /\ written => stored = [status |-> "available", canvas |-> canvas]

\* The pipeline a banner offers is the one in the storage, so that a reload offers
\* it again; unless the canvas was cleared with a save pending, which then stores
\* the empty canvas.
OfferIsKept == Offered # 0 /\ ~wiped => stored = [status |-> "available", canvas |-> Offered]

Pinned(entries) == {e.name : e \in {x \in ToSet(entries) : x.pinned}}

\* A save that is answered drops no pinned pipeline, leaves at most MAX_UNPINNED of
\* the others, and never lists a name twice.
PinnedSurvive ==
  [][sending' < sending /\ recents' # recents =>
       /\ Pinned(recents) \subseteq Pinned(recents')
       /\ Cardinality(Unpinned(recents')) <= MaxUnpinned
       /\ \A i, k \in 1 .. Len(recents') : recents'[i].name = recents'[k].name => i = k]_sessionVars
=============================================================================
