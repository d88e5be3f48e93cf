# A verification project for PicWorks (pw)

PicWorks is an X11 program for looking at multi-band images: it reads up to 26
bands or cubes into *slots*, stretches them to display indices, combines them
into colour composites and overlays, and plots the spectra of pixels the user
selects in a magnifier. It is one C program (`src/pw`) over a small widget
library (`src/lib`), with a library of file readers (`src/iomedley`).

This directory holds TLA+ models of the parts of `src/pw` that have a state
worth reasoning about, configurations that check them with TLC, and theorems
proved with TLAPS. Every definition names, in `PROJECT.json` ("map"), the lines
it is translated from.

## 1. Inventory

The program is single-threaded. The loop at the end of `main` (`pw.c:341`) takes
one X event, `events` passes it to the widget libraries and the windows, and the
handler they call runs to its end, so there are no data races. What is hard in it is different:

- **state kept twice or more**, in linked lists and global variables that only
  the order of statements in the handlers keeps in step;
- **references by number and raw pointers** between objects that can be freed
  by another window;
- **widget state** that decides which handler can run and that other handlers
  make stale;
- **long sequences of legal clicks** which no test drives: `src/tests` covers
  colour arithmetic, quantization and file reading, and none of the windows.

| Component | State | Operations | Interacts with | Right when |
|---|---|---|---|---|
| Pixel selection, `block.c` | `Blocks[]`, sorted list of pixels per plot colour; `Stack`, sorted list of pixels with the list of colours that own each; `CurrentBlock`, anchor, modes | drags with three buttons (add, toggle, delete a rectangle), `delete_all`, `SetBlockData` | magnifier (events, paint), plot window, pixel list | both copies are the same relation, lists are sorted, the paint is the newest owner's, loops end |
| Pixel List window, `blockid.c` | a line per pixel, the block it was made from, the selected line | update, select, delete, undelete | selection (borrows `CurrentBlock`) | only the block of the list changes; no line follows a NULL pointer |
| Plot window, `plot.c` | the scale and the ring `zoom_list`, colour buttons, the extended block, the kept line of the cube | select, delete, average, copy a block, read a specpr record, auto-cycle, zoom, unzoom, choose the cube | selection, image slots (cube), rose window | a block is either pixels or data; the lit button is the active block; UnZoom shows the scale before; a spectrum is the asked line of the selected cube |
| Files Window and slots, `composite.c` | `Images[26]`, selected line, plane and overlay buttons, letters | open, select, set plane or overlay, number of colours, header fields, delete, load | image data, display windows, command line | references between slots are unambiguous; tables fit indices; budget of colours is kept |
| Image data, `image.c`, `quant.c`, `hist.c` | data, `sdata`, `image_hold`, `quant`, `map`, `Colors` of a slot | read, stretch gray or colour, quantize | slots | indices are those of the last stretch |
| Pseudocolour, `pseudo.c` | a table of colours, the list of partitions | median cut | image data | partitions tile the table, none is empty; as many colours as asked for; every pixel drawn in a colour between those it was made from |
| Image, pan, magnifier windows, `buttons.c`, `pw.c`, `mag.c`, `display_rgb.c` | `CC->image`, `Mag->image`, `IImage`, `JS->field` | show, redraw, resize, pan, magnify | slots, colour controls, selection | all show one image, and it exists |
| Colour controls, `ColorControls.c`, `colorspread.c`, `color.c`, the curve of `lib/AMap.c` | handles of the curve, its window, the drag; spread, `CC->image` | colorspread, refresh; add, move, delete a point, slide, centre, clear | slots, windows | the map has the length of the colours it is read with; the ends of the curve are points; a drag stays between its neighbours |
| Command line, `pw.c` | next slot | files, `-all`, `-c`, sizes | slots | |
| Save and restore, `restart.c` | the session's file | SAVE, READ, `pw -r` | slots, windows, plot | a session that can be read comes back as it was |
| Readout, `readout.c`; Rose, `rose.c` | lists of DN lines; copies of the blocks | | slots, plot | |
| Readers and writers, `read.c`, `io_pw.c`, `write.c`, `specpr.c`, `sp.c`, `src/iomedley` | files | | slots, blocks | |
| Buttons, `lib/Button.c` | the list of buttons, a list of callbacks per button and state | create, move, destroy, add and delete a callback, dispatch an event | all windows | no dispatcher reads a freed cell, none is lost, the lists are what the callers asked for |
| Other widgets, `src/lib` | list, slider, joystick, text | | all windows | |

Hard behaviours, each listed with its line in `PROJECT.json` ("hazards"): the
agreement of the two copies of the selection; hints into sorted lists;
handlers that borrow a global; blocks whose first node speaks for all; the
widgets' state against the slots'; tables and copies that outlive what they
were made from; pointers in four windows to an image any of them may lose;
sums checked at one place and changed at another; a ring indexed with C's `%`; a
cache of one line that nobody invalidates; a list edited while it is walked; a
drag whose state outlives it.

## 2. Modules

| Module | Models | State ↔ code |
|---|---|---|
| `BlockSelection` | `block.c`, `blockid.c`, the block handlers of `plot.c` | `Blocks[b].block` ↔ the list of `Blocks[b]`, `nblocks` ↔ its counter, `stack` and `colors` ↔ `Stack` and the `color_node` lists, `shown` ↔ the paint of the magnifier, `items`/`listBlock`/`selected` ↔ the `List` of `BlockID`, its `ext` and the highlighted line |
| `PixelOwnership` | what the selection promises: a relation of pixels and colours with an age | `owners`, `members` |
| `MCBlockSelection` | sub-specifications of `BlockSelection` for TLC | |
| `CollectionLemmas` | what the operators on lists, sums over finite sets and extremes that the models share return; the other proof modules rest on it | |
| `BlockSelectionProofs` | theorems about `BlockSelection` | |
| `ImageTable` | `composite.c`, `image.c`, `quant.c`, the command line of `pw.c` | `Images` ↔ `Images[]`, `sel` ↔ `R->fnames->ext`, `rgbs`/`comps` ↔ the states of the push buttons, `letter` ↔ the colour of the file letters, `args` ↔ the loop over `argv` |
| `MCImageTable` | a sub-specification of `ImageTable` for TLC | |
| `ImageTableProofs` | theorems about `ImageTable` | |
| `Viewer` | the windows and colour controls over `ImageTable` (composition: every action of the table, with what it does to the windows' pointers) | `cc`, `mag`, `iimage`, `pan`, `spread` ↔ `CC->image`, `Mag->image`, `IImage`, `JS->field`, `Colorspread->ext` |
| `Restart` | `write_restart`, `read_restart` and `ReadRestart` of `restart.c` (composition: the first session is that of `Viewer`) | `saved` ↔ the file, `at` ↔ the loop variable `i`, `phase` ↔ the loop that runs |
| `ViewerProofs` | theorems about `ImageTable`, `Viewer` and `Restart` | |
| `PlotScale` | the scale of the plot and its history in `plot.c`; one axis stands for two | `zoom_list`, `zl_ptr`, `zcount` ↔ the same, `scale` ↔ `PlotXMin`, `PlotXMax` |
| `ZoomHistory` | what the ring promises: a stack of scales that may forget its oldest | `past` |
| `PlotButtons` | `BlockButtonCallback`, `DoAutoCycle`, the states of the blocks, the rose window's switches | `lit` ↔ `CBlocks[]->state`, `state` ↔ `Blocks[]->state`, `current` ↔ `CurrentBlock`, `switch` ↔ `rose->Switches[]->state` |
| `CubeReader` | `get_block_data`, `SetCube`, `SetCubeImage` and what others do to the cube's slot | `CubeImage`, `CubeImageFd`, `idata`, `lr_y` ↔ the same |
| `XfButton` | `lib/Button.c`: callback lists cell by cell, dispatchers inside one another | `CallBacks`, `next`, `proc` ↔ the linked cells, `allocated` ↔ the heap, `frames` ↔ the stack of `XfButtonPush` with its `next_exec` |
| `CallbackLists` | what buttons promise: a sequence of callbacks per live button and state | `buttons`, `lists` |
| `MedianCut` | `pseudo.c` | `table`, `partitions` ↔ the same; an entry's `pixels` ↔ its list of pixels, as colours |
| `AssociationMap` | `lib/AMap.c`, its buttons in `ColorControls.c` | `handles` ↔ the points with `flag` 1, `lo_x` ... `button_down` ↔ the static variables of `XfAMapAction` |
| `MCPlotWindow`, `MCXfButton`, `MCColors`, `MCRestart` | instances for TLC | `part`; `three` |
| `PlotWindowProofs` | theorems about `PlotScale`, `PlotButtons` and `CubeReader` | |
| `XfButtonProofs`, `MedianCutProofs`, `AssociationMapProofs` | theorems about the modules they are named for | |

### How the selection is modelled

A pixel is its position in raster order, the order by which `block.c` sorts.
A node is its pixel, or minus its type if it holds data (library spectrum,
average, list highlight); such a node has a NULL stack pointer. A drag has a
*press*, a *release* that starts a loop, one action per pixel of the rectangle
and an end: the program does not let any other handler in between
(`op # "idle"`), but every state between two pixels is a state of the model, so
the invariants hold there too. The same is done for `delete_all`, which frees a
list node by node. Events of other windows are only taken while no mouse button
is held, since X grabs the pointer (`Quiet`); the magnifier itself takes presses
of further buttons.

A handler that follows a NULL stack pointer is modelled as `fault`: nothing
follows it. `shown` is the paint on the magnifier's pixels; `ColorBlocks`
happens at any redraw.

The pure walks of the lists (`WalkStops`, `FoundAfter`) are the loops of
`new_block`, `AddPoint` and `DeletePoint` that step `n = n->next` until the next
element is at or behind the pixel; the case of `DeletePoint` where the loop body is never entered
is `DeleteFalls`.

### How the slots are modelled

An image is a record of the fields that decide something: which slots are its
planes (`rgb`) and overlays, its number of colours, whether it has data, and what
its display buffers were made from. `sdata` is abstracted to the highest index
in it, the set of overlays painted on it and whether it comes from the last
computation. `quant`, `map` and `lut` are the *lengths* of the tables, since
the question is who reads past them. The geometry (subset, size, skip) of the
images is left out, as are the pan image's pixels and the texts of the fields.
`Reads` says whether a data file can be opened when the letter is clicked;
`kind` says what a header says of the number of bands. The median cut can use
any number of colours up to the one it is given.

`StretchFaults` is a fault that may happen. `build_table` fills its tables for all 254 display bytes, past the
end of the `lut` of a plane with fewer colours; that does no harm until a pixel has such a byte, because it was
painted on or stretched to more colours. What is then read may be the index of an entry
that is not there. The same holds for a transfer map of another length, and for the
colours of a plane that has fewer than the first (`image.c:334`). The model goes both ways: the handler
dies, or goes on as if nothing had happened. The "band" of a composite, how many bits of a
plane `build_table` uses, is left out.

A handler that follows NULL or leaves a table sets `fault` to its name and
nothing follows; therefore the runs say `CHECK_DEADLOCK FALSE` (the program may
also simply be left alone). The selection's runs say it for the same reason.

### How the windows are modelled

`Viewer` adds the four pointers that windows keep into the slot on display.
`free_image` sets two of them to NULL (`CC->image`, `Mag->image`, together with
the fields of the controls) and leaves two dangling; `create_image` and
`display_rgb.c` replace the X image and the pan image of a slot that is loaded
again. `load_image`, the letter typed in a window, sets all four, and ends with a
`colorspread`.

### How a restored session is modelled

`Restart` runs a session of `Viewer`, saves it at any point, leaves pw or does
not, and reads the file once. The two loops of `read_restart` and the tail of
`ReadRestart` are one action per slot and one for the tail; nothing runs in between,
so the actions only show the states that the code goes through. `saved` keeps of a
slot what `write_restart` prints and the model tells apart: the kind, the
band, the colours, the planes and the overlays. A data file may have gone when
it is read (`Reads`). A composite with fewer planes than three is read with
`sscanf` into uninitialised variables: `ReadPlanes` takes any value for them and
`ReadFaults` that the program dies. The file letters are not touched, as in the code.

Not every session can be read back: `Orderly` says which ones can. The manual
knows no such condition; each of its parts is a state that `ReadFaults`,
`PaintComposite` or `ReadRestart` dies of, or may die of: slot a is empty, a composite lacks planes or
its first plane has more colours than another, an image refers to a slot that is empty or
has a composite or an image with overlays of its own, a gray image to a later slot.

### How the plot window is modelled

Scales are chosen by typing, by AutoScale, by a zoom rectangle and by restoring
a session; all go through `set_plot_scale`, which appends to a ring of ten.
`UnZoom` takes two entries back and lets `set_plot_scale` append one, with
C's `%` (`Remainder`): after a wrap the position can be negative. `scaleFault`
is the read before the array. The arrows move the scale without the ring.

Which colour is active is known in three places, `CurrentBlock`, the buttons and
the blocks' states. `elsewhere` becomes true when the rose window or a restored
session, whose handlers set one of them only, has run; the properties are
about the plot window and the magnifier, and say so.

The reader's kept line is a triple: the file it was read from, the file whose
header was used and its number. `changed` becomes true when the slot of the cube is
given another file without the cube being chosen again, `failed` when a file did
not open; the handlers go on being modelled then, with the wrong spectra and
freed lines that follow, but `SpectrumIsRight` promises nothing.

### How the buttons are modelled

The cells of the callback lists have addresses, are freed and handed out again, so that
an editing routine that follows a freed cell is seen (`fault`). A dispatcher is
a frame with the list it runs and the cell it saved; anything may happen
while its callback runs, a second dispatcher among them. `Callers` are the uses
of the library in `src/`: first callbacks are deleted, and a button is destroyed
when its own callbacks have returned. Both matter: `XfDelButtonCallback` unlinks
only a first cell, and a callback that destroyed its own button with another to
follow would free what `XfButtonPush` saved.

### How the colour work is modelled

`MedianCut` keeps the table, the partitions with their counts and the sorting;
`qsort` may leave equal entries in any order, and every order is tried. Pixels of
one colour are never separated, so the list of pixels of an entry is a set of
colours. `AssociationMap` keeps the positions of the handles and the static
variables of the drag. The handler asks neither which button an event is about nor
where it happened, and X grabs the pointer for the curve's window while a button is
down: `pressed` counts the buttons, a further one goes down anywhere on the screen (`Reach`), and
the window's border is a part of it (`Pressable`). A file letter typed in mid-drag puts another
curve under the drag (`load_pallate`, which `load_image` calls); the buttons beside
the curve get nothing until all buttons are up (`Beside`). An index out of the array, or a walk of
`XfinterpolateAMap` that has no last point to stop at, is `fault`. `strayed` becomes true
when a button goes down outside of the window, `loose` marks a drag that has no handle of
this curve between its neighbours: after a deletion, after a replacement, or when it began outside.

## 3. Runs

| Run | Shows | Bounds and why they suffice |
|---|---|---|
| `lists` | type, order, homogeneity, agreement and paint in every state; every step implements `PixelOwnership` | 3 pixels in a row, 2 colours and the extended block, 3 buttons. A sorted-list error needs a node before and one after; two owners are needed for order on the stack, and the hint crosses between two lists. About 1.1 million states |
| `drags` | every loop ends | 2 × 2 picture: rectangles with both extents, first and last pixel in either direction; one colour is enough as a loop touches one block |
| `pixellist` | only the acting block changes, with the Pixel List window open (agreement and paint, which this run does not repeat, are proved for these steps too) | 2 pixels, 2 colours: the list's block and another current one |
| `slots` | type, roles, no self-reference, tables that fit, no red letter over an empty slot but by DELETE | 2 slots, 1 plane: one image uses the other, both ways round; 3 colours, so that sums reach the budget |
| `composites` | no plane number is given twice; no picture uses more colours than there are | 3 slots, 2 planes: two planes and a composite, with buttons made stale by each of the three lines; 4 colours, two for each image, so that one overlay leaves none and the second is too many, and a composite may be left with fewer than it asked for. Colours are not changed and overlays not deleted (`OverlaysStay`), which is what the property needs |
| `session` | live pointers, agreement of the windows, overlays can be taken off, in a first session and while it is restored; an orderly session is restored, and as it was | 2 slots that may do everything: the image shown and another that is reloaded, its overlay or its plane, before or after it in the file. 3 slots in sessions that only combine images from the command line: a composite of an image with an overlay, which has painted bytes for a plane and must not be called orderly. 2 colours, so that an image and one overlay use them up; data files that can be read or not; one save and one restore. The header fields are not edited in the first session, they only change `header` |
| `plot` | scales increase and the ring is a history until it is full; the lit button is the active block and hidden colours stay off; spectra come from the selected cube | a ring of 3, so that it wraps, and 4 coordinates; 2 colours and the extended block; 2 slots, 2 files, 2 lines |
| `dispatch` | no dispatcher reads a freed cell, every cell is in one list, the lists implement `CallbackLists` | 2 buttons with 2 states, 3 cells (a list with a first, a middle and a last; a cell handed out again), dispatchers 2 deep; symmetric in buttons, procedures and cells, none of which is named in a definition |
| `colors` | the cut: tiles, counts, sorting marks, number and place of the colours; the curve: no point outside of the array, ends kept, drags local | every image of 6 colours with ties, each absent or of 1 or 4 pixels, cut to every number of colours; a window of 4 columns and at most 5 handles: two columns between the ends, and a neighbour of either kind; a column of the screen on either side of the window; 2 mouse buttons. The window slides to both ends of the array, its middle, both sides of that and one place more; the other two of the eight places, one column from these, are left to the proofs. A drag that went down outside is followed until a button comes up, and no further |
| `paint`, `recompute`, `resize` | a violation each: see below | the smallest instance that has it |

In `plot` and `colors` the parts share no variable; `part` chooses the one that moves,
as interleaving them would show nothing. Their handlers read no state of each other
in the code either, except that all take pixels and slots as inputs.

Numbers of blocks (6), slots (26), planes (3) and colours (220) are constants
of the code; the modules have them as parameters. The header-less file on the
command line is left out of `slots` for `NoSelfUse` only: `off_load_filename`
returns early for it with the push buttons set for a line that is not selected,
so a slot could then be made its own plane; the assumption is explicit in
the theorem `NeverOwnPart`.

**Fairness.** `Spec` of `BlockSelection` has `WF_vars(LoopStep)`: a handler that
has been entered goes on to its end because nothing else runs. No fairness is
assumed of the user. The other specifications are safety only.

**Violations.** Each checks a sentence of the manual (`src/manual/pw.manual`)
and finds it not to hold:

- `paint`: a pixel owned by one block loses its colour when another block,
  whose only node comes before it, deletes or toggles it (`block.c:390`);
- `recompute`: a composite calculated again shows the old one's indices from
  `image_hold` (`composite.c:1583`);
- `resize`: the image window draws an X image already destroyed (`pw.c:177`).

Divergences that are modelled as faults, or kept out by an assumption that is named, without a run:
a saved session is read back by clicking on READ (`src/manual/pw.manual:600`), but
one without an image in slot a, with an incomplete composite, with references to
slots since deleted, with a gray image whose overlay is in a later slot, or with an image that refers to
one with overlays of its own need not be: pw follows NULL or leaves a table (`restart.c:421`, `restart.c:471`,
`image.c:283`; `Orderly` keeps these out);
a composite made of an image that shows an overlay looks painted bytes up in tables that do not
have them (`StretchFaults`), here as in the Files Window;
a second mouse button that goes down outside of the curve's window, during a drag, is taken for a column
of the curve (`AMap.c:587`, `AMap.c:635`; `EndsKept` is about all other presses), and a file
letter typed in mid-drag lets the drag go on with columns of the old curve (`buttons.c:293`);
clicking a line of the pixel list of a data block follows a NULL stack pointer
(`blockid.c:422`); the letter of a deleted image stays red and its click follows
NULL (`composite.c:1367`; `LetterFollowsImage` shows that DELETE alone does it);
colours can be raised after an overlay was accepted (`composite.c:917`), or the overlay
deleted and a composite, which starts with all the colours there are, made in its slot:
an image is then painted in more colours than there are, and `composites` keeps both out; the ring of scales is read before its start after it
wrapped (`plot.c:1050`); a cube whose slot is given another file is read from the
old one (`plot.c:586`); `src/plan.md` (XF-3) says that a destroyed button cannot
corrupt the dispatcher's walk, which holds for the callers there are and not for a callback
that destroys its own button before another one.

**Mutants.** For every property of every passing run `PROJECT.json` names a
change of one definition, such as a plausible slip in the code (an off-by-one in
a walk, a push instead of a move, a counter not decremented, a pointer not
cleared), under which the property fails; the mutated operators stand next to
the originals in the modules.

## 4. Theorems

All for arbitrary values of the constants under the named assumptions of the
modules (a picture with at least one pixel, at least one colour, buttons among
1..3; at least one slot and plane, at least two colours, a `NULL` that is no image; a ring of at least two
scales, an axis of some length, a curve at least three columns wide, a screen that holds its window, at least one mouse button, finitely many cells
and colours of the palette).

**Selection** (`BlockSelectionProofs`): `TypeCorrect`, `AlwaysSorted`,
`AlwaysHomogeneous`, `CopiesAgree`, `PaintIsNewest`, from the inductive invariant

    IInv == ListsOK /\ ControlTypes /\ LoopOK /\ ItemsOK

None of the properties is inductive by itself. `ListsOK` is their conjunction:
the order of a list is kept only if a walk stops at the right place, which
needs the order; the hint given to `new_block` is a node of the stack only
because the copies agree; the paint is the newest owner's only because they
agree. `LoopOK` says that a drag in progress is on a colour with pixels only and
that a replaced block is empty when its loop is over: `Release` establishes it
from `Accepts`, and `EndReplace` and `LoopBody` need it. `ItemsOK` says that a
line of the pixel list with a pixel belongs to a list made from a colour, never
from the extended block, so that `BlockIDUnDel` cannot put a pixel there.

The argument goes through one predicate, `Change(B, b, p, cs)`: block `b` gains,
loses or keeps pixel `p`, the pixel's owners become `cs`, all else is as in `B`.
`ChangeKeeps` shows that any such change keeps `ListsOK`; the lemmas
`AddPointChanges` and `HitChanges` show that `AddPoint` and the deleting case of
`DeletePoint` are such changes, from lemmas on `NewBlock`, `MoveToTop` and
`DropColor`, which rest on `CollectionLemmas` (what `InsertAt` and `RemoveAt` do
to elements, order and sets). `DataKeeps` covers everything that replaces blocks
by data. After that there is one lemma per action.

`ListsAreOwnership` proves the refinement of `PixelOwnership` (`ImplementsOwnership`), and
`OthersUntouched` proves `OnlyActingBlock`. Both rest on `StepTouches`: a step changes the list
of the acting block alone and the colours of at most one pixel, by `Takes` or `Gives`. Where the
copies agree, the members of a colour are a function of the colours of the pixels
(`MembersOwn`), so `TakesClaims` and `GivesYields` need not look at the lists at all; that
a colour that is pushed was not there before follows from the agreement after the step.

**Slots** (`ImageTableProofs`): `PlanesAreDistinct`, `RolesAreDisjoint` from
`LinkInv`: every image's references are in order and the buttons in their
range. `NeverOwnPart` adds `ApartInv`: if the selected line holds a gray image its
own two buttons are disabled, which is what the code relies on instead of a
test. Most handlers rebuild images without touching references: `Keeps` says
so and is preserved along the edits of one handler (`EditKeeps`), so the proof
never looks at stretches, quantization or the sums of colours. `NextPlaneIsFree` is
about the search in `RGB_pushbutton`.

**Tables, windows, sessions** (`ViewerProofs`). That images keep their type
(`TableTypes`) is not a matter of looking at each assignment: the top of a display's
indices is a maximum over a set of sums over sets, and both operators recur over
the set. The library states what they compute by induction theorems the prover
cannot use, so `SumType` and `MaxInSet` of `CollectionLemmas` go through a least counterexample
(`LeastNat`): a smallest set whose sum is not a number, or that has no maximum, loses
an element. `Sound` adds to the type that unpainted indices have no overlay in
them, which is what `update_display` needs to keep it (`UpdateSound`), and gives
`OverlaysComeOff`. The same lemmas, one for each handler, carry `LettersFollow`, which gives
`OnlyDeleteStrands`: only DELETE leaves a red letter over an empty slot. `Same` says of two tables that what could be shown still can; it
is transitive, so a handler that stretches, spreads and paints is followed edit by edit.

`WindowInv` adds the pointers: what `cc` and `mag` point at has indices, and they
are none before the command line has been read. Each handler of the table ends in one of three lemmas
(`WindowsKept`, `WindowsFreed`, `WindowsReplaced`), each of the windows in
`ShowImageOK`, `RepaintOK` or `PointersOK`: `ViewerTypes`, `PointersStayLive` and
`WindowsStayTogether`, for `Viewer` alone.

For `Restart` the same invariant holds at every step of a read, though slots are
freed and filled one by one: `RestartTypes`, `RestartPointersLive`,
`RestartOverlaysComeOff`. `RestartInv` adds what the second loop and the end take for
granted: the gray slots before `at` that have data have indices (`ReadTo`, without
which `PaintGray` would paint nothing), and so have the composites before `at` in the
second loop (`PaintedTo`). From these, slot a can be shown when the read ends, and
`WindowsTogetherAgain` follows.

`OrderlySessionsRestore` and `SessionsComeBack` need more than types. `Orderly` speaks of
the file and `FilesThere` of the slots read so far, so `BackInv` says, where both hold, what each
loop has done: the slots before `at` are `Faithful` to the file and `Sturdy`, and, in the second
loop, `Overlaid`. `Sturdy` is the part that is easy to miss: an image that lies over another, or is a plane of a composite, must have
tables for the colours it has and indices as they were made, or `overlay`, `quantize` or `build_table`
leave a table. Nothing keeps an image sturdy in the first session, where its number of colours may
change; in a read it is, because a slot starts with no tables (`GrayAsSaved`) and every
later painting makes them for the colours it has (`PaintRetains`). From it no painting of
an orderly slot faults (`PaintsSafely`, `StretchesSafely`, `LoadsSafely`), though the table
of images is half of one session and half of another: a gray slot is painted with earlier
slots only (`GrayPaintable`), a composite in the second loop. What a slot shows survives the
painting of the others because it depends on their colours alone (`PaintsSame`, `ShownBack`); making
a composite changes its colours, but a composite is never an overlay.

`TablesAlwaysFit` has two assumptions of its own, both needed: no header-less file on the
command line (its colours are not clamped until its line is selected, and then behind the
letter's back) and every data file can be read (`LoadImage` turns the letter white
though it read nothing). `FitInv` carries that gray images have fewer than `NColors`
colours, so that `load_info`, which every selection of a line runs, changes none.

`NeverTooManyColors` is `WithinBudget` for any number of slots and colours, as long as
numbers of colours stay as they were and no overlay is deleted; both assumptions are needed. The
invariant is not about what is displayed: `Frugal` says that an image and its overlays,
displayed or not, fit in the colours there are, and `OverlaysGray` that an overlay is a
gray image that exists. Every gray image then has `DefaultColors`, and what overlays
need is a sum of equal terms (`Share`) that no longer depends on the table of images; it
falls when an overlay goes (`ShareFacts`). `TopFrugal` shows that the last slot painted by
`overlay`, a sum over the overlays before it, stays under the budget.

**Scale** (`PlotWindowProofs`): `ScaleTypes`, `ScalesAlwaysIncrease`,
`RingIsSafeUntilFull` and the refinement `RingIsHistory`, from `ScaleInvHolds`. The
invariant relates the ring's pointer, its counter and the entries in use: until the
ring is full the counter equals the pointer, so going back stays inside, and
entries up to the pointer are proper scales. The refinement maps the ring to
the sequence of its entries up to the pointer: a scale that is chosen is an append
(or a fresh start of the history, at the wrap), going back is a removal.

**Colour buttons** (`PlotWindowProofs`): `LitButtonIsActive`, `HiddenColorsStayOff`, from
`ButtonsInvHolds`. `HiddenStaysOff` is not inductive alone: a hidden button is
not the active one only because of `LitIsActive`, and only the active block's
state is set by the magnifier and the averages.

**Cube** (`PlotWindowProofs`): `CubeTypes` and `SpectraAreRight`, from `CubeInvHolds`:
as long as the slot is unchanged and no file failed to open, an open file is the
slot's, and a kept line whose number is set is that line of that file.

**Curve** (`AssociationMapProofs`): `MapTypes`, `EndsStay`, `DragsAreLocal`, from
`MapInvHolds`, for a curve of any width, a screen of any size and any number of mouse buttons. The invariant
has two parts. `HeldOK` says of a drag that is not `loose` that the grabbed column is a
handle and that there is no other between its neighbours; the static variables say so only
together with `pressed`, since a release with another button still down ends a drag too. `BoundsOK` says
what every other drag may still hold: as long as no button went down outside of the window
(`strayed`), the columns of an unfinished, a leftover or a replaced drag lie inside it, so that
a press in one mode and a drag in another, or under another curve, stay in the array and never
take its first or last point, though they may take handles of the curve that were not grabbed.
The loops that look for a handle are extremes of a set (`DownIs`, `UpIs`), which stop where they
begin if that is beyond the end of the window.

**Dispatch** (`XfButtonProofs`): `WalksAreSafe`, `CellsAreOwned` and the refinement
`ListsAreKept`, from `XfInvHolds`, under `CellAssumption` (there is a finite set of cells,
as there is of addresses). `ListInv` says that following `next` from a head gives a
sequence of distinct cells that ends, that no two live heads share a cell, and that the
cells in use are those of the live lists; `FramesInv` that a run in progress is on the
list of a live button and has saved nothing or a cell that still is on that list. Both rest on
`Callers`, which holds of the callbacks in this program and not of any there could be: nothing is deleted from, or destroyed under, a button that is being run. Every edit is a
change of links that `Owns` describes for one list, and `NextLists` brings it back to
what the walk over the new links finds. The refinement maps a list to
the procedures of its cells: adding one at the end is an append.

**Median cut** (`MedianCutProofs`): `PartitionsAlwaysTile`, `SplitStaysInside`,
`MarksAreTrue`, `PixelsDrawnOnce` and `ColoursAsAsked`, from `MedianInvHolds`, for any finite
palette and any picture. The counts of partitions are sums over intervals of the table,
which sorting permutes (`SumRenamed`) and a cut divides (`SumUnion`). A cut falls inside
because the counts up to an entry grow, so that past the median the difference cannot
go on falling: the loop of `make_split` stops in the partition, and its second entry at the earliest
takes back to the first. The colours are as many as asked for because a partition
that is as wide as none has one entry, so when nothing can be cut there are as many
partitions as entries. That the mean of the colours of a partition lies between them is
`AverageBetween`.

**Only model-checked**: `LoopsEnd` (liveness) of `BlockSelection`, as liveness under fairness is
out of the prover's reach. Every other property of a passing run is a theorem; `TablesFit`,
`WithinBudget` and `NoSelfUse` under the assumptions named above. `Cells`, `PixelsIn` and
`ColorsIn` are recursive functions or folds of the community modules, since a module with a
`RECURSIVE` operator cannot be proved about.

## 5. Not modelled

Drawing, text and geometry; the reading of files, whose outcome is an input of
`ImageTable` and `CubeReader`; the waves of spectra, deleted points and
averages; the arithmetic of `image.c` (histogram, stretch), `quant.c` and `color.c`; the
readout window; the text of a saved session's file, its stretch limits, the clamping of a subset that
does not fit the file it is read for (`read_restart`), and deleted points; a file named with `-all` that does not exist
(`pw.c:605`, which follows NULL); the diagrams of the rose window;
the other widgets; iomedley and the vendored libraries, which are most of the
repository's lines and third-party code without a state that outlives a call of pw's; `sp`.
The memory mode in which data is not kept is left out as well.

## 6. Plan

Done: selection, slots, windows, saved sessions, the plot window's scale, buttons and cube,
button dispatch, median cut and transfer curve, with their runs and the proofs of section 4.
Next, in this order:

1. **Magnifier**: selection and slots together, for what emptying a block does to
   a magnifier whose image is gone (`mag.c:488`), and the plot's cube
   (`plot.c:964`).
2. **Waves**: who owns the waves of a colour, of the average and of a restored session
   (`plot.c:1821`).
3. **Stretch**: `quantize` and the gray stretch as pure functions (`quant.c`,
   `image.c:194`).
4. **Readout**: the list of DN lines and the names of the planes.
5. Text editing of `xgets.c`.
