----------------------------- MODULE UssdMenus ------------------------------
(***************************************************************************)
(* Telephone menus: ussd/menu-builder.js and ussd/response-formatter.js.   *)
(* An application adds and removes menus while phones walk through them,   *)
(* and the data some menus list changes; each screen is split into pages   *)
(* and cut to the length the network takes.                                *)
(*                                                                         *)
(* render() and handleInput() take the menu object, then wait for what the *)
(* application supplies: dynamicItems(), the validator, the handler.  The  *)
(* application shows the screen, passes on what is typed and follows the   *)
(* answer.  An input is a number, "0" ("back") or "00" ("home"); a text is *)
(* the sequence of the lengths of its lines.                               *)
(*                                                                         *)
(* The numbers of a menu's own items differ, and so do those of a list.    *)
(* Conditional items come after both on the screen and handleInput() never *)
(* looks at them: they are left out.                                       *)
(***************************************************************************)
EXTENDS Integers, Sequences, FiniteSets, SequencesExt, Collections

CONSTANTS
  Dialogs,        \* phones that are in a dialog
  MenuIds,
  Home,           \* main_menu
  NoMenu,
  Missing,        \* what the Map holds under an identifier without a menu
  Services,       \* targets handed to the application: execute, external, ...
  Numbers,        \* numbers of items as they are typed
  MenuShapes,     \* what addMenu() is given
  Listings        \* what dynamicItems() may return, as the data it lists changes

Targets == MenuIds \cup Services \cup {"end"}
Entries == UNION {[N -> Targets] : N \in SUBSET Numbers}
Shape ==
  [parent : MenuIds \cup {NoMenu}, backAction : {"parent", "main", "end"}, items : Entries,
   hidden : SUBSET Numbers,            \* own items that are not visible
   dynamic : BOOLEAN, inputType : {"selection", "text"}, validator : BOOLEAN, handler : BOOLEAN]

ASSUME MenuAssumption ==
  /\ Home \in MenuIds /\ {NoMenu, Missing} \cap MenuIds = {} /\ Missing \notin Shape
  /\ Targets \cap {"menu not found", "refused", "invalid", "continue"} = {}
  /\ Numbers \cap {"0", "00"} = {}
  /\ MenuShapes \subseteq Shape /\ Listings \subseteq Entries

VARIABLES
  menus,    \* id |-> shape, the Map of the menu builder
  listing,  \* what dynamicItems() would return now
  dialogs   \* where each phone is, and the call that serves it

menuVars == <<menus, listing, dialogs>>

Inputs == Numbers \cup {"0", "00"}
Outcomes == Targets \cup {"menu not found", "refused", "invalid", "continue"}

Dialog ==
  [at : MenuIds,
   phase : {"rendering", "shown", "handling", "answered"},
   menu : Shape \cup {Missing},                  \* the object the last call took
   screen : [own : Entries, listed : Entries],   \* the numbered lines on the phone
   input : Inputs, outcome : Outcomes,
   stale : BOOLEAN]   \* history: what the screen was made from has changed since

MenusTypeOK ==
  /\ DOMAIN menus \subseteq MenuIds /\ \A i \in DOMAIN menus : menus[i] \in Shape
  /\ listing \in Entries
  /\ dialogs \in [Dialogs -> Dialog]

-----------------------------------------------------------------------------
\* this.menus.get()
Get(id) == IF id \in DOMAIN menus THEN menus[id] ELSE Missing

NoLines == [n \in {} |-> Home]

\* render(): the lines of a menu when dynamicItems() returns list.
Lines(menu, list) ==
  IF menu = Missing THEN [own |-> NoLines, listed |-> NoLines]
  ELSE [own |-> [n \in DOMAIN menu.items \ menu.hidden |-> menu.items[n]],
        listed |-> IF menu.dynamic THEN list ELSE NoLines]

\* _handleBack()
_handleBack(menu) ==
  CASE menu.backAction = "parent" /\ menu.parent # NoMenu -> menu.parent
    [] menu.backAction = "main" -> Home
    [] menu.backAction = "end" -> "end"
    [] OTHER -> IF menu.parent # NoMenu THEN menu.parent ELSE Home

\* The item of a number: the menu's own, else one of the list.
SelectedItem(menu, n, list) ==
  CASE n \in DOMAIN menu.items -> menu.items[n]
    [] n \notin DOMAIN menu.items /\ menu.dynamic /\ n \in DOMAIN list -> list[n]
    [] OTHER -> "invalid"

-----------------------------------------------------------------------------
\* A dialog before its next screen.
Opened(id, phase, menu, outcome) ==
  [at |-> id, phase |-> phase, menu |-> menu, screen |-> [own |-> NoLines, listed |-> NoLines],
   input |-> "00", outcome |-> outcome, stale |-> FALSE]

\* After buildApplication() every dialog is to be shown main_menu.
MenuInit ==
  /\ menus \in [{Home} -> {s \in MenuShapes : s.parent = NoMenu}]
  /\ listing \in Listings
  /\ dialogs = [d \in Dialogs |-> Opened(Home, "answered", Missing, Home)]

\* The dialogs of which something changes have lost what they showed.
Outdated(changed) ==
  dialogs' = [d \in Dialogs |-> [dialogs[d] EXCEPT !.stale = @ \/ d \in changed]]

\* A menu counts until handleInput() has taken it.
Showing(id) == {d \in Dialogs : dialogs[d].at = id /\ dialogs[d].phase \in {"rendering", "shown"}}

addMenu(id, shape) ==
  /\ menus' = [i \in DOMAIN menus \cup {id} |-> IF i = id THEN shape ELSE menus[i]]
  /\ Outdated(Showing(id)) /\ UNCHANGED listing

removeMenu(id) ==
  /\ menus' = [i \in DOMAIN menus \ {id} |-> menus[i]]
  /\ Outdated(Showing(id)) /\ UNCHANGED listing

\* The data that menus list changes; it counts until it is read again.
Relist(list) ==
  /\ listing' = list /\ list # listing
  /\ Outdated({d \in Dialogs : /\ dialogs[d].phase \in {"shown", "handling"}
                               /\ dialogs[d].menu # Missing /\ dialogs[d].menu.dynamic})
  /\ UNCHANGED menus

\* The application follows an answer and renders the menu it leads to.  A
\* dialog that ended begins again, all other answers leave it where it is.
render(d) ==
  LET to == dialogs[d].outcome
      next == IF to = "end" THEN Home ELSE IF to \in MenuIds THEN to ELSE dialogs[d].at
  IN  /\ dialogs[d].phase = "answered"
      /\ dialogs' = [dialogs EXCEPT ![d] = Opened(next, "rendering", Get(next), "continue")]
      /\ UNCHANGED <<menus, listing>>

\* dynamicItems() has returned, and the screen is on the phone.
Rendered(d) ==
  /\ dialogs[d].phase = "rendering"
  /\ dialogs' = [dialogs EXCEPT ![d] = [@ EXCEPT !.phase = "shown",
                                                 !.screen = Lines(dialogs[d].menu, listing)]]
  /\ UNCHANGED <<menus, listing>>

\* handleInput() takes the menu; these inputs need no waiting.
Immediate(menu, input) ==
  CASE menu = Missing -> "menu not found"
    [] menu # Missing /\ input = "0" -> _handleBack(menu)
    [] OTHER -> Home

handleInput(d, input) ==
  LET menu == Get(dialogs[d].at)
      waits == menu # Missing /\ input \in Numbers
  IN  /\ dialogs[d].phase = "shown"
      /\ dialogs' = [dialogs EXCEPT ![d] =
           [@ EXCEPT !.menu = menu, !.input = input,
                     !.phase = IF waits THEN "handling" ELSE "answered",
                     !.outcome = IF waits THEN dialogs[d].outcome ELSE Immediate(menu, input)]]
      /\ UNCHANGED <<menus, listing>>

\* What handleInput() may return when the validator and dynamicItems() have
\* answered.  What a handler returns is the application's.
Results(menu, input) ==
  (IF menu.validator THEN {"refused"} ELSE {}) \cup
  (CASE menu.inputType = "selection" -> {SelectedItem(menu, input, listing)}
     [] menu.inputType # "selection" /\ menu.handler -> Targets
     [] OTHER -> {"continue"})

Answers(d, outcome) ==
  /\ dialogs' = [dialogs EXCEPT ![d] = [@ EXCEPT !.phase = "answered", !.outcome = outcome]]
  /\ UNCHANGED <<menus, listing>>

\* Mutant: the menu is looked up once more after the wait.
Handled_LooksAgain(d, outcome) ==
  /\ dialogs[d].phase = "handling"
  /\ outcome \in Results(IF Get(dialogs[d].at) = Missing THEN dialogs[d].menu
                         ELSE Get(dialogs[d].at), dialogs[d].input)
  /\ Answers(d, outcome)

Handled(d, outcome) ==
  /\ dialogs[d].phase = "handling"
  /\ outcome \in Results(dialogs[d].menu, dialogs[d].input)
  /\ Answers(d, outcome)

MenuNext ==
  \/ \E id \in MenuIds, shape \in MenuShapes :
       (id = Home => shape.parent = NoMenu) /\ addMenu(id, shape)
  \/ \E id \in MenuIds : removeMenu(id)
  \/ \E list \in Listings : Relist(list)
  \/ \E d \in Dialogs :
       \/ render(d) \/ Rendered(d)
       \/ \E input \in Inputs : handleInput(d, input)
       \/ \E outcome \in Outcomes : Handled(d, outcome)

MenuSpec == MenuInit /\ [][MenuNext]_menuVars

-----------------------------------------------------------------------------
\* What a screen says a number leads to.
Says(screen, n) ==
  CASE n \in DOMAIN screen.own -> screen.own[n]
    [] n \notin DOMAIN screen.own /\ n \in DOMAIN screen.listed -> screen.listed[n]
    [] OTHER -> "invalid"

(* A number leads where the screen on the phone said (render(), line 95,   *)
(* and handleInput(), line 162, read menus and lists again, and wait while *)
(* other requests edit them): to the first line with this number, and      *)
(* nowhere if there is none.  Only the validator may refuse it, and only a *)
(* menu replaced while it was on show, a list that changed before it was   *)
(* read again, or a hidden item of the same number lead elsewhere; editing *)
(* a menu while its answer is awaited does not.                            *)
ShownIsChosen ==
  \A d \in Dialogs :
    LET g == dialogs[d]
    IN  (/\ g.phase = "answered" /\ ~g.stale /\ g.input \in Numbers
         /\ g.menu # Missing /\ g.menu.inputType = "selection" /\ g.input \notin g.menu.hidden)
          => g.outcome \in {"refused", Says(g.screen, g.input)}

-----------------------------------------------------------------------------
Texts == Seq(Nat)

\* The length of lines, each with its newline.
Weight(lines) == Total(lines, Len(lines)) + Len(lines)

\* paginate(): as many lines on a page as fit; a line that does not fit begins
\* the next page.

Placed(pages, line, pageSize) ==
  LET page == Last(pages)
  IN  IF Weight(page) + line + 1 > pageSize /\ page # <<>> THEN Append(pages, <<line>>)
      ELSE Append(Front(pages), Append(page, line))

Filled(lines, pageSize) ==
  LET place == [n \in DOMAIN lines |-> [pages \in Seq(Texts) \ {<<>>} |-> Placed(pages, lines[n], pageSize)]]
  IN  Iterated(place, << <<>> >>, Len(lines))

\* trim(): without the empty lines at both ends.
Trimmed(lines) ==
  LET full == {n \in DOMAIN lines : lines[n] > 0}
  IN  IF full = {} THEN <<>> ELSE SubSeq(lines, Min(full), Max(full))

\* The last page is left out if it is empty, pages before it are kept.
paginate(lines, pageSize) ==
  LET pages == Filled(lines, pageSize)
      kept == IF Trimmed(Last(pages)) = <<>> THEN Front(pages) ELSE pages
  IN  [i \in DOMAIN kept |-> Trimmed(kept[i])]

\* The text around a page of several: an empty line, "Page i/n", "1. Next"
\* on all but the last, and "0. Back".
WithFooter(pages, i) ==
  IF Len(pages) = 1 THEN pages[1]
  ELSE pages[i] \o <<0, 8>> \o (IF i < Len(pages) THEN <<7>> ELSE <<>>) \o <<7>>

\* truncate(): at the last line break in the last fifth, or in mid-line;
\* breaks at spaces are those of one line and left out.
truncate(lines, maxLength) ==
  IF Weight(lines) - 1 <= maxLength THEN lines
  ELSE LET fits(n) == Weight(SubSeq(lines, 1, n)) - 1 < maxLength - 3
           whole == {n \in 0 .. Len(lines) : fits(n) /\ n < Len(lines)}
           last == CHOOSE n \in whole : \A k \in whole : k <= n
           head == SubSeq(lines, 1, last)
       IN  IF 10 * (Weight(head) - 1) > 8 * maxLength
           THEN Append(Front(head), Last(head) + 3)
           ELSE Append(head, maxLength - Weight(head))

\* All lines of some pages, and those of a text that are not empty.
AllLines(pages) ==
  Iterated([n \in DOMAIN pages |-> [text \in Texts |-> text \o pages[n]]], <<>>, Len(pages))
NonEmpty(text) == Passing(text, Nat \ {0})

(* Pages (response-formatter.js:395) lose nothing but empty lines at their *)
(* ends: the other lines are the message's, in order; a page keeps to its  *)
(* size unless it is a single longer line; and two neighbours would not    *)
(* fit on one page.                                                        *)
PagesComplete(messages, pageSize) ==
  \A lines \in messages :
    LET pages == paginate(lines, pageSize)
        filled == Filled(lines, pageSize)
    IN  /\ NonEmpty(AllLines(pages)) = NonEmpty(lines)
        /\ \A i \in DOMAIN pages : Weight(pages[i]) > pageSize => Len(pages[i]) = 1
        /\ \A i \in 1 .. Len(filled) - 1 :
             Weight(filled[i]) + filled[i + 1][1] + 1 > pageSize

(* A cut message keeps to the limit and to the beginning of the original.  *)
CutKeepsLimit(messages, maxLength) ==
  \A lines \in messages :
    LET cut == truncate(lines, maxLength)
    IN  /\ Weight(cut) - 1 <= maxLength
        /\ \A i \in 1 .. Len(cut) - 1 : cut[i] = lines[i]

(* "IMPORTANT: USSD messages are typically limited to 182 characters"      *)
(* (response-formatter.js:16): a page of the default size is sent whole,   *)
(* its "0. Back" included.                                                 *)
PagesFitScreen(messages) ==
  \A lines \in messages :
    LET pages == paginate(lines, 160)
    IN  \A i \in DOMAIN pages :
          Len(pages) > 1 => truncate(WithFooter(pages, i), 182) = WithFooter(pages, i)
=============================================================================
