----------------------------- MODULE ModuleEditor -----------------------------
(***************************************************************************)
(* The dialog that adds and edits modules (module-editor.js): the type     *)
(* decides which fields there are, and the containers or services of the   *)
(* selected host are loaded from its agent while the user goes on.  All of *)
(* its selects are comboboxes.                                             *)
(*                                                                         *)
(* Every handler runs to its end before the next event, and what it calls  *)
(* changes the same fields several times: the form is a record, and the    *)
(* methods of the script are operators from forms to forms.                *)
(***************************************************************************)
EXTENDS SearchableSelect, FiniteSets

CONSTANTS
    HostOptions,  \* the hosts in the order of their options
    Unavailable,  \* hosts whose option is hidden
    Found,        \* host -> loader -> the names its agent finds
    IdOf,         \* container -> its Docker id, which older modules saved
    SavedModules, \* modules that can be edited
    Blank         \* no value

Loaders == {"container", "service"}
TypeOptions == <<"http", "docker", "systemd", "minecraft">>
\* The field that is loaded from the host, if the type has one.
Remote(kind) ==
    CASE kind = "docker" -> "container" [] kind = "systemd" -> "service" [] OTHER -> ""
UsesHost(kind) == kind \in {"http", "docker", "systemd"}

\* What a form is opened with: for a new module the type that was selected when
\* the page was rendered, which after a refused form is the one that was posted.
NewModule(kind) == [kind |-> kind, host |-> Blank, container |-> Blank, service |-> Blank]

\* The page adds the hosts of the saved modules to those that are enabled.
ASSUME SavedModulesAssumption ==
    \A m \in SavedModules :
        /\ m.kind \in ToSet(TypeOptions)
        /\ m.host # Blank => m.host \in ToSet(HostOptions) /\ UsesHost(m.kind)
        /\ Remote(m.kind) # "" => m.host # Blank /\ m[Remote(m.kind)] # Blank

IsList(s) == s \in Seq(ToSet(s))

ASSUME ListsAssumption ==
    /\ IsList(HostOptions)
    /\ \A h \in ToSet(HostOptions), l \in Loaders : IsList(Found[h][l])

VARIABLES
    dialog,   \* the dialog is open
    form,     \* the fields, their loaders and the save button
    boxes     \* select -> its combobox

editorVars == <<dialog, form, boxes>>

Selects == {"type", "host"} \cup Loaders

\* The form as the page is rendered.  Ghosts: "subject" is what it was opened
\* with, "touched" tells that the user has chosen something since, "listed" is
\* the host whose answer a select offers.
EmptyForm ==
    [kind |-> "http", host |-> Blank,
     value |-> [l \in Loaders |-> Blank], options |-> [l \in Loaders |-> <<Blank>>],
     disabled |-> [l \in Loaders |-> TRUE],
     request |-> [l \in Loaders |-> 0], loading |-> [l \in Loaders |-> FALSE], fetches |-> {},
     saving |-> FALSE, blocked |-> FALSE,
     subject |-> NewModule("http"), touched |-> FALSE, listed |-> [l \in Loaders |-> NoText]]

SelectOf(f, s) ==
    CASE s = "type" -> [options |-> TypeOptions, value |-> f.kind, disabled |-> FALSE, unlisted |-> {}]
      [] s = "host" -> [options |-> <<Blank>> \o HostOptions, value |-> f.host,
                        disabled |-> ~UsesHost(f.kind), unlisted |-> Unavailable]
      [] s \in Loaders -> [options |-> f.options[s], value |-> f.value[s],
                           disabled |-> f.disabled[s], unlisted |-> {}]

EditorInit ==
    /\ dialog = FALSE
    /\ form = EmptyForm
    /\ boxes = [s \in Selects |-> ClosedBox(SelectOf(EmptyForm, s))]

\* updateSaveState(): "blocked" is the disabled save button.
SaveState(f) == [f EXCEPT !.blocked = f.saving \/ \E l \in Loaders : f.loading[l]]

\* cancel(): an aborted fetch ends its load() without any effect.
CancelLoad(f, l) ==
    [f EXCEPT !.fetches = {r \in @ : r.loader # l}, !.request[l] = 0, !.loading[l] = FALSE]

CancelAll(f) == CancelLoad(CancelLoad(f, "container"), "service")

Placeholder(f, l, value) ==
    [f EXCEPT !.options[l] = <<value>>, !.value[l] = value, !.listed[l] = NoText]

\* load() up to its first await.
Load(f, l, selected) ==
    LET idle == Placeholder([CancelLoad(f, l) EXCEPT !.disabled[l] = TRUE], l, Blank)
        n == CHOOSE i \in 1 .. 3 : \A r \in idle.fetches : r.n # i
    IN IF idle.host = Blank THEN SaveState(idle)
       ELSE SaveState([idle EXCEPT
                !.request[l] = n, !.loading[l] = TRUE,
                !.fetches = @ \cup {[loader |-> l, n |-> n, host |-> idle.host, selected |-> selected]}])

\* Fault: a type without remote options leaves the save button as it was.
ApplyUnsaved(f) ==
    LET remote == Remote(f.kind)
        idle == CancelAll([f EXCEPT !.host = IF UsesHost(f.kind) THEN @ ELSE Blank,
                                    !.disabled = [l \in Loaders |-> l # remote]])
    IN IF remote = "" THEN idle ELSE Load(idle, remote, idle.value[remote])

\* ModuleTypeConfiguration.apply()
Apply(f) ==
    LET remote == Remote(f.kind)
        idle == CancelAll([f EXCEPT !.host = IF UsesHost(f.kind) THEN @ ELSE Blank,
                                    !.disabled = [l \in Loaders |-> l # remote]])
    IN SaveState(IF remote = "" THEN idle ELSE Load(idle, remote, idle.value[remote]))

\* The answer that is current: a Docker id becomes the name of its container,
\* a selection that was not found stays as an option of its own.
Answered(f, r, items) ==
    LET l == r.loader
        named == {i \in ToSet(items) \cap DOMAIN IdOf :
                      r.selected # Blank /\ r.selected \notin ToSet(items) /\ IdOf[i] = r.selected}
        selected == IF named = {} THEN r.selected ELSE CHOOSE i \in named : TRUE
        kept == IF selected = Blank \/ selected \in ToSet(items) THEN <<>> ELSE <<selected>>
    IN SaveState([f EXCEPT !.options[l] = <<Blank>> \o items \o kept, !.value[l] = selected,
                           !.disabled[l] = FALSE, !.loading[l] = FALSE, !.listed[l] = r.host])

\* Fault: a failure forgets the selection.
FailedBlank(f, r) ==
    SaveState([Placeholder(f, r.loader, Blank) EXCEPT
                   !.disabled[r.loader] = FALSE, !.loading[r.loader] = FALSE])

Failed(f, r) ==
    SaveState([Placeholder(f, r.loader, r.selected) EXCEPT
                   !.disabled[r.loader] = FALSE, !.loading[r.loader] = FALSE])

\* Fault: a change of the host is ignored while options load.
ChangeHostIdle(f, host) ==
    LET changed == [f EXCEPT !.host = host]
        remote == Remote(f.kind)
    IN IF remote = "" \/ f.loading[remote] THEN changed ELSE Load(changed, remote, Blank)

\* The change of a select, with the handler the editor has for it.
ChangeHost(f, host) ==
    LET changed == [f EXCEPT !.host = host]
        remote == Remote(f.kind)
    IN IF remote = "" THEN changed ELSE Load(changed, remote, Blank)

Changed(f, s, v) ==
    CASE s = "type" -> Apply([f EXCEPT !.kind = v])
      [] s = "host" -> ChangeHost(f, v)
      [] s \in Loaders -> [f EXCEPT !.value[s] = v]

\* A select that changes has its combobox refreshed: by the handler itself, by a
\* MutationObserver, or after the reset of the form.  A list the handler leaves
\* open over a select it does not touch stays as it is.
Becomes(f, now) ==
    /\ form' = f
    /\ boxes' = [s \in Selects |->
           IF now[s].open /\ SelectOf(f, s) = SelectOf(form, s) THEN now[s]
           ELSE RefreshBox(now[s], SelectOf(f, s))]

\* open(data), and the constructor when the server returns a refused form.
Opened(subject) ==
    Apply([form EXCEPT
        !.kind = subject.kind, !.host = subject.host,
        !.options = [l \in Loaders |-> <<subject[l]>>], !.value = [l \in Loaders |-> subject[l]],
        !.listed = [l \in Loaders |-> NoText],
        !.saving = FALSE, !.subject = subject, !.touched = FALSE])

AllClosed == [s \in Selects |-> [boxes[s] EXCEPT !.open = FALSE]]

OpenDialog(subject) ==
    /\ ~dialog
    /\ dialog' = TRUE
    /\ Becomes(Opened(subject), boxes)

CloseDialog ==
    /\ dialog
    /\ dialog' = FALSE
    /\ Becomes(form, AllClosed)

\* The user chooses match i of select s.
Choose(s, i) ==
    Becomes(Changed([form EXCEPT !.touched = TRUE], s, boxes[s].matches[i]), AllClosed)

\* Keys and clicks reach an enabled input that is or becomes focused; another
\* list is closed when it loses the focus (AllClosed).
Focused(s, box) == boxes' = [u \in Selects |-> IF u = s THEN box ELSE
                                              IF boxes[u].open THEN ClosedBox(SelectOf(form, u)) ELSE boxes[u]]

UseBox(s) ==
    LET sel == SelectOf(form, s)
        box == boxes[s]
    IN /\ dialog /\ ~sel.disabled
       /\ UNCHANGED dialog
       /\ \/ /\ \/ Focused(s, OpenBox(box, sel, NoText))
                \/ \E text \in {NoText, Nonsense} \cup ToSet(sel.options) : Focused(s, TypeInto(box, sel, text))
                \/ \E down \in BOOLEAN : Focused(s, PressArrow(box, sel, down))
                \/ box.open /\ \E first \in BOOLEAN : Focused(s, PressEdge(box, first))
                \/ box.open /\ Focused(s, ClosedBox(sel))
             /\ UNCHANGED form
          \/ box.open /\ \E i \in EnterChooses(box) \cup DOMAIN box.matches : Choose(s, i)

\* A fetch ends; load() goes on if its request is still the latest.
Latest(r) == form.request[r.loader] = r.n

FetchEnds(r) ==
    LET rest == [form EXCEPT !.fetches = @ \ {r}]
    IN /\ IF ~Latest(r) THEN Becomes(rest, boxes)
          ELSE \/ \E items \in {Found[r.host][r.loader], <<>>} : Becomes(Answered(rest, r, items), boxes)
               \/ Becomes(Failed(rest, r), boxes)
       /\ UNCHANGED dialog

\* The form is complete, the button not disabled, and the handler does not
\* prevent it; the server answers with the page, or with the refused form,
\* which was posted without its disabled fields.
SubmitForm ==
    /\ dialog /\ ~form.blocked
    /\ LET remote == Remote(form.kind)
       IN remote # "" => form.host # Blank /\ form.value[remote] # Blank
    /\ ~form.saving /\ \A l \in Loaders : ~form.loading[l]
    /\ Becomes(SaveState([form EXCEPT !.saving = TRUE]), AllClosed)
    /\ UNCHANGED dialog

Posted(l) == IF form.disabled[l] THEN Blank ELSE form.value[l]

PageReturns ==
    /\ form.saving
    /\ \/ /\ dialog' = FALSE
          /\ Becomes(EmptyForm, AllClosed)
       \/ /\ dialog' = TRUE
          /\ Becomes(Opened([kind |-> form.kind, host |-> form.host,
                             container |-> Posted("container"), service |-> Posted("service")]), AllClosed)

EditorNext ==
    \/ \E subject \in SavedModules : OpenDialog(subject)
    \/ \E i \in DOMAIN TypeOptions : OpenDialog(NewModule(TypeOptions[i]))
    \/ CloseDialog \/ SubmitForm \/ PageReturns
    \/ \E s \in Selects : UseBox(s)
    \/ \E r \in form.fetches : FetchEnds(r)

EditorTypeOK ==
    /\ dialog \in BOOLEAN
    /\ form.kind \in ToSet(TypeOptions)
    /\ form.host \in ToSet(HostOptions) \cup {Blank}
    /\ \A l \in Loaders : form.value[l] \in ToSet(form.options[l])
    /\ Cardinality({s \in Selects : boxes[s].open}) <= 1

\* The containers or services offered are those of the host that is selected
\* now, however the user changed type and host, closed the dialog or opened
\* another module while older requests were under way.
OptionsAreOfTheHost ==
    \A l \in Loaders : ~form.disabled[l] =>
        /\ l = Remote(form.kind)
        /\ form.host # Blank
        /\ form.listed[l] \in {NoText, form.host}

\* What the user did not touch is saved as it was: the name a form was opened
\* with is still selected after its options were loaded, were not found, or
\* could not be loaded, if not as the name of the container whose id it was.
UntouchedIsKept ==
    LET remote == Remote(form.kind)
    IN dialog /\ ~form.touched /\ remote # "" /\ ~form.disabled[remote] =>
           LET was == form.subject[remote]
               is == form.value[remote]
           IN is = was \/ (was # Blank /\ is \in DOMAIN IdOf /\ IdOf[is] = was)

\* The form can be saved exactly when it is not being saved and nothing loads,
\* and what loads is the remote field of its type, with a request under way.
SaveWaitsForOptions ==
    /\ form.blocked <=> form.saving \/ \E l \in Loaders : form.loading[l]
    /\ \A l \in Loaders : form.loading[l] =>
           /\ l = Remote(form.kind)
           /\ \E r \in form.fetches : r.loader = l /\ Latest(r) /\ r.host = form.host

\* Every combobox shows its select, whatever changes the select meanwhile.
BoxesShowTheirSelects == \A s \in Selects : BoxIsOf(boxes[s], SelectOf(form, s))
=============================================================================
