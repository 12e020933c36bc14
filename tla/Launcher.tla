------------------------------ MODULE Launcher ------------------------------
(***************************************************************************)
(* The application launcher in awm-ui: the list it builds from .desktop    *)
(* files and PATH, the rows and the selection of its window, the search    *)
(* text that GTK reports late, and the history of launches on disk.  It    *)
(* models launcher.c; what passes between it and awm is in module          *)
(* UiHelper, whose proofs share a module with those of this one: names     *)
(* that both would have start with Launcher here.                          *)
(***************************************************************************)
EXTENDS Naturals, Sequences, FiniteSets, FiniteSetsExt, Lists

CONSTANTS
    Desktop,   \* the .desktop files, in the order they are read: a sequence
    Path,      \* executables on PATH, in order
    Text,      \* texts that may be typed
    Match,     \* for each of them: the names it is a part of
    MaxActs,   \* keys, clicks, themes and crashes (bound)
    MaxCount   \* launches of a program that are told apart (bound)

NoText == "none"
NoRow == 0

\* A file may be skipped for its own name, lack Name or Exec, or be hidden.
\* Names are numbers, in the order of strcasecmp().
DesktopFile == [name : Nat, skipped : BOOLEAN, complete : BOOLEAN, no_display : BOOLEAN]

ASSUME FilesAssumption == Desktop \in Seq(DesktopFile) /\ Path \in Seq(Nat)
ASSUME TextAssumption == Match \in [Text -> SUBSET Nat] /\ NoText \notin Text
ASSUME BoundAssumption == MaxActs \in Nat /\ MaxCount \in Nat

-----------------------------------------------------------------------------
\* The list of applications.

launcher_parse_desktop_file(f) == ~f.skipped /\ f.complete /\ ~f.no_display

\* All files of that name are taken: a file of the user does not replace one
\* of the system.
launcher_load_desktop_files ==
    LET read == Keep(Desktop, {f \in DesktopFile : launcher_parse_desktop_file(f)})
    IN  [i \in DOMAIN read |-> [name |-> read[i].name, is_desktop |-> TRUE]]

launcher_find_duplicates(items, name) == \E i \in DOMAIN items : items[i].name = name

\* The first executable of a name, if no application has the name.
launcher_scan_path(existing) ==
    LET new  == {i \in DOMAIN Path : /\ ~launcher_find_duplicates(existing, Path[i])
                                     /\ \A j \in 1 .. i - 1 : Path[j] # Path[i]}
        kept == Keep([i \in DOMAIN Path |-> i], new)
    IN  [k \in DOMAIN kept |-> [name |-> Path[kept[k]], is_desktop |-> FALSE]]

launcher_append_items(items, new) == items \o new

items ==
    launcher_append_items(launcher_load_desktop_files,
                          launcher_scan_path(launcher_load_desktop_files))

Item == DOMAIN items
Count == [Item -> 0 .. MaxCount]

\* Matching is by substring, and the empty text is part of every name.
launcher_item_matches(i, text) ==
    text # NoText => items[i].name \in Match[text]

\* What was launched comes first, the more often the earlier; the rest is in
\* the order of the names.  qsort() may order equals in any way; here they
\* keep the order of the list.
launcher_item_cmp(count, i, j) ==
    IF count[i] # count[j] THEN count[i] > count[j]
    ELSE IF count[i] = 0 /\ items[i].name # items[j].name
         THEN items[i].name < items[j].name
    ELSE i < j

\* In row k is the item that k - 1 others come before.
Ranked(count) ==
    [k \in Item |-> CHOOSE i \in Item :
        Cardinality({j \in Item : launcher_item_cmp(count, j, i)}) = k - 1]

-----------------------------------------------------------------------------

VARIABLES
    launch_count,   \* of each item
    file,           \* the history: its lines, <<name, count>>
    saving,         \* the history file is being written
    rows,           \* the list box: items from the top
    sel,            \* the selected one, or NoRow
    search,         \* the text of the entry
    filtered,       \* the text by which rows were last hidden
    changed,        \* "search-changed" is due, 150 ms after the last key
    idle,           \* select_first_visible_idle is due
    visible,
    acts,
    launched,       \* history: launches of each name
    lost,           \* history: a save failed or was cut short
    moved           \* history: the arrows were used since the text changed

boxVars    == <<rows, sel, search, filtered, changed, idle, moved>>
saveVars   == <<launch_count, file, saving, launched, lost>>
launcherVars == <<boxVars, saveVars, visible, acts>>

Act == acts < MaxActs /\ acts' = acts + 1
Names == {items[i].name : i \in Item}

-----------------------------------------------------------------------------
\* The history.

\* A line sets the count of the first item of that name; later lines of the
\* same name set it again.
FirstOf(name) == CHOOSE i \in Item : items[i].name = name /\ \A j \in Item :
                                        items[j].name = name => i <= j

launcher_history_load_FirstLine(lines) ==
    [i \in Item |->
        LET mine == {k \in DOMAIN lines : lines[k][1] = items[i].name}
        IN  IF mine = {} \/ i # FirstOf(items[i].name) \/ Min(mine) # 1 THEN 0
            ELSE lines[1][2]]

launcher_history_load(lines) ==
    [i \in Item |->
        LET mine == {k \in DOMAIN lines : lines[k][1] = items[i].name}
        IN  IF mine = {} \/ i # FirstOf(items[i].name) THEN 0
            ELSE lines[Max(mine)][2]]

Lines ==
    LET counted == Keep([i \in Item |-> i], {i \in Item : launch_count[i] > 0})
    IN  [k \in DOMAIN counted |-> <<items[counted[k]].name, launch_count[counted[k]]>>]

\* fopen() with "w" empties the file, or fails.
launcher_history_save ==
    \/ file' = <<>> /\ saving' = TRUE /\ UNCHANGED lost
    \/ lost' = TRUE /\ UNCHANGED <<file, saving>>

\* fclose() writes the lines, or some of them on a full disk.
SaveReturns ==
    /\ saving /\ saving' = FALSE
    /\ \E n \in 0 .. Len(Lines) :
            file' = SubSeq(Lines, 1, n) /\ lost' = (lost \/ n < Len(Lines))
    /\ UNCHANGED <<boxVars, launch_count, launched, visible, acts>>

-----------------------------------------------------------------------------
\* The list box.

launcher_filter_func(i) == launcher_item_matches(i, filtered)

launcher_first_visible_row ==
    LET at == {k \in DOMAIN rows : launcher_filter_func(rows[k])}
    IN  IF at = {} THEN NoRow ELSE rows[Min(at)]

launcher_populate_listbox(count) == rows' = Ranked(count)

on_search_changed_NoIdle(text) ==
    /\ filtered' = text
    /\ rows' = Ranked(launch_count)
    /\ changed' = FALSE /\ UNCHANGED idle

\* Rows are hidden and sorted; the selection waits for the main loop.
on_search_changed(text) ==
    /\ filtered' = text
    /\ rows' = Ranked(launch_count)
    /\ changed' = FALSE /\ idle' = TRUE

\* GtkSearchEntry tells an empty text at once, any other after 150 ms in which
\* no key comes.
gtk_entry_set_text(text) ==
    IF text = search THEN UNCHANGED <<search, filtered, rows, changed, idle>>
    ELSE /\ search' = text
         /\ IF text = NoText THEN on_search_changed(text)
            ELSE changed' = TRUE /\ UNCHANGED <<filtered, rows, idle>>

Type(text) ==
    /\ Act /\ visible /\ ~saving /\ text # search
    /\ gtk_entry_set_text(text)
    /\ moved' = FALSE
    /\ UNCHANGED <<sel, saveVars, visible>>

SearchChanged ==
    /\ changed /\ ~saving
    /\ on_search_changed(search)
    /\ UNCHANGED <<sel, search, moved, saveVars, visible, acts>>

select_first_visible_idle ==
    /\ idle /\ idle' = FALSE /\ ~saving
    /\ sel' = IF launcher_first_visible_row = NoRow THEN sel ELSE launcher_first_visible_row
    /\ UNCHANGED <<rows, search, filtered, changed, moved, saveVars, visible, acts>>

PositionOf(i) == CHOOSE k \in DOMAIN rows : rows[k] = i

\* gtk_widget_get_visible() is true of a row that the filter hides: the
\* arrows stop on every row.  Where there is no row the selection stays.
FirstRow == IF rows = <<>> THEN NoRow ELSE rows[1]
LastRow  == IF rows = <<>> THEN NoRow ELSE rows[Len(rows)]

on_key_press_Up ==
    LET k == PositionOf(sel) IN
    sel' = IF sel = NoRow THEN LastRow ELSE IF k = 1 THEN sel ELSE rows[k - 1]

on_key_press_Down ==
    LET k == PositionOf(sel) IN
    sel' = IF sel = NoRow THEN FirstRow ELSE IF k = Len(rows) THEN sel ELSE rows[k + 1]

Arrow ==
    /\ Act /\ visible /\ ~saving
    /\ on_key_press_Up \/ on_key_press_Down
    /\ moved' = TRUE
    /\ UNCHANGED <<rows, search, filtered, changed, idle, saveVars, visible>>

-----------------------------------------------------------------------------
\* Launching.

launcher_launch_row_NoCount(i) ==
    /\ launched' = [launched EXCEPT ![items[i].name] = @ + 1]
    /\ launcher_history_save
    /\ visible' = FALSE
    /\ UNCHANGED launch_count

\* The command goes to awm, then the launch is counted, the history saved,
\* and the window hidden.  If the command cannot be sent nothing happens.
launcher_launch_row(i) ==
    /\ launch_count[i] < MaxCount
    /\ launch_count' = [launch_count EXCEPT ![i] = @ + 1]
    /\ launched' = [launched EXCEPT ![items[i].name] = @ + 1]
    /\ launcher_history_save
    /\ visible' = FALSE

\* The row that Return launches: the selected one, or else the first.
Target == IF sel # NoRow THEN sel ELSE launcher_first_visible_row

Return ==
    /\ Act /\ visible /\ ~saving
    /\ Target # NoRow
    /\ launcher_launch_row(Target)
    /\ UNCHANGED boxVars

\* A click selects a row on display and activates it.
on_row_activated(i) ==
    /\ Act /\ visible /\ ~saving
    /\ launcher_filter_func(i)
    /\ sel' = i
    /\ launcher_launch_row(i)
    /\ UNCHANGED <<rows, search, filtered, changed, idle, moved>>

-----------------------------------------------------------------------------
\* The window, and the helper's life.

\* The first row is selected as the rows are after the text is cleared: if it
\* was empty already they are not sorted again.
launcher_show ==
    /\ Act /\ ~saving
    /\ gtk_entry_set_text(NoText)
    /\ sel' = FirstRow'
    /\ moved' = FALSE /\ visible' = TRUE
    /\ UNCHANGED saveVars

launcher_hide ==
    /\ Act /\ visible /\ ~saving
    /\ visible' = FALSE
    /\ UNCHANGED <<boxVars, saveVars>>

launcher_update_theme_KeepsRows ==
    /\ Act /\ ~saving
    /\ rows' = rows \o Ranked(launch_count) /\ filtered' = search
    /\ sel' = NoRow
    /\ UNCHANGED <<search, changed, idle, moved, saveVars, visible>>

\* The rows are destroyed, and the selection with them; GTK filters each new
\* row by the text of the entry.
launcher_update_theme ==
    /\ Act /\ ~saving
    /\ launcher_populate_listbox(launch_count) /\ filtered' = search
    /\ sel' = NoRow
    /\ UNCHANGED <<search, changed, idle, moved, saveVars, visible>>

\* A new helper: the lists are built and the history is read.
launcher_create ==
    /\ launch_count' = launcher_history_load(file')
    /\ launcher_populate_listbox(launch_count')
    /\ sel' = NoRow /\ search' = NoText /\ filtered' = NoText
    /\ changed' = FALSE /\ idle' = FALSE /\ moved' = FALSE
    /\ visible' = FALSE /\ saving' = FALSE

\* The helper dies, perhaps while it writes the history, and awm starts
\* another, which reads what the file holds.
Crash ==
    /\ Act
    /\ IF saving
       THEN \E n \in 0 .. Len(Lines) :
                /\ file' = SubSeq(Lines, 1, n)
                /\ lost' = (lost \/ n < Len(Lines))
       ELSE UNCHANGED <<file, lost>>
    /\ launcher_create
    /\ UNCHANGED launched

-----------------------------------------------------------------------------

LauncherInit ==
    /\ acts = 0 /\ file = <<>> /\ lost = FALSE
    /\ launched = [n \in Names |-> 0]
    /\ launch_count = launcher_history_load(file)
    /\ rows = Ranked(launch_count)
    /\ sel = NoRow /\ search = NoText /\ filtered = NoText
    /\ changed = FALSE /\ idle = FALSE /\ moved = FALSE
    /\ visible = FALSE /\ saving = FALSE

LauncherNext ==
    \/ launcher_show \/ launcher_hide \/ launcher_update_theme
    \/ \E text \in Text \cup {NoText} : Type(text)
    \/ SearchChanged \/ select_first_visible_idle
    \/ Arrow \/ Return
    \/ \E i \in Item : on_row_activated(i)
    \/ SaveReturns \/ Crash

LauncherSpec == LauncherInit /\ [][LauncherNext]_launcherVars

-----------------------------------------------------------------------------

\* Every application has one row, whatever was typed, launched or themed, and
\* no program found on PATH appears beside another entry of its name, as the
\* duplicate test of launcher_scan_path() promises.
LauncherTypeOK ==
    /\ Len(rows) = Cardinality(Item) /\ {rows[k] : k \in DOMAIN rows} = Item
    /\ sel \in Item \cup {NoRow}
    /\ search \in Text \cup {NoText} /\ filtered \in Text \cup {NoText}
    /\ launch_count \in Count
    /\ \A k \in DOMAIN file : file[k] \in Names \X (1 .. MaxCount)
    /\ \A i, j \in Item : i # j /\ ~items[i].is_desktop => items[i].name # items[j].name

\* Once GTK has reported the text and the main loop has been idle, Return
\* launches a program that the text matches if there is one: also after the
\* window was shown again, sorted, or rebuilt for another theme.  (Until then
\* it launches the row selected for the text before.)
SettledSelection ==
    visible /\ ~changed /\ ~idle /\ ~moved /\ (\E i \in Item : launcher_item_matches(i, search))
    => launcher_item_matches(Target, search)

\* The history survives restarts of the helper: as long as no save failed or
\* was cut short, the file tells how often each name was launched if one entry
\* has the name, and that it was launched if several do.
HistoryKept ==
    LET lines == IF saving THEN Lines ELSE file
        counts(n) == {lines[k][2] : k \in {j \in DOMAIN lines : lines[j][1] = n}}
        once(n) == Cardinality({i \in Item : items[i].name = n}) = 1
    IN  ~lost => \A n \in Names :
                    IF launched[n] = 0 THEN counts(n) = {}
                    ELSE IF once(n) THEN counts(n) = {launched[n]}
                    ELSE counts(n) # {}
=============================================================================
