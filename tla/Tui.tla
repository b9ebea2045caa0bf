-------------------------------- MODULE Tui --------------------------------
(***************************************************************************)
(* tui/model.go: the bubbletea model of the terminal UI.  Each message is  *)
(* one call of Update followed by one of View, which also stores the first *)
(* row of the list (adjustListStart), so a step here is both.              *)
(*                                                                         *)
(* A record is [id, ep, key, ts]; positions in a list start at 0 as in the *)
(* source.  height is the number of rows of the list, 0 before the first   *)
(* window size.  Styles, text and the scroll position of the detail view   *)
(* are left out; detail is the record whose text that view holds.          *)
(***************************************************************************)
EXTENDS Integers, SessionPairs

CONSTANTS
    Endpoints,        \* the tabs besides allTab
    tabOrder,         \* a sequence of all tabs
    Keys, Times,      \* session keys and timestamps of records
    maxEventsPerTab,
    listScrollOff,
    Heights,          \* row counts a window can have
    MaxRecords,       \* bound on the records that arrive
    MaxBatch          \* bound on the records of a message

allTab == "all"

ASSUME TuiAssumption ==
    /\ allTab \notin Endpoints
    /\ Range(tabOrder) = Endpoints \cup {allTab}
    /\ maxEventsPerTab \in Nat \ {0}
    /\ listScrollOff \in Nat
    /\ Heights \subseteq Nat \ {0}

VARIABLES
    tabs,         \* tabs[tab]: [records, selected, listStart]
    tabIndex,     \* position in tabOrder, from 0
    height,
    showDetail, detail,
    allTabPairs,  \* [pairs, recordCount, valid]
    confirmQuit,
    running,      \* FALSE after tea.Quit: what is handled before the QuitMsg
                  \* arrives could as well have come before the key
    arrived       \* number of records that have arrived

vars == <<tabs, tabIndex, height, showDetail, detail, allTabPairs, confirmQuit,
          running, arrived>>

Clamp(low, high, x) == Max({low, Min({high, x})})

TabAt(index) == tabOrder[index + 1]

currentTab == TabAt(tabIndex)

NoRecord == 0

\* currentDetailContent
DetailOf(views, tab) ==
    IF views[tab].records = << >> THEN NoRecord
    ELSE views[tab].records[views[tab].selected + 1].id

-----------------------------------------------------------------------------
\* The number of records that are not after the new one: sort.Search.
InsertAtOf(records, r) == Cardinality({k \in DOMAIN records : records[k].ts <= r.ts})

\* Mutant: a record inserted right at the selection does not move it.
ShiftedLate(pos, at, n) == IF n > 1 /\ at < pos THEN pos + 1 ELSE pos

\* A position in the list after an insertion at at, the list then having n.
Shifted(pos, at, n) == IF n > 1 /\ at <= pos THEN pos + 1 ELSE pos

Dropped(n) == Max({0, n - maxEventsPerTab})

appendRecord(view, r) ==
    LET at == InsertAtOf(view.records, r)
        records == InsertAt(view.records, at + 1, r)
        n == Len(records)
        dropped == Dropped(n)
        Kept(pos) == Clamp(0, n - dropped - 1, Shifted(pos, at, n) - dropped)
    IN [records |-> SubSeq(records, dropped + 1, n),
        selected |-> Kept(view.selected),
        listStart |-> Kept(view.listStart)]

scrolloff(h) == Min({listScrollOff, Max({0, h - 1})})

adjustListStart(total, h, selected, listStart) ==
    LET maxStart == Max({0, total - h})
        start == Clamp(0, maxStart, listStart)
        up == IF selected < start + scrolloff(h) THEN Max({0, selected - scrolloff(h)})
              ELSE start
    IN IF selected > up + h - 1 - scrolloff(h)
       THEN Min({maxStart, selected - (h - 1 - scrolloff(h))})
       ELSE up

\* View: the list of the current tab stores its first row when it is drawn.
Drawing(views, tab, h, detailShown) ==
    IF h = 0 \/ detailShown \/ views[tab].records = << >> THEN views
    ELSE [views EXCEPT ![tab].listStart =
            adjustListStart(Len(views[tab].records), h, views[tab].selected, @)]

\* What Update and View leave, given what Update makes of the records, the
\* tab, the size and the mode.  syncs: the handler calls syncDetailViewport.
Shows(views, index, h, detailShown, syncs) ==
    /\ tabIndex' = index
    /\ height' = h
    /\ showDetail' = detailShown
    /\ detail' = IF syncs THEN DetailOf(views, TabAt(index)) ELSE detail
    /\ tabs' = Drawing(views, TabAt(index), h, detailShown)

refreshAllTabPairCache(records) ==
    [pairs |-> buildSessionPairs(records), recordCount |-> Len(records), valid |-> TRUE]

\* The pairs renderList draws.
allTabSessionPairs ==
    IF allTabPairs.valid /\ allTabPairs.recordCount = Len(tabs[allTab].records)
    THEN allTabPairs.pairs
    ELSE buildSessionPairs(tabs[allTab].records)

-----------------------------------------------------------------------------
Init ==
    /\ tabs = [tab \in Range(tabOrder) |-> [records |-> << >>, selected |-> 0, listStart |-> 0]]
    /\ tabIndex = 0
    /\ height = 0
    /\ showDetail = FALSE
    /\ detail = NoRecord
    /\ allTabPairs = [pairs |-> << >>, recordCount |-> 0, valid |-> FALSE]
    /\ confirmQuit = FALSE
    /\ running = TRUE
    /\ arrived = 0

\* tea.WindowSizeMsg.
WindowSize(h) ==
    /\ running
    /\ Shows(tabs, tabIndex, h, showDetail, TRUE)
    /\ UNCHANGED <<allTabPairs, confirmQuit, running, arrived>>

\* Keys while the dialog is open: the others do nothing.
Confirm ==
    /\ running /\ confirmQuit
    /\ running' = FALSE
    /\ Shows(tabs, tabIndex, height, showDetail, FALSE)
    /\ UNCHANGED <<allTabPairs, confirmQuit, arrived>>

Refuse ==
    /\ running /\ confirmQuit
    /\ confirmQuit' = FALSE
    /\ Shows(tabs, tabIndex, height, showDetail, FALSE)
    /\ UNCHANGED <<allTabPairs, running, arrived>>

\* A key in the list or in the detail view.
Key == running /\ ~confirmQuit /\ UNCHANGED <<allTabPairs, arrived>>

Interrupt ==
    /\ Key
    /\ running' = FALSE
    /\ Shows(tabs, tabIndex, height, showDetail, FALSE)
    /\ UNCHANGED confirmQuit

AskQuit ==
    /\ Key
    /\ confirmQuit' = TRUE
    /\ Shows(tabs, tabIndex, height, showDetail, FALSE)
    /\ UNCHANGED running

SwitchTab(delta) ==
    /\ Key
    /\ Shows(tabs, (tabIndex + delta) % Len(tabOrder), height, FALSE, TRUE)
    /\ UNCHANGED <<confirmQuit, running>>

\* moveSelection and moveSelectionToBottom; in the detail view the same keys
\* only scroll it.
Select(next) ==
    /\ Key
    /\ ~showDetail
    /\ tabs[currentTab].records # << >>
    /\ Shows([tabs EXCEPT ![currentTab].selected =
                Clamp(0, Len(tabs[currentTab].records) - 1, next)],
             tabIndex, height, showDetail, TRUE)
    /\ UNCHANGED <<confirmQuit, running>>

moveSelection(delta) == Select(tabs[currentTab].selected + delta)

moveSelectionToBottom == Select(Len(tabs[currentTab].records) - 1)

ToggleDetail ==
    /\ Key
    /\ tabs[currentTab].records # << >>
    /\ Shows(tabs, tabIndex, height, ~showDetail, TRUE)
    /\ UNCHANGED <<confirmQuit, running>>

\* Mutant: a record older than its endpoint's list is not added to it.
ArriveLate(views, r) ==
    LET mine == views[r.ep].records IN
    IF mine # << >> /\ InsertAtOf(mine, r) = 0
    THEN [views EXCEPT ![allTab] = appendRecord(@, r)]
    ELSE [views EXCEPT ![allTab] = appendRecord(@, r), ![r.ep] = appendRecord(@, r)]

\* Every record goes to the list of all records and to its endpoint's.
Arrive(views, r) ==
    [views EXCEPT ![allTab] = appendRecord(@, r), ![r.ep] = appendRecord(@, r)]

Received(batch, after, syncs) ==
    /\ running
    /\ arrived' = arrived + Len(batch)
    /\ allTabPairs' = refreshAllTabPairCache(after[allTab].records)
    /\ Shows(after, tabIndex, height, showDetail, syncs)
    /\ UNCHANGED <<confirmQuit, running>>

\* Mutant: the detail view keeps its text when records arrive.
BatchUnsynced(batch) == Received(batch, FoldLeft(Arrive, tabs, batch), FALSE)

\* batchMsg.
Batch(batch) == Received(batch, FoldLeft(Arrive, tabs, batch), TRUE)

\* spinnerTickMsg, tailErrMsg, streamClosedMsg and keys without a meaning: only
\* View has an effect on this state.
Redraw ==
    /\ running
    /\ Shows(tabs, tabIndex, height, showDetail, FALSE)
    /\ UNCHANGED <<allTabPairs, confirmQuit, running, arrived>>

\* Batches of up to MaxBatch records, numbered as they arrive.
Batches ==
    {[k \in DOMAIN b |-> [id |-> arrived + k, ep |-> b[k].ep, key |-> b[k].key, ts |-> b[k].ts]] :
        b \in BoundedSeq([ep : Endpoints, key : Keys, ts : Times], MaxBatch) \ {<< >>}}

Next ==
    \/ \E h \in Heights : WindowSize(h)
    \/ Confirm \/ Refuse \/ Interrupt \/ AskQuit
    \/ \E delta \in {1, -1} : SwitchTab(delta) \/ moveSelection(delta)
    \/ moveSelectionToBottom
    \/ ToggleDetail
    \/ \E batch \in Batches : arrived + Len(batch) <= MaxRecords /\ Batch(batch)
    \/ Redraw

Spec == Init /\ [][Next]_vars

-----------------------------------------------------------------------------
\* appendRecord finds its place by binary search, which needs a list in order:
\* every list is, by time and then by arrival, and no longer than
\* maxEventsPerTab.  The lists drop records on their own and still agree: a
\* record in the list of all records is in the list of its endpoint.
ListsAgree ==
    /\ \A tab \in Range(tabOrder) :
        LET records == tabs[tab].records IN
        /\ Len(records) <= maxEventsPerTab
        /\ \A i, j \in DOMAIN records : i < j =>
             \/ records[i].ts < records[j].ts
             \/ records[i].ts = records[j].ts /\ records[i].id < records[j].id
    /\ \A r \in Range(tabs[allTab].records) : r \in Range(tabs[r.ep].records)

\* What is on the screen: the selected record is in the window, which has no
\* empty row while there are records to fill it (adjustListStart); the detail
\* view shows the record that is selected, also when records that arrive push
\* the one it showed out of the list (syncDetailViewport); and the cached pairs
\* are those of the records that are drawn (refreshAllTabPairCache).
ScreenTrue ==
    LET view == tabs[currentTab] IN
    /\ height > 0 /\ ~showDetail /\ view.records # << >> =>
        /\ view.listStart <= view.selected
        /\ view.selected < view.listStart + height
        /\ view.listStart <= Max({0, Len(view.records) - height})
    /\ showDetail => detail = DetailOf(tabs, currentTab)
    /\ allTabSessionPairs = buildSessionPairs(tabs[allTab].records)

\* Records that arrive do not move the selection: in every list the selected
\* record stays selected as long as the list keeps it, and when it is dropped
\* the oldest one that is left is selected.
SelectionSticky ==
    [][arrived' # arrived => \A tab \in Range(tabOrder) :
        LET old == tabs[tab]
            new == tabs'[tab]
            chosen == old.records[old.selected + 1]
        IN old.records # << >> =>
             IF chosen \in Range(new.records) THEN new.records[new.selected + 1] = chosen
             ELSE new.selected = 0]_vars
=============================================================================
