------------------------------- MODULE Pages -------------------------------
(***************************************************************************)
(* The pages of the application, one at a time: a behaviour is of the      *)
(* keyboard (KeySequences), or of one of the other models, whose state     *)
(* React drops with the page.  x1 to x11 are that model's variables, in the *)
(* order it declares them, and a record gives the model its parameters.    *)
(*                                                                         *)
(* The Flow dialog is there twice: for every field of the form, and for    *)
(* requests of which several are on their way.                             *)
(***************************************************************************)
EXTENDS KeySequences, Sequences

CONSTANTS
    All,
    FieldsOf,       \* the parameters of TriggerFlowForm, and
    FlowsOf,        \* those of it again,
    DagsOf,         \* of TriggerRunForm,
    PaletteOf,      \* of CommandPalette,
    ListOf,         \* of DAGList,
    HomeOf,         \* of Overview,
    ActivityOf,     \* of RunCharts,
    HostOf,         \* of MetricsChart,
    LogOf,          \* of LogTail, and
    PageOf          \* of RunLists

VARIABLES model, x1, x2, x3, x4, x5, x6, x7, x8, x9, x10, x11

others == <<x1, x2, x3, x4, x5, x6, x7, x8, x9, x10, x11>>
pages == <<model, others, vars>>

-----------------------------------------------------------------------------
(* The trigger dialogs of a Flow and of a DAG                              *)

FlowForm(p) == INSTANCE TriggerFlowForm WITH
    Flows <- p.flows, CustomModes <- p.customModes, Dates <- p.dates,
    Extras <- p.extras, MaxActive <- p.maxActive, MaxRequests <- p.maxRequests,
    flow <- x1, asked <- x2, form <- x3, running <- x4,
    failed <- x5, requests <- x6, active <- x7, busy <- x8

RunPages == INSTANCE TriggerRunForm WITH
    Dags <- DagsOf.dags, RunModes <- DagsOf.runModes, Metadata <- DagsOf.metadata,
    MaxActive <- DagsOf.maxActive, MaxRequests <- DagsOf.maxRequests,
    dag <- x1, open <- x2, fields <- x3, loaded <- x4,
    failed <- x5, requests <- x6, active <- x7, busy <- x8

(* The palette, the list of DAGs and the overview                          *)

Palette == INSTANCE CommandPalette WITH
    Items <- PaletteOf.items, Always <- PaletteOf.always, ItemOf <- PaletteOf.itemOf,
    Targets <- PaletteOf.targets, Queries <- PaletteOf.queries, Score <- PaletteOf.score,
    known <- x1, open <- x2, q <- x3, cursor <- x4

List == INSTANCE DAGList WITH
    Dags <- ListOf.dags, Flows <- ListOf.flows, DagLists <- ListOf.dagLists,
    FlowLists <- ListOf.flowLists, Queries <- ListOf.queries, Matches <- ListOf.matches,
    NameRank <- ListOf.nameRank, NoData <- None,
    dags <- x1, uses <- x2, failed <- x3, q <- x4, onlyRunning <- x5,
    sort <- x6, active <- x7, armed <- x8

HomePage == INSTANCE Overview WITH
    Flows <- HomeOf.flows, Dags <- HomeOf.dags, NodesOf <- HomeOf.nodesOf,
    FlowLists <- HomeOf.flowLists, RunLists <- HomeOf.runLists, Shown <- HomeOf.shown,
    Queries <- HomeOf.queries, Matches <- HomeOf.matches,
    registered <- x1, library <- x2, status <- x3, flows <- x4, flowRuns <- x5,
    dags <- x6, runs <- x7, q <- x8, onlyRunning <- x9

(* The charts of runs and of the host                                      *)

Activity == INSTANCE RunCharts WITH
    Days <- ActivityOf.days, Percent <- ActivityOf.percent, Cells <- ActivityOf.cells,
    MaxRuns <- ActivityOf.maxRuns, MaxDay <- ActivityOf.maxDay,
    MaxSeconds <- ActivityOf.maxSeconds,
    today <- x1, runs <- x2, drawn <- x3

Host == INSTANCE MetricsChart WITH
    Window <- HostOf.window, Values <- HostOf.values, One <- HostOf.one,
    Pointers <- HostOf.pointers,
    samples <- x1, failed <- x2, hover <- x3

(* The log of a run, and the lists of runs                                 *)

Log == INSTANCE LogTail WITH
    Tasks <- LogOf.tasks, Levels <- LogOf.levels, MaxLines <- LogOf.maxLines,
    saved <- x1, running <- x2, believed <- x3, selected <- x4,
    cache <- x5, asked <- x6, answers <- x7, levels <- x8

Lists == INSTANCE RunLists WITH
    Dags <- PageOf.dags, Pages <- PageOf.pages, KeyOf <- PageOf.keyOf,
    ScopeOf <- PageOf.scopeOf, LimitOf <- PageOf.limitOf, Details <- PageOf.details,
    Clearing <- PageOf.clearing, MaxRuns <- PageOf.maxRuns,
    made <- x1, cleared <- x2, page <- x3, opened <- x4, filter <- x5, cache <- x6,
    failed <- x7, stale <- x8, fetch <- x9, clear <- x10, told <- x11

(* The parameters are what the models expect of theirs.                    *)
ASSUME PagesAssumptions ==
    /\ \A p \in {FieldsOf, FlowsOf} : FlowForm(p)!FlowsAssumption /\ FlowForm(p)!InputsAssumption
    /\ RunPages!DagsAssumption
    /\ Palette!ItemsAssumption
    /\ List!DagsAssumption
    /\ HomePage!OverviewAssumption
    /\ Activity!ChartsAssumption
    /\ Host!MetricsAssumption
    /\ Log!TasksAssumption
    /\ Lists!PagesAssumption

-----------------------------------------------------------------------------
(* A model of n variables does not use the ones from xn+1 on.              *)
Unused9 == <<x10, x11>>
Unused8 == <<x9, Unused9>>
Unused4 == <<x5, x6, x7, x8, Unused8>>
Unused3 == <<x4, Unused4>>

From10 == x10 = None /\ x11 = None
From9 == x9 = None /\ From10
From5 == x5 = None /\ x6 = None /\ x7 = None /\ x8 = None /\ From9
From4 == x4 = None /\ From5

PagesInit ==
    /\ Init
    /\ \/ model = "keys" /\ x1 = None /\ x2 = None /\ x3 = None /\ From4
       \/ model = "flow fields" /\ FlowForm(FieldsOf)!Init /\ From9
       \/ model = "flow pages" /\ FlowForm(FlowsOf)!Init /\ From9
       \/ model = "run pages" /\ RunPages!Init /\ From9
       \/ model = "palette" /\ Palette!Init /\ From5
       \/ model = "list" /\ List!Init /\ From9
       \/ model = "home" /\ HomePage!Init /\ From10
       \/ model = "activity" /\ Activity!Init /\ From4
       \/ model = "host" /\ Host!Init /\ From4
       \/ model = "log" /\ Log!Init /\ From9
       \/ model = "runs" /\ Lists!Init

PagesNext ==
    /\ UNCHANGED model
    /\ \/ model = "keys" /\ Next /\ UNCHANGED others
       \/ /\ UNCHANGED vars
          /\ \/ model = "flow fields" /\ FlowForm(FieldsOf)!Next /\ UNCHANGED Unused8
             \/ model = "flow pages" /\ FlowForm(FlowsOf)!Next /\ UNCHANGED Unused8
             \/ model = "run pages" /\ RunPages!Next /\ UNCHANGED Unused8
             \/ model = "palette" /\ Palette!Next /\ UNCHANGED Unused4
             \/ model = "list" /\ List!Next /\ UNCHANGED Unused8
             \/ model = "home" /\ HomePage!Next /\ UNCHANGED Unused9
             \/ model = "activity" /\ Activity!Next /\ UNCHANGED Unused3
             \/ model = "host" /\ Host!Next /\ UNCHANGED Unused3
             \/ model = "log" /\ Log!Next /\ UNCHANGED Unused8
             \/ model = "runs" /\ Lists!Next

PagesSpec == PagesInit /\ [][PagesNext]_pages

-----------------------------------------------------------------------------
(* What the models promise, each of its own behaviours.                    *)

TypesOK ==
    /\ model = "keys" => TypeOK
    /\ model = "flow fields" => FlowForm(FieldsOf)!TypeOK
    /\ model = "flow pages" => FlowForm(FlowsOf)!TypeOK
    /\ model = "run pages" => RunPages!TypeOK
    /\ model = "palette" => Palette!TypeOK
    /\ model = "list" => List!TypeOK
    /\ model = "home" => HomePage!TypeOK
    /\ model = "activity" => Activity!TypeOK
    /\ model = "host" => Host!TypeOK
    /\ model = "log" => Log!TypeOK
    /\ model = "runs" => Lists!TypeOK

(* The keys the form of a Flow controls have in every request the values   *)
(* its fields showed, and are absent where those do not apply.             *)
KeysAreManaged ==
    /\ model = "flow fields" => FlowForm(FieldsOf)!KeysAreManaged
    /\ model = "flow pages" => FlowForm(FlowsOf)!KeysAreManaged

(* Whatever is filtered, sorted, typed and polled, the rows of the list of *)
(* DAGs are the DAGs that match, by name or by runs, in a stable order, and*)
(* one of them is active; the palette's results are its matches, by score. *)
RowsAndCursorAgree ==
    /\ model = "list" => List!RowsAreTheMatches /\ List!ActiveIsARow
    /\ model = "palette" => Palette!ResultsAreTheMatches

(* Four queries that are answered and fail at different times: attention is*)
(* asked for a registered Flow that failed, the recent activity leaves out *)
(* nothing newer than what it shows, and the Flows that are listed as      *)
(* running are shown running.                                              *)
OverviewAgrees ==
    model = "home" =>
        /\ HomePage!AttentionIsForRegistered
        /\ HomePage!RecentAreTheLatest
        /\ HomePage!FilteredAreShownRunning

(* The days of the activity chart hold every run of the window once, the   *)
(* percentile covers its percentage, the lines run through no day without  *)
(* runs, and the strip ends with the latest run.                           *)
ActivityIsExact ==
    model = "activity" =>
        /\ Activity!EveryRunIsCounted
        /\ Activity!PercentileCovers
        /\ Activity!LinesHaveNoGaps
        /\ Activity!StripEndsWithTheLatest

(* Answers that come late do no harm: the log displayed is of the task and *)
(* the levels selected, and runs the page was told are cleared stay away.  *)
LateAnswersDoNoHarm ==
    /\ model = "log" => Log!DisplayIsSelection
    /\ model = "runs" => Lists!ClearedAreGone

(* However the samples move on, the crosshair is on one of them, the axis  *)
(* holds them all and the ticks span the window.                           *)
ChartsFollowTheSamples ==
    model = "host" =>
        /\ Host!CrosshairIsOnASample
        /\ Host!AxisHoldsTheData
        /\ Host!TicksSpanTheWindow

=============================================================================
