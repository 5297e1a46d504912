-------------------------- MODULE SecuritiesMaster --------------------------
(***************************************************************************)
(* The daily master sync (supervisor.py:_sync_master): the equity lists,   *)
(* the rename histories and the holiday calendar, in three commits one     *)
(* after the other, and resolve(), which attaches a filing to a security   *)
(* by its current or an old symbol.                                        *)
(*                                                                         *)
(* A company stands for its ISIN; every share is of one series.  Company   *)
(* names get their aliases the way symbols do and are left out.            *)
(***************************************************************************)
EXTENDS Integers, FiniteSets, Sequences, SequencesExt

CONSTANTS
  Companies,        \* ISINs
  Sme,              \* those on the SME list
  Tickers,          \* symbols, by which companies are listed
  MayReturn,        \* whether a company may take back a symbol it had
  Seed,             \* holidays in the code
  HolidayDays,      \* days that NSE may declare holidays
  MaxRenames,       \* bound: renames
  MaxMasterFaults   \* bound: failed fetches and restarts

Unlisted == "-"

ASSUME MasterAssumption ==
  /\ IsFiniteSet(Companies) /\ Sme \subseteq Companies
  /\ Unlisted \notin Tickers
  /\ MayReturn \in BOOLEAN
  /\ MaxRenames \in Nat
  /\ MaxMasterFaults \in Nat

VARIABLES
  quoted,       \* NSE: [Companies -> current symbol, or Unlisted]
  renames,      \* NSE: symbolchange.csv, a set of <<old, new>>
  declared,     \* NSE: days the holiday API lists
  master,       \* securities: sequence of [isin, symbol], the index is the id
  aliases,      \* security_aliases: set of <<id, old symbol>>
  learned,      \* holidays table
  calendar,     \* the live table of the process
  step,         \* where the sync is
  renamed,      \* how many renames
  mfaults,      \* how many faults
  known         \* history: <<company, symbol>> ever committed to the master

masterVars == <<quoted, renames, declared, master, aliases, learned, calendar,
                step, renamed, mfaults, known>>

MasterInit ==
  /\ quoted = [c \in Companies |-> Unlisted]
  /\ renames = {}
  /\ declared = {}
  /\ master = <<>>
  /\ aliases = {}
  /\ learned = {}
  /\ calendar = Seed
  /\ step = "idle"
  /\ renamed = 0
  /\ mfaults = 0
  /\ known = {}

-----------------------------------------------------------------------------
\* NSE.  A symbol that was ever in use is free only for who had it.
Had(c) == {quoted[c]} \cup {p[1] : p \in {q \in renames : q[2] = quoted[c]}}
Used == {quoted[c] : c \in Companies} \cup UNION {{p[1], p[2]} : p \in renames}

List(c, t) ==
  /\ quoted[c] = Unlisted /\ t \notin Used
  /\ quoted' = [quoted EXCEPT ![c] = t]
  /\ UNCHANGED <<renames, declared, master, aliases, learned, calendar, step,
                 renamed, mfaults, known>>

Rename(c, t) ==
  /\ quoted[c] \notin {Unlisted, t}
  /\ t \notin Used \/ (MayReturn /\ t \in Had(c))
  /\ renamed < MaxRenames
  /\ renamed' = renamed + 1
  /\ renames' = renames \cup {<<quoted[c], t>>}
  /\ quoted' = [quoted EXCEPT ![c] = t]
  /\ UNCHANGED <<declared, master, aliases, learned, calendar, step, mfaults, known>>

Declare(d) ==
  /\ d \notin declared
  /\ declared' = declared \cup {d}
  /\ UNCHANGED <<quoted, renames, master, aliases, learned, calendar, step,
                 renamed, mfaults, known>>

-----------------------------------------------------------------------------
\* One row of a list against the tables; uq_alias or uq_symbol_series raises.
Ids(db, c) == {i \in DOMAIN db.rows : db.rows[i].isin = c}
Holders(db, t) == {i \in DOMAIN db.rows : db.rows[i].symbol = t}

\* Fault: a rename forgets the old symbol.
UpsertForgets(db, c) ==
  LET row == [isin |-> c, symbol |-> quoted[c]]
      found == IF Ids(db, c) # {} THEN Ids(db, c) ELSE Holders(db, quoted[c])
  IN  IF found = {} THEN [db EXCEPT !.rows = Append(@, row)]
      ELSE [db EXCEPT !.rows[CHOOSE i \in found : TRUE] = row]

UpsertSecurity(db, c) ==
  LET row == [isin |-> c, symbol |-> quoted[c]]
      found == IF Ids(db, c) # {} THEN Ids(db, c) ELSE Holders(db, quoted[c])
      id == CHOOSE i \in found : TRUE
      old == <<id, db.rows[id].symbol>>
  IN  IF ~db.ok THEN db
      ELSE IF found = {} THEN [db EXCEPT !.rows = Append(@, row)]
      ELSE IF db.rows[id].symbol = quoted[c] THEN [db EXCEPT !.rows[id] = row]
      ELSE IF old \in db.aliases \/ Holders(db, quoted[c]) # {} THEN [db EXCEPT !.ok = FALSE]
      ELSE [db EXCEPT !.rows[id] = row, !.aliases = @ \cup {old}]

\* The tables after a list of companies, in its order.
Upserted(q) ==
  LET after[k \in 0..Len(q)] ==
        IF k = 0 THEN [rows |-> master, aliases |-> aliases, ok |-> TRUE]
        ELSE UpsertSecurity(after[k - 1], q[k])
  IN  after[Len(q)]

OnLists(board) == {c \in board : quoted[c] # Unlisted}

\* sync_equity_lists, main board first, each list in an order of NSE's.
SyncEquityLists ==
  /\ step = "idle"
  /\ \E main \in SetToSeqs(OnLists(Companies \ Sme)), sme \in SetToSeqs(OnLists(Sme)) :
       LET db == Upserted(main \o sme)
       IN  IF db.ok
           THEN /\ master' = db.rows
                /\ aliases' = db.aliases
                /\ known' = known \cup {<<r.isin, r.symbol>> : r \in Range(db.rows)}
                /\ step' = "histories"
           ELSE UNCHANGED <<master, aliases, known, step>>
  /\ UNCHANGED <<quoted, renames, declared, learned, calendar, renamed, mfaults>>

\* No SME list answers with more than a stub: the main board alone lands.
SmeUnavailable ==
  /\ step = "idle"
  /\ mfaults < MaxMasterFaults
  /\ mfaults' = mfaults + 1
  /\ \E main \in SetToSeqs(OnLists(Companies \ Sme)) :
       LET db == Upserted(main)
       IN  /\ db.ok
           /\ master' = db.rows
           /\ aliases' = db.aliases
           /\ known' = known \cup {<<r.isin, r.symbol>> : r \in Range(db.rows)}
  /\ step' = "histories"
  /\ UNCHANGED <<quoted, renames, declared, learned, calendar, renamed>>

\* sync_change_histories: only the pairs whose new symbol is a current one match.
SyncChangeHistories ==
  /\ step = "histories"
  /\ \/ /\ aliases' = aliases \cup UNION {{<<i, p[1]>> : i \in Holders([rows |-> master], p[2])} :
                                           p \in renames}
        /\ UNCHANGED mfaults
     \/ /\ mfaults < MaxMasterFaults          \* "symbolchange_unavailable"
        /\ mfaults' = mfaults + 1
        /\ UNCHANGED aliases
  /\ step' = "holidays"
  /\ UNCHANGED <<quoted, renames, declared, master, learned, calendar, renamed, known>>

\* refresh_holidays: the commit, then the swap of the live table.
HolidaysCommit ==
  /\ step = "holidays"
  /\ learned' = learned \cup declared
  /\ step' = "swap"
  /\ UNCHANGED <<quoted, renames, declared, master, aliases, calendar, renamed, mfaults, known>>

HolidaysSwap ==
  /\ step = "swap"
  /\ calendar' = calendar \cup learned
  /\ step' = "idle"
  /\ UNCHANGED <<quoted, renames, declared, master, aliases, learned, renamed, mfaults, known>>

\* A fetch of the lists or of the holidays fails and ends the sync.
SyncRaises ==
  /\ step \in {"histories", "holidays"}
  /\ mfaults < MaxMasterFaults
  /\ mfaults' = mfaults + 1
  /\ step' = "idle"
  /\ UNCHANGED <<quoted, renames, declared, master, aliases, learned, calendar, renamed, known>>

\* Fault: the process starts from the seed alone.
RestartFromSeed ==
  /\ mfaults < MaxMasterFaults
  /\ mfaults' = mfaults + 1
  /\ calendar' = Seed
  /\ step' = "idle"
  /\ UNCHANGED <<quoted, renames, declared, master, aliases, learned, renamed, known>>

\* load_holidays_from_db.
RestartLoads ==
  /\ mfaults < MaxMasterFaults
  /\ mfaults' = mfaults + 1
  /\ calendar' = Seed \cup learned
  /\ step' = "idle"
  /\ UNCHANGED <<quoted, renames, declared, master, aliases, learned, renamed, known>>

\* The API lists the current year only.
YearEnds ==
  /\ declared # {}
  /\ declared \subseteq learned
  /\ declared' = {}
  /\ UNCHANGED <<quoted, renames, master, aliases, learned, calendar, step,
                 renamed, mfaults, known>>

SyncStep == SyncEquityLists \/ SyncChangeHistories \/ HolidaysCommit \/ HolidaysSwap

MasterNext ==
  \/ \E c \in Companies, t \in Tickers : List(c, t) \/ Rename(c, t)
  \/ \E d \in HolidayDays : Declare(d)
  \/ SyncStep \/ SmeUnavailable \/ SyncRaises \/ RestartLoads \/ YearEnds

MasterSpec == MasterInit /\ [][MasterNext]_masterVars

-----------------------------------------------------------------------------
\* resolve(): the ids it may return.
Resolve(t) ==
  LET current == {i \in DOMAIN master : master[i].symbol = t}
  IN  IF current # {} THEN current ELSE {p[1] : p \in {q \in aliases : q[2] = t}}

MasterTypeOK ==
  /\ quoted \in [Companies -> Tickers \cup {Unlisted}]
  /\ master \in Seq([isin : Companies, symbol : Tickers])
  /\ aliases \subseteq (DOMAIN master) \X Tickers
  /\ learned \subseteq HolidayDays
  /\ calendar \subseteq Seed \cup HolidayDays
  /\ step \in {"idle", "histories", "holidays", "swap"}

\* "Rename detected by ISIN identity -- keep the old symbol resolvable"
\* (securities_master.py:101): through every rename, missed sync and missing
\* list, a symbol the master has held resolves to that company and no other.
KnownSymbolsResolve ==
  \A p \in known :
    Resolve(p[2]) # {} /\ \A i \in Resolve(p[2]) : master[i].isin = p[1]

\* "alias rows for past renames that predate our first equity-list sync"
\* (securities_master.py:163): after the histories every symbol a listed
\* company has had resolves to it.
PastSymbolsResolve ==
  step = "holidays" /\ mfaults = 0 =>
    \A p \in renames : Resolve(p[1]) # {}

\* "Learned holidays survive restarts via the DB" (supervisor.py:88): neither
\* a refresh after the turn of the year nor a restart forgets a holiday.
HolidaysKept == [][calendar \subseteq calendar']_masterVars
=============================================================================
