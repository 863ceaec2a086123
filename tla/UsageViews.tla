----------------------------- MODULE UsageViews -----------------------------
(***************************************************************************)
(* What ProtBot shows and hands out of the recorded sessions: the queries  *)
(* of core/database.py, the Insights tab, the CSV and the full export.     *)
(*                                                                         *)
(* A store is [apps, sessions, settings]: a set of apps [id, category], a  *)
(* set of sessions [id, app, day, hour, sec] of which hour is the hour the *)
(* session started in, and the stored settings.  Days are numbers, and     *)
(* every query takes the date of today.                                    *)
(***************************************************************************)
EXTENDS Integers, FiniteSets, FiniteSetsExt, SequencesExt

\* What the tables hold a store to: ids are keys, a session belongs to an app that is
\* there, and its seconds are a count; and no session is a hundred years old.
StoreOK(db, today) ==
  /\ DOMAIN db = {"apps", "sessions", "settings"}
  /\ IsFiniteSet(db.apps) /\ IsFiniteSet(db.sessions)
  /\ \A a, b \in db.apps : a.id = b.id => a = b
  /\ \A s \in db.sessions :
       /\ s.sec \in Nat /\ s.hour \in 0..23
       /\ s.day \in Int /\ s.day > today - 36500
       /\ \E a \in db.apps : a.id = s.app

\* The seconds of a set of sessions, or of the rows of an export.
Total(rows) == SumFunction([r \in rows |-> r.sec])
Of(sessions, app) == {s \in sessions : s.app = app.id}

\* Fault: seven days back, which is a week and a day.
LastDays_Inclusive(sessions, days, today) == {s \in sessions : s.day >= today - days}

\* date >= today - (days - 1)
LastDays(sessions, days, today) == {s \in sessions : s.day >= today - (days - 1)}

\* date BETWEEN today - 6 AND today
ThisWeek(sessions, today) == {s \in sessions : s.day \in today - 6..today}

-----------------------------------------------------------------------------
(* The queries; a group is a function of what is grouped by *)

\* get_today_usage_sec() and get_week_usage_sec()
TodayOf(db, app, today) == Total({s \in Of(db.sessions, app) : s.day = today})
WeekOf(db, app, today) == Total(ThisWeek(Of(db.sessions, app), today))

\* get_usage_history()
History(db, app, days, today) ==
  LET recent == LastDays(Of(db.sessions, app), days, today)
  IN  [day \in {s.day : s \in recent} |-> Total({s \in recent : s.day = day})]

\* JOIN tracked_apps ... GROUP BY the app
ByApp(db, sessions) ==
  [app \in {a \in db.apps : Of(sessions, a) # {}} |-> Total(Of(sessions, app))]

\* get_all_usage_today() and get_all_apps_week_usage()
AllToday(db, today) == ByApp(db, {s \in db.sessions : s.day = today})
AppsThisWeek(db, today) == ByApp(db, ThisWeek(db.sessions, today))

\* get_category_usage_week()
CategoriesThisWeek(db, today) ==
  LET apps == AppsThisWeek(db, today)
  IN  [c \in {a.category : a \in DOMAIN apps} |->
        SumFunctionOnSet(apps, {a \in DOMAIN apps : a.category = c})]

\* get_peak_hours()
PeakHours(db, days, today) ==
  LET recent == LastDays(db.sessions, days, today)
  IN  [h \in {s.hour : s \in recent} |-> Total({s \in recent : s.hour = h})]

-----------------------------------------------------------------------------
(* The Insights tab *)

Productive == {"Development", "Game Engine", "Productivity", "Work", "Education", "Design",
               "Creative"}
Distracting == {"Gaming", "Social", "Entertainment", "Social Media", "Browser"}

\* _WORLD_AVG, in half hours a week.
WorldAverage(category, otherwise) ==
  CASE category = "Gaming" -> 14
    [] category \in {"Social", "Social Media"} -> 35
    [] category = "Entertainment" -> 28
    [] category = "Development" -> 56
    [] category = "Work" -> 70
    [] category = "Productivity" -> 40
    [] category = "Education" -> 10
    [] OTHER -> otherwise

\* ORDER BY total_sec DESC: apps with the same total come in any order.
Orders(apps) ==
  {order \in SetToSeqs(DOMAIN apps) :
     \A i, j \in DOMAIN order : i < j => apps[order[i]] >= apps[order[j]]}

FirstOf(order, n) == SubSeq(order, 1, Min({n, Len(order)}))

\* _draw_top_apps(): three cards with a total and how the category is taken.
TopApps(apps, order) ==
  [i \in DOMAIN FirstOf(order, 3) |->
    [app |-> order[i], sec |-> apps[order[i]],
     taken |-> IF order[i].category \in Distracting THEN "bad"
               ELSE IF order[i].category \in Productive THEN "good" ELSE "neither"]]

\* _draw_distracting(): the seconds a year that the first one costs, and for it and
\* three more whether they are above the average.
Reclaim(apps, order) ==
  LET bad == FirstOf(SelectSeq(order, LAMBDA a : a.category \in Distracting), 4)
  IN  [year |-> IF bad = <<>> THEN 0 ELSE 52 * apps[bad[1]],
       above |-> [i \in DOMAIN bad |->
                   apps[bad[i]] > 1800 * WorldAverage(bad[i].category, 14)]]

\* _draw_productive(): three cards with a rank.
Habits(apps, order) ==
  LET good == FirstOf(SelectSeq(order, LAMBDA a : a.category \in Productive), 3)
      Rank(a) == LET world == 1800 * WorldAverage(a.category, 40)
                     diff == apps[a] - world
                 IN  IF 2 * diff > world THEN "Top 10%" ELSE IF diff > 0 THEN "Top 25%"
                     ELSE IF 10 * diff > -3 * world THEN "Around" ELSE "Below"
  IN  [i \in DOMAIN good |-> [app |-> good[i], rank |-> Rank(good[i])]]

\* _draw_peak_hours(): the first hour with the most time, and a bar of 2 to 60 for each.
PeakChart(hours) ==
  LET most == Max({hours[h] : h \in DOMAIN hours})
      Sec(h) == IF h \in DOMAIN hours THEN hours[h] ELSE 0
  IN  IF DOMAIN hours = {} THEN [peak |-> -1, bars |-> <<>>]
      ELSE [peak |-> Min({h \in DOMAIN hours : hours[h] = most}),
            bars |-> [h \in 0..23 |->
                       IF most = 0 THEN 2 ELSE Max({2, (Sec(h) * 60) \div most})]]

\* _draw_categories(): the share of each, as a fraction.
Shares(categories) ==
  LET total == SumFunction(categories)
  IN  [c \in DOMAIN categories |-> <<categories[c], IF total = 0 THEN 1 ELSE total>>]

\* refresh()
Insights(db, today, order) ==
  LET apps == AppsThisWeek(db, today)
  IN  [top |-> TopApps(apps, order), reclaim |-> Reclaim(apps, order),
       habits |-> Habits(apps, order), chart |-> PeakChart(PeakHours(db, 7, today)),
       shares |-> Shares(CategoriesThisWeek(db, today))]

-----------------------------------------------------------------------------
(* Handing the data out *)

Credentials == {"entitlement", "device_id", "server_app_ids"}

\* get_usage_history() of every app, as rows.
HistoryRows(db, days, today) ==
  UNION {LET history == History(db, a, days, today)
         IN  {[app |-> a.id, day |-> d, sec |-> history[d]] : d \in DOMAIN history} :
         a \in db.apps}

\* export_csv()
Csv(db, today) == HistoryRows(db, 30, today)

\* build_export(): a section that reads what cannot be read is left empty and named.
\* _usage_history() reads the tracked apps again, then the sessions of each.
Export(db, today, unreadable) ==
  LET reads == [settings |-> {"settings"},
                apps |-> {"tracked_apps"},
                history |-> {"tracked_apps"} \cup
                            (IF db.apps = {} THEN {} ELSE {"usage_sessions"})]
      Section(name, rows) == IF reads[name] \cap unreadable = {} THEN rows ELSE {}
  IN  [settings |-> Section("settings", db.settings \ Credentials),
       apps |-> Section("apps", db.apps),
       history |-> Section("history", HistoryRows(db, 36500, today)),
       errors |-> {name \in DOMAIN reads : reads[name] \cap unreadable # {}}]

-----------------------------------------------------------------------------
(* What the figures owe one another *)

\* Sessions that were recorded under a clock that was ahead.
Ahead(sessions, today) == {s \in sessions : s.day > today}

\* The week is the last seven days of the history, however it is added up, but that
\* the history and the hours have no last day (database.py:277-287, 315-326): what is
\* dated after today is in these two and in none of the others.
WeekAddsUp(db, today) ==
  LET apps == AppsThisWeek(db, today)
      categories == CategoriesThisWeek(db, today)
      hours == PeakHours(db, 7, today)
      whole == SumFunction(apps)
  IN  /\ \A a \in db.apps :
           LET history == History(db, a, 7, today)
               week == WeekOf(db, a, today)
           IN  /\ week = (IF a \in DOMAIN apps THEN apps[a] ELSE 0)
               /\ SumFunction(history) = week + Total(Ahead(Of(db.sessions, a), today))
               /\ TodayOf(db, a, today) = (IF today \in DOMAIN history THEN history[today] ELSE 0)
      /\ whole = SumFunction(categories)
      /\ SumFunction(hours) = whole + Total(Ahead(db.sessions, today))

\* The tab names the heaviest apps, its tallest bar is the peak, and its shares make
\* one whole.
InsightsAgree(db, today, view) ==
  LET apps == AppsThisWeek(db, today)
      shown == {view.top[i].app : i \in DOMAIN view.top}
      parts == SumFunction([c \in DOMAIN view.shares |-> view.shares[c][1]])
      used == \E a \in DOMAIN apps : apps[a] > 0
  IN  /\ Cardinality(shown) = Min({3, Cardinality(DOMAIN apps)})
      /\ \A a \in DOMAIN apps \ shown, b \in shown : apps[a] <= apps[b]
      /\ used => \A c \in DOMAIN view.shares : view.shares[c][2] = parts
      /\ view.chart.bars # <<>> /\ used =>
           /\ view.chart.bars[view.chart.peak] = 60
           /\ \A h \in 0..23 : view.chart.bars[h] \in 2..60

\* The whole of the tables' sessions is in an export, whatever their day.
HoldsHistory(db, export) ==
  /\ Total(export.history) = Total(db.sessions)
  /\ \A s \in db.sessions : \E r \in export.history : r.app = s.app /\ r.day = s.day

\* The full export holds no credential and all the rest, but for what cannot be read;
\* the sessions are lost with either table.  A section that is not whole is named.
ExportIsWhole(db, today, unreadable, export) ==
  LET whole == [settings |-> export.settings = db.settings \ Credentials,
                apps |-> export.apps = db.apps,
                history |-> HoldsHistory(db, export)]
  IN  /\ export.settings \cap Credentials = {}
      /\ "settings" \notin unreadable => whole.settings
      /\ "tracked_apps" \notin unreadable =>
           whole.apps /\ ("usage_sessions" \notin unreadable => whole.history)
      /\ \A name \in DOMAIN whole : whole[name] \/ name \in export.errors
=============================================================================
