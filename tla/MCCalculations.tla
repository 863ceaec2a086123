--------------------------- MODULE MCCalculations ---------------------------
(* The questions of the run: each list holds the edges of its rules. *)
EXTENDS Calculations

MCTimes == {Junk, <<0, 0>>, <<22, 0>>, <<6, 30>>, <<24, 0>>}
MCInstants == [weekday : {0, 4, 5, 6}, minute : {0, 389, 390, 540, 1019, 1320}]
MCCaps == {0, 30, 60}

Tokens == {"spotify", "vendor", "com", "android", "music", "exe", "app", "for"}
Seps == {".", " ", "-"}
MCNames ==
  {<<>>, <<" ">>, <<".">>, <<".", "exe">>, <<"-", "app">>}
    \cup {<<a>> : a \in Tokens}
    \cup {<<a, s, b>> : a, b \in Tokens, s \in Seps}
    \cup {<<a, s, b, t, c>> : a, b, c \in Tokens, s, t \in Seps}
    \cup {<<a, ".", b, ".", c, ".", d>> : a, b, c, d \in Tokens}
    \cup {<<" ", a, s, b, " ">> : a, b \in Tokens, s \in Seps}
    \cup {<<".", a, ".", b, ".">> : a, b \in Tokens}
    \cup {<<a, ".", "-", ".", b>> : a, b \in Tokens}

MCApps == {[id |-> 1, category |-> "Gaming"], [id |-> 2, category |-> "Work"],
           [id |-> 3, category |-> "Custom"], [id |-> 4, category |-> "Gaming"]}
Session(id, app, ago, hour, sec) ==
  [id |-> id, app |-> app, day |-> 100 - ago, hour |-> hour, sec |-> sec]
MCStores ==
  {[apps |-> MCApps, settings |-> {"theme", "entitlement", "device_id"},
    sessions |-> {Session(1, 1, a, 23, x), Session(2, b, c, h, 3600)} \cup more] :
     a, c \in {-1, 0, 6, 7, 29, 30}, b \in {1, 2}, h \in {0, 23}, x \in {0, 3600, 90000},
     more \in {{}, {Session(3, 3, 1, 9, 7200), Session(4, 4, 6, 9, 7200)}}}

\* The longest text of each version, by level.
Capacities ==
  [L |-> {17, 32, 53, 78, 106, 134, 154, 192, 230, 271},
   M |-> {14, 26, 42, 62, 84, 106, 122, 152, 180, 213},
   Q |-> {11, 20, 32, 46, 60, 74, 86, 108, 130, 151},
   H |-> {7, 14, 24, 34, 44, 58, 64, 84, 98, 119}]

MCSymbols ==
  UNION {{<<n, ecl, 3>> : n \in Capacities[ecl]} : ecl \in {"L", "M", "Q", "H"}}
    \cup {<<8, "Q", m>> : m \in -1..7}
    \cup {<<0, "L", -1>>, <<12, "Q", -1>>, <<152, "Q", 3>>, <<272, "L", 3>>}
=============================================================================
