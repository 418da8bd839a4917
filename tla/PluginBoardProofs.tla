---------------------------- MODULE PluginBoardProofs ----------------------------
(***************************************************************************)
(* Theorems about PluginBoard, for every configuration, any number of      *)
(* plugins, capabilities and concurrent requests.                          *)
(***************************************************************************)
EXTENDS PluginBoard, SequenceTheorems, TLAPS

\* Capabilities of entry k that loadPlugins has registered.
Done(k) ==
    IF k < loader.entry THEN board[k].caps
    ELSE IF k = loader.entry /\ loader.at = "caps" THEN board[k].caps \ loader.caps
    ELSE {}

\* What loadPlugins has left behind: each plugin in the supervisor's map comes from
\* an entry it has reached, and each route from a capability it has registered.
Loaded ==
    /\ \A p \in registered : \E k \in wanted :
         /\ board[k].id = p /\ ~board[k].inline
         /\ k <= loader.entry /\ (k = loader.entry => loader.at # "entry")
         /\ \A c \in Done(k) : route[c] = p
    /\ \A c \in Caps : route[c] # NoId =>
         /\ route[c] \in registered
         /\ \E k \in wanted : board[k].id = route[c] /\ c \in Done(k)

\* Where loadPlugins stands.
Loading ==
    /\ loader.at # "entry" => /\ loader.entry \in wanted /\ ~Entry.inline
                              /\ Entry.id \in registered
    /\ loader.at = "caps" => loader.caps \subseteq Entry.caps
    /\ \A k \in DOMAIN board : board[k].enabled => k \in wanted
    /\ phase \notin {"booting", "failed"} => loader.entry > Len(board)

\* Plugin p runs, or has a monitor.
Started(p) == running[p] \/ watched[p] \/ back[p]

\* Only a registered plugin runs, is watched or is on its way back, and a plugin that
\* is still to be started does so only if a request was faster.
Alive ==
    /\ \A p \in Ids : Started(p) => p \in registered
    /\ phase = "booting" /\ loader.at = "start" /\ Started(Entry.id) => excuse

\* A request's place tells what it was asked for.
Asked ==
    \A q \in Requests : /\ request[q].at \in {"check", "restop", "start"} => request[q].on
                        /\ request[q].at = "stop" => ~request[q].on

\* What shutdown has passed stays down or is started again.
Stopping ==
    /\ phase \in {"draining", "closed"} => toStop = {}
    /\ phase \in {"stopping", "draining", "closed"} =>
         \A p \in registered \ toStop : running[p] => p \in revived

BoardInv ==
    /\ TypeOK /\ Loaded /\ Loading /\ Alive /\ Asked /\ Stopping
    /\ BootFailsForCause /\ ConfigureTakesEffect

----------------------------------------------------------------------------
\* ConfigurePlugin changes nothing of an entry but whether it is enabled.
LEMMA BoardKept ==
  ASSUME TypeOK, Next
  PROVE  /\ board' \in Seq(Entries) /\ Len(board') = Len(board)
         /\ DOMAIN board' = DOMAIN board
         /\ \A k \in DOMAIN board : /\ board'[k].id = board[k].id
                                    /\ board'[k].caps = board[k].caps
                                    /\ board'[k].inline = board[k].inline
         /\ wanted \subseteq wanted' /\ wanted' \subseteq DOMAIN board
         /\ (\A k \in DOMAIN board : board[k].enabled => k \in wanted)
              => (\A k \in DOMAIN board : board'[k].enabled => k \in wanted')
<1>1. ASSUME NEW q \in Requests, NEW id \in Ids, NEW on \in BOOLEAN, Configure(q, id, on)
      PROVE  \E k \in DOMAIN board :
               /\ board' = [board EXCEPT ![k].enabled = on]
               /\ wanted' = IF on THEN wanted \cup {k} ELSE wanted
  BY <1>1 DEF Configure
<1>2. \/ \E q \in Requests, id \in Ids, on \in BOOLEAN : Configure(q, id, on)
      \/ UNCHANGED <<board, wanted>>
  BY DEF Next, LoadEntry, LoadBreaks, LoadStart, Booted, LoadCapability, ConfigureChecks,
     ConfigureStops, ConfigureStarts, ConfigureStartBreaks, Answer, Falls, ComesBack,
     PluginStops, WatchBlocks, WatchLeaves, WatchFails, WatchPasses, ShutdownStops, WatchTick, BeginShutdown, Drain,
     Close, aux
<1>3. CASE UNCHANGED <<board, wanted>>
  BY <1>3 DEF TypeOK
<1>4. CASE \E q \in Requests, id \in Ids, on \in BOOLEAN : Configure(q, id, on)
  <2>1. PICK on \in BOOLEAN, k \in DOMAIN board :
          /\ board' = [board EXCEPT ![k].enabled = on]
          /\ wanted' = IF on THEN wanted \cup {k} ELSE wanted
    BY <1>1, <1>4
  <2>2. board' = [board EXCEPT ![k] = [board[k] EXCEPT !.enabled = on]]
    BY <2>1
  <2>3. board[k] \in Entries /\ [board[k] EXCEPT !.enabled = on] \in Entries
    <3>1. board[k] \in Entries
      BY DEF TypeOK
    <3> QED BY <3>1 DEF Entries
  <2>4. \A j \in DOMAIN board : board'[j] = IF j = k THEN [board[k] EXCEPT !.enabled = on]
                                            ELSE board[j]
    BY <2>2 DEF TypeOK
  <2>5. board' \in Seq(Entries) /\ Len(board') = Len(board) /\ DOMAIN board' = DOMAIN board
    BY <2>2, <2>3 DEF TypeOK
  <2>6. \A j \in DOMAIN board : /\ board'[j].id = board[j].id
                                /\ board'[j].caps = board[j].caps
                                /\ board'[j].inline = board[j].inline
                                /\ board'[j].enabled = IF j = k THEN on ELSE board[j].enabled
    BY <2>3, <2>4 DEF Entries
  <2>7. wanted \subseteq wanted' /\ wanted' \subseteq DOMAIN board
    BY <2>1 DEF TypeOK
  <2> QED BY <2>1, <2>5, <2>6, <2>7
<1> QED BY <1>2, <1>3, <1>4

\* Only loadPlugins moves its own state, the map and the routes.
LEMMA LoadMoves ==
  ASSUME Next
  PROVE  \/ LoadEntry \/ LoadStart \/ \E c \in Caps : LoadCapability(c)
         \/ UNCHANGED <<loader, registered, route>>
  BY DEF Next, LoadBreaks, Booted, Configure, ConfigureChecks,
     ConfigureStops, ConfigureStarts, ConfigureStartBreaks, Answer, Falls, ComesBack,
     PluginStops, WatchBlocks, WatchLeaves, WatchFails, WatchPasses, ShutdownStops, WatchTick, BeginShutdown, Drain,
     Close, fleet

\* The requests keep their types when a plugin is disturbed.
LEMMA DisturbedType ==
  ASSUME TypeOK, NEW id, NEW by
  PROVE  /\ Disturbed(id, by) \in
              [Requests -> [at : {"idle", "check", "restop", "start", "stop", "answer"},
                            id : Ids \cup {NoId}, on : BOOLEAN, alone : BOOLEAN]]
         /\ \A q \in Requests :
              /\ Disturbed(id, by)[q].at = request[q].at
              /\ Disturbed(id, by)[q].id = request[q].id
              /\ Disturbed(id, by)[q].on = request[q].on
              /\ Disturbed(id, by)[q].alone =
                   (request[q].alone /\ ~(request[q].id = id /\ q # by))
<1>1. ASSUME NEW q \in Requests
      PROVE  /\ [request[q] EXCEPT !.alone = FALSE] \in
                  [at : {"idle", "check", "restop", "start", "stop", "answer"},
                   id : Ids \cup {NoId}, on : BOOLEAN, alone : BOOLEAN]
             /\ Disturbed(id, by)[q] = IF request[q].id = id /\ q # by
                                       THEN [request[q] EXCEPT !.alone = FALSE] ELSE request[q]
  <2> DEFINE Kind == [at : {"idle", "check", "restop", "start", "stop", "answer"},
                      id : Ids \cup {NoId}, on : BOOLEAN, alone : BOOLEAN]
  <2>1. request[q] \in Kind
    BY DEF TypeOK
  <2>2. [request[q] EXCEPT !.alone = FALSE] \in Kind
    BY <2>1
  <2> QED BY <2>2 DEF Disturbed
<1>2. ASSUME NEW q \in Requests
      PROVE  request[q].alone \in BOOLEAN
  BY DEF TypeOK
<1>3. ASSUME NEW q \in Requests
      PROVE  /\ Disturbed(id, by)[q].at = request[q].at
             /\ Disturbed(id, by)[q].id = request[q].id
             /\ Disturbed(id, by)[q].on = request[q].on
             /\ Disturbed(id, by)[q].alone =
                  (request[q].alone /\ ~(request[q].id = id /\ q # by))
  <2>1. request[q] \in [at : {"idle", "check", "restop", "start", "stop", "answer"},
                       id : Ids \cup {NoId}, on : BOOLEAN, alone : BOOLEAN]
    BY DEF TypeOK
  <2>2. CASE request[q].id = id /\ q # by
    BY <1>1, <2>1, <2>2
  <2>3. CASE ~(request[q].id = id /\ q # by)
    BY <1>1, <1>2, <2>3
  <2> QED BY <2>2, <2>3
<1> QED BY <1>1, <1>3 DEF TypeOK, Disturbed

\* loadPlugins goes on to what is left of an entry, or to the next entry.
LEMMA AfterType ==
  ASSUME TypeOK, loader.entry \in DOMAIN board, NEW left \in SUBSET Caps
  PROVE  /\ After(left) \in [entry : Nat \ {0}, at : {"entry", "start", "caps"}, caps : SUBSET Caps]
         /\ After(left).at # "entry" => After(left).entry \in DOMAIN board
         /\ left = {} => After(left).entry = loader.entry + 1 /\ After(left).at = "entry"
         /\ left # {} => /\ After(left).entry = loader.entry /\ After(left).at = "caps"
                         /\ After(left).caps = left
<1>1. /\ loader.entry \in Nat \ {0} /\ loader.at \in {"entry", "start", "caps"}
      /\ loader.caps \in SUBSET Caps
      /\ loader = [entry |-> loader.entry, at |-> loader.at, caps |-> loader.caps]
  BY DEF TypeOK
<1>2. CASE left = {}
  <2>1. After(left) = [entry |-> loader.entry + 1, at |-> "entry", caps |-> {}]
    BY <1>2 DEF After
  <2> QED BY <1>1, <1>2, <2>1
<1>3. CASE left # {}
  <2>1. After(left) = [entry |-> loader.entry, at |-> "caps", caps |-> left]
    BY <1>1, <1>3 DEF After
  <2> QED BY <1>1, <1>3, <2>1
<1> QED BY <1>2, <1>3

LEMMA LoaderGoesOn ==
  ASSUME TypeOK, loader.entry \in DOMAIN board, NEW left \in SUBSET Caps,
         loader' \in {loader, After(left)}
  PROVE  /\ loader' \in [entry : Nat \ {0}, at : {"entry", "start", "caps"}, caps : SUBSET Caps]
         /\ loader'.at # "entry" => loader'.entry = loader.entry
<1>1. CASE loader' = loader
  BY <1>1 DEF TypeOK
<1>2. CASE loader' = After(left)
  <2>1. After(left) \in [entry : Nat \ {0}, at : {"entry", "start", "caps"}, caps : SUBSET Caps]
    BY AfterType
  <2>2. After(left).at # "entry" => After(left).entry = loader.entry
    BY AfterType
  <2> QED BY <1>2, <2>1, <2>2
<1> QED BY <1>1, <1>2

LEMMA EntryType ==
  ASSUME TypeOK, NEW k \in DOMAIN board
  PROVE  board[k].id \in Ids /\ board[k].caps \in SUBSET Caps /\ k \in Nat
<1>1. board[k] \in Entries /\ k \in Nat
  BY DEF TypeOK
<1> QED BY <1>1 DEF Entries

\* Steps that load nothing.
LEMMA LoadedKept ==
  ASSUME BoardInv, Next, UNCHANGED <<loader, registered, route>>
  PROVE  Loaded'
<1>1. /\ \A k \in wanted : /\ k \in wanted' /\ board'[k].id = board[k].id
                           /\ board'[k].inline = board[k].inline
                           /\ Done(k)' = Done(k)
  BY BoardKept DEF BoardInv, TypeOK, Done
<1> QED BY <1>1 DEF BoardInv, Loaded

LEMMA LoadedStep ==
  ASSUME BoardInv, Next
  PROVE  Loaded'
<1> USE DEF BoardInv
<1>1. /\ wanted \subseteq DOMAIN board /\ wanted \subseteq Nat
      /\ loader.entry \in Nat \ {0}
      /\ loader = [entry |-> loader.entry, at |-> loader.at, caps |-> loader.caps]
  BY DEF TypeOK
<1>2. CASE LoadEntry
  <2>1. UNCHANGED <<board, wanted, route>> /\ loader.at = "entry" /\ loader.entry \in DOMAIN board
    BY <1>1, <1>2 DEF LoadEntry, aux, TypeOK
  <2>2. CASE UNCHANGED <<loader, registered>>
    BY <2>1, <2>2, LoadedKept
  <2>3. CASE registered' = registered /\ loader' = After({})
    <3>1. loader'.entry = loader.entry + 1 /\ loader'.at = "entry"
      BY <2>1, <2>3, AfterType
    <3>2. \A k \in wanted : k # loader.entry => Done(k)' = Done(k)
      BY <1>1, <2>1, <3>1 DEF Done
    <3>3. \A k \in wanted : Done(k) \subseteq Done(k)'
      BY <1>1, <2>1, <3>1, <3>2 DEF Done
    <3> QED BY <1>1, <2>1, <2>3, <3>1, <3>2, <3>3 DEF Loaded
  <2>4. CASE /\ registered' = registered \cup {Entry.id} /\ Entry.enabled /\ ~Entry.inline
             /\ loader' = [loader EXCEPT !.at = "start"]
    <3>1. loader'.entry = loader.entry /\ loader'.at = "start"
      BY <1>1, <2>4
    <3>2. \A k \in wanted : Done(k)' = Done(k)
      BY <2>1, <3>1 DEF Done
    <3>3. loader.entry \in wanted /\ Done(loader.entry)' = {}
      BY <2>1, <2>4, <3>1, <1>1 DEF Loading, Entry, Done
    <3> QED BY <1>1, <2>1, <2>4, <3>1, <3>2, <3>3 DEF Loaded, Entry
  <2> QED BY <1>2, <2>2, <2>3, <2>4 DEF LoadEntry
<1>3. CASE LoadStart
  <2>0. loader.at = "start" /\ loader.entry \in DOMAIN board
    BY <1>3 DEF LoadStart, TypeOK
  <2>1. UNCHANGED <<board, wanted, route, registered>> /\ Entry.caps \in SUBSET Caps
    BY <1>3, <2>0, EntryType DEF LoadStart, Entry
  <2>2. CASE UNCHANGED loader
    BY <2>1, <2>2, LoadedKept
  <2>3. CASE loader' = After(Entry.caps)
    <3>1. \A k \in wanted : Done(k)' = Done(k)
      <4>1. CASE Entry.caps = {}
        <5>1. loader'.entry = loader.entry + 1 /\ loader'.at = "entry"
          BY <2>0, <2>1, <2>3, <4>1, AfterType
        <5>2. ASSUME NEW k \in wanted PROVE Done(k)' = Done(k)
          <6>1. CASE k < loader.entry
            BY <1>1, <2>1, <5>1, <6>1 DEF Done
          <6>2. CASE k = loader.entry
            BY <1>1, <2>0, <2>1, <4>1, <5>1, <6>2 DEF Done, Entry
          <6>3. CASE k > loader.entry
            BY <1>1, <5>1, <6>3 DEF Done
          <6> QED BY <1>1, <6>1, <6>2, <6>3
        <5> QED BY <5>2
      <4>2. CASE Entry.caps # {}
        <5>1. /\ loader'.entry = loader.entry /\ loader'.at = "caps"
              /\ loader'.caps = Entry.caps
          BY <2>0, <2>1, <2>3, <4>2, AfterType
        <5> QED BY <1>1, <2>0, <2>1, <5>1 DEF Done, Entry
      <4> QED BY <4>1, <4>2
    <3>2. /\ loader'.entry \in {loader.entry, loader.entry + 1}
          /\ loader'.entry = loader.entry => loader'.at # "entry"
      BY <1>1, <2>0, <2>1, <2>3, AfterType
    <3> QED BY <1>1, <2>0, <2>1, <3>1, <3>2 DEF Loaded
  <2> QED BY <1>3, <2>2, <2>3 DEF LoadStart
<1>4. ASSUME NEW c \in Caps, LoadCapability(c) PROVE Loaded'
  <2>1. /\ UNCHANGED <<board, wanted, registered>> /\ loader.at = "caps" /\ c \in loader.caps
        /\ loader.entry \in DOMAIN board /\ loader.entry \in wanted /\ Entry.id \in registered
        /\ loader.caps \subseteq Entry.caps
    BY <1>4 DEF LoadCapability, TypeOK, Loading, aux, fleet
  <2>2. CASE UNCHANGED <<loader, route>>
    BY <2>1, <2>2, LoadedKept
  <2>3. CASE /\ route[c] = NoId /\ route' = [route EXCEPT ![c] = Entry.id]
             /\ loader' = After(loader.caps \ {c})
    <3>0. loader.caps \ {c} \in SUBSET Caps
      BY DEF TypeOK
    <3>1. /\ \A k \in wanted : k # loader.entry => Done(k)' = Done(k)
          /\ \A k \in wanted : k = loader.entry => Done(k)' = Done(k) \cup {c}
      <4>1. CASE loader.caps \ {c} = {}
        <5>1. loader'.entry = loader.entry + 1 /\ loader'.at = "entry"
          BY <2>1, <2>3, <3>0, <4>1, AfterType
        <5> QED BY <1>1, <2>1, <4>1, <5>1 DEF Done, Entry
      <4>2. CASE loader.caps \ {c} # {}
        <5>1. /\ loader'.entry = loader.entry /\ loader'.at = "caps"
              /\ loader'.caps = loader.caps \ {c}
          BY <2>1, <2>3, <3>0, <4>2, AfterType
        <5> QED BY <1>1, <2>1, <5>1 DEF Done, Entry
      <4> QED BY <4>1, <4>2
    <3>2. /\ loader'.entry \in {loader.entry, loader.entry + 1}
          /\ loader'.entry = loader.entry => loader'.at # "entry"
      BY <1>1, <2>1, <2>3, <3>0, AfterType
    <3>3. route'[c] = Entry.id /\ \A d \in Caps \ {c} : route'[d] = route[d]
      BY <2>3 DEF TypeOK
    <3>4. \A k \in wanted : Done(k) \subseteq Done(k)' /\ k \in wanted'
      BY <2>1, <3>1
    <3>5. ASSUME NEW p \in registered
          PROVE  \E k \in wanted : /\ board[k].id = p /\ ~board[k].inline
                                   /\ k <= loader'.entry
                                   /\ k = loader'.entry => loader'.at # "entry"
                                   /\ \A d \in Done(k)' : route'[d] = p
      <4>1. PICK k \in wanted : /\ board[k].id = p /\ ~board[k].inline
                               /\ k <= loader.entry
                               /\ \A d \in Done(k) : route[d] = p
        BY DEF Loaded
      <4>2. p \in Ids /\ p # NoId /\ c \notin Done(k)
        BY <2>3, <4>1, IdsAssumption DEF TypeOK
      <4>3. \A d \in Done(k) : d \in Caps
        <5>1. k \in DOMAIN board /\ board[k].caps \subseteq Caps
          BY <1>1, EntryType
        <5> QED BY <5>1 DEF Done
      <4>4. \A d \in Done(k)' : route'[d] = p
        <5>1. CASE k = loader.entry
          BY <3>1, <3>3, <4>1, <4>2, <4>3, <5>1 DEF Entry
        <5>2. CASE k # loader.entry
          BY <3>1, <3>3, <4>1, <4>2, <4>3, <5>2
        <5> QED BY <5>1, <5>2
      <4> QED BY <1>1, <3>2, <4>1, <4>4
    <3>6. ASSUME NEW d \in Caps, route'[d] # NoId
          PROVE  /\ route'[d] \in registered
                 /\ \E k \in wanted : board[k].id = route'[d] /\ d \in Done(k)'
      <4>1. CASE d = c
        BY <2>1, <3>1, <3>3, <4>1 DEF Entry
      <4>2. CASE d # c
        BY <3>3, <3>4, <3>6, <4>2 DEF Loaded
      <4> QED BY <4>1, <4>2
    <3> QED BY <2>1, <3>5, <3>6 DEF Loaded
  <2> QED BY <1>4, <2>2, <2>3 DEF LoadCapability
<1> QED BY <1>2, <1>3, <1>4, LoadMoves, LoadedKept

\* What the boot tells of its entries, and the causes of its failures.
LEMMA LoadingStep ==
  ASSUME BoardInv, Next
  PROVE  Loading'
<1> USE DEF BoardInv
<1>1. /\ wanted \subseteq DOMAIN board /\ loader.entry \in Nat \ {0}
      /\ loader = [entry |-> loader.entry, at |-> loader.at, caps |-> loader.caps]
      /\ loader.at # "entry" => loader.entry \in DOMAIN board
  BY DEF TypeOK
<1>2. (\A k \in DOMAIN board : board[k].enabled => k \in wanted)'
  BY BoardKept DEF Loading
<1>3. ASSUME UNCHANGED <<loader, registered, route>> PROVE Loading'
  <2>1. \/ phase' = phase \/ phase' = "failed"
        \/ phase' = "serving" /\ loader.entry > Len(board)
        \/ phase \notin {"booting", "failed"}
    BY DEF Next, LoadEntry, LoadBreaks, LoadStart, Booted, LoadCapability, Configure,
       ConfigureChecks, ConfigureStops, ConfigureStarts, ConfigureStartBreaks, Answer, Falls,
       ComesBack, PluginStops, WatchBlocks, WatchLeaves, WatchFails, WatchPasses, ShutdownStops, WatchTick,
       BeginShutdown, Drain, Close
  <2>2. loader.at # "entry" => /\ board'[loader.entry].id = Entry.id
                               /\ board'[loader.entry].caps = Entry.caps
                               /\ board'[loader.entry].inline = Entry.inline
    BY <1>1, BoardKept DEF Entry
  <2> QED BY <1>1, <1>2, <1>3, <2>1, <2>2, BoardKept DEF Loading, Entry
<1>4. CASE LoadEntry
  <2>1. /\ UNCHANGED <<board, wanted>> /\ loader.at = "entry"
        /\ loader.entry \in DOMAIN board /\ phase = "booting"
    BY <1>1, <1>4 DEF LoadEntry, aux, TypeOK
  <2>2. CASE UNCHANGED <<loader, registered>>
    BY <1>3, <1>4, <2>2 DEF LoadEntry
  <2>3. CASE loader' = After({}) /\ UNCHANGED phase
    BY <1>2, <2>1, <2>3, AfterType DEF Loading
  <2>4. CASE /\ registered' = registered \cup {Entry.id} /\ Entry.enabled /\ ~Entry.inline
             /\ loader' = [loader EXCEPT !.at = "start"] /\ UNCHANGED phase
    <3>1. loader'.entry = loader.entry /\ loader'.at = "start"
      BY <1>1, <2>4
    <3> QED BY <1>2, <2>1, <2>4, <3>1 DEF Loading, Entry
  <2> QED BY <1>4, <2>2, <2>3, <2>4 DEF LoadEntry
<1>5. CASE LoadStart
  <2>1. /\ UNCHANGED <<board, wanted, registered, route>> /\ loader.at = "start"
        /\ loader.entry \in DOMAIN board /\ phase = "booting"
    BY <1>1, <1>5 DEF LoadStart
  <2>2. CASE UNCHANGED loader
    BY <1>3, <2>1, <2>2
  <2>3. CASE loader' = After(Entry.caps) /\ UNCHANGED phase
    <3>1. Entry.caps \in SUBSET Caps
      BY <2>1, EntryType DEF Entry
    <3>2. CASE Entry.caps = {}
      BY <1>2, <2>1, <2>3, <3>1, <3>2, AfterType DEF Loading
    <3>3. CASE Entry.caps # {}
      BY <1>2, <2>1, <2>3, <3>1, <3>3, AfterType DEF Loading, Entry
    <3> QED BY <3>2, <3>3
  <2> QED BY <1>5, <2>2, <2>3 DEF LoadStart
<1>6. ASSUME NEW c \in Caps, LoadCapability(c) PROVE Loading'
  <2>1. /\ UNCHANGED <<board, wanted, registered>> /\ loader.at = "caps"
        /\ loader.entry \in DOMAIN board /\ phase = "booting"
    BY <1>1, <1>6 DEF LoadCapability, aux, fleet
  <2>2. CASE UNCHANGED <<loader, route>>
    BY <1>3, <2>1, <2>2
  <2>3. CASE loader' = After(loader.caps \ {c}) /\ UNCHANGED phase
    <3>1. loader.caps \ {c} \in SUBSET Caps
      BY DEF TypeOK
    <3>2. CASE loader.caps \ {c} = {}
      BY <1>2, <2>1, <2>3, <3>1, <3>2, AfterType DEF Loading
    <3>3. CASE loader.caps \ {c} # {}
      BY <1>2, <2>1, <2>3, <3>1, <3>3, AfterType DEF Loading, Entry
    <3> QED BY <3>2, <3>3
  <2> QED BY <1>6, <2>2, <2>3 DEF LoadCapability
<1> QED BY <1>3, <1>4, <1>5, <1>6, LoadMoves

LEMMA ExcuseStays ==
  ASSUME Next
  PROVE  excuse => excuse'
  BY DEF Next, LoadEntry, LoadBreaks, LoadStart, Booted, LoadCapability, Configure,
     ConfigureChecks, ConfigureStops, ConfigureStarts, ConfigureStartBreaks, Answer, Falls,
     ComesBack, PluginStops, WatchBlocks, WatchLeaves, WatchFails, WatchPasses, ShutdownStops, WatchTick,
     BeginShutdown, Drain, Close, aux

LEMMA CauseStep ==
  ASSUME BoardInv, Next
  PROVE  BootFailsForCause'
<1> USE DEF BoardInv
<1>1. \A j, k \in DOMAIN board : Clash(j, k) => Clash(j, k)'
  BY BoardKept DEF Clash
<1>2. excuse => excuse'
  BY ExcuseStays
<1>3. CASE phase' = phase \/ phase' # "failed"
  BY <1>1, <1>2, <1>3, BoardKept DEF BootFailsForCause
<1>4. CASE LoadBreaks
  BY <1>4 DEF LoadBreaks, BootFailsForCause
<1>5. CASE LoadEntry /\ phase' # phase
  <2>1. /\ Entry.enabled /\ Entry.id \in registered /\ loader.at = "entry"
        /\ loader.entry \in DOMAIN board
    BY <1>5 DEF LoadEntry, TypeOK
  <2>2. loader.entry \in wanted
    BY <2>1 DEF Loading, Entry
  <2>3. PICK k \in wanted : board[k].id = Entry.id /\ k # loader.entry
    BY <2>1 DEF Loaded
  <2>4. Clash(k, loader.entry)
    BY <2>2, <2>3 DEF Clash, Entry
  <2> QED BY <1>1, <2>1, <2>3, <2>4, BoardKept DEF BootFailsForCause, TypeOK
<1>6. CASE LoadStart /\ phase' # phase
  BY <1>2, <1>6 DEF LoadStart, Alive, Started, BootFailsForCause
<1>7. ASSUME NEW c \in Caps, LoadCapability(c), phase' # phase PROVE BootFailsForCause'
  <2>1. /\ route[c] # NoId /\ c \in loader.caps /\ loader.at = "caps"
        /\ loader.entry \in wanted /\ c \in Entry.caps
    BY <1>7 DEF LoadCapability, Loading
  <2>2. PICK k \in wanted : board[k].id = route[c] /\ c \in Done(k)
    BY <2>1 DEF Loaded
  <2>3. c \in board[k].caps /\ k # loader.entry
    BY <2>1, <2>2 DEF Done, TypeOK
  <2>4. Clash(k, loader.entry)
    BY <2>1, <2>2, <2>3 DEF Clash, Entry
  <2> QED BY <1>1, <2>1, <2>2, <2>4, BoardKept DEF BootFailsForCause, TypeOK
<1>8. \/ phase' = phase \/ phase' # "failed" \/ LoadBreaks
      \/ LoadEntry \/ LoadStart \/ \E c \in Caps : LoadCapability(c)
  BY DEF Next, Booted, Configure,
     ConfigureChecks, ConfigureStops, ConfigureStarts, ConfigureStartBreaks, Answer, Falls,
     ComesBack, PluginStops, WatchBlocks, WatchLeaves, WatchFails, WatchPasses, ShutdownStops, WatchTick,
     BeginShutdown, Drain, Close
<1> QED BY <1>3, <1>4, <1>5, <1>6, <1>7, <1>8

LEMMA AliveStep ==
  ASSUME BoardInv, Next
  PROVE  Alive'
<1> USE DEF BoardInv
<1>0. phase' = "booting" => phase = "booting"
  BY DEF Next, LoadEntry, LoadBreaks, LoadStart, Booted, LoadCapability, Configure,
     ConfigureChecks, ConfigureStops, ConfigureStarts, ConfigureStartBreaks, Answer, Falls,
     ComesBack, PluginStops, WatchBlocks, WatchLeaves, WatchFails, WatchPasses, ShutdownStops, WatchTick,
     BeginShutdown, Drain, Close
<1>1. (excuse => excuse') /\ (phase' = "booting" => phase = "booting")
  BY <1>0, ExcuseStays
<1>2. UNCHANGED loader /\ loader.at = "start" => Entry.id' = Entry.id /\ Entry.id \in Ids
  BY BoardKept, EntryType DEF Entry, TypeOK
<1>3. ASSUME UNCHANGED <<loader, registered>>,
             \A p \in Ids : Started(p)' => Started(p)
      PROVE  Alive'
  BY <1>1, <1>2, <1>3 DEF Alive, Started
<1>4. ASSUME NEW id \in Ids, Stops(id), UNCHANGED <<loader, registered, back>>
      PROVE  Alive'
  <2>1. \A p \in Ids : Started(p)' => Started(p)
    BY <1>4 DEF Stops, Runs, Started, TypeOK
  <2> QED BY <1>3, <1>4, <2>1
<1>5. CASE LoadEntry
  <2>1. /\ UNCHANGED <<board, running, watched, back>>
        /\ loader.at = "entry" /\ loader.entry \in DOMAIN board
    BY <1>5 DEF LoadEntry, TypeOK
  <2>2. CASE UNCHANGED <<loader, registered>>
    BY <1>3, <2>1, <2>2 DEF Started
  <2>3. CASE registered' = registered /\ loader' = After({})
    BY <2>1, <2>3, AfterType DEF Alive, Started
  <2>4. CASE /\ Entry.id \notin registered /\ registered' = registered \cup {Entry.id}
             /\ loader' = [loader EXCEPT !.at = "start"]
    <3>1. Entry' = Entry /\ Entry.id \in Ids
      <4>1. loader'.entry = loader.entry
        BY <2>4 DEF TypeOK
      <4> QED BY <2>1, <4>1, EntryType DEF Entry
    <3> QED BY <2>1, <2>4, <3>1 DEF Alive, Started
  <2> QED BY <1>5, <2>2, <2>3, <2>4 DEF LoadEntry
<1>6. CASE LoadStart
  <2>1. /\ loader.at = "start" /\ loader.entry \in DOMAIN board /\ UNCHANGED <<registered, back>>
        /\ Entry.id \in registered /\ Entry.id \in Ids /\ Entry.caps \in SUBSET Caps
    BY <1>6, EntryType DEF LoadStart, Loading, TypeOK, Entry
  <2>2. CASE UNCHANGED <<loader, running, watched>>
    BY <1>3, <2>1, <2>2 DEF Started
  <2>3. CASE Starts(Entry.id) /\ loader' = After(Entry.caps)
    <3>1. loader'.at # "start"
      BY <2>1, <2>3, AfterType
    <3>2. \A p \in Ids : Started(p)' => Started(p) \/ p = Entry.id
      BY <2>1, <2>3 DEF Starts, Runs, Started, TypeOK
    <3> QED BY <2>1, <3>1, <3>2 DEF Alive, Started
  <2> QED BY <1>6, <2>2, <2>3 DEF LoadStart
<1>7. ASSUME NEW c \in Caps, LoadCapability(c) PROVE Alive'
  <2>1. /\ loader.at = "caps" /\ loader.entry \in DOMAIN board
        /\ UNCHANGED <<registered, running, watched, back>> /\ loader.caps \ {c} \in SUBSET Caps
    BY <1>7 DEF LoadCapability, fleet, TypeOK
  <2>2. CASE UNCHANGED loader
    BY <1>3, <2>1, <2>2 DEF Started
  <2>3. CASE loader' = After(loader.caps \ {c})
    <3>1. loader'.at # "start"
      BY <2>1, <2>3, AfterType
    <3> QED BY <2>1, <3>1 DEF Alive, Started
  <2> QED BY <1>7, <2>2, <2>3 DEF LoadCapability
<1>8. ASSUME NEW q \in Requests, ConfigureStarts(q) PROVE Alive'
  <2>1. UNCHANGED <<loader, registered, back>> /\ request[q].id \in Ids
    BY <1>8 DEF ConfigureStarts, TypeOK
  <2>2. CASE UNCHANGED <<running, watched>>
    BY <1>3, <2>1, <2>2 DEF Started
  <2>3. CASE ~UNCHANGED <<running, watched>>
    <3>1. request[q].id \in registered /\ Starts(request[q].id)
      BY <1>8, <2>3 DEF ConfigureStarts
    <3>2. \A p \in Ids : Started(p)' => Started(p) \/ p = request[q].id
      BY <2>1, <3>1 DEF Starts, Runs, Started, TypeOK
    <3>3. phase = "booting" /\ loader.at = "start" /\ Entry.id = request[q].id => excuse'
      BY <1>8, <2>3 DEF ConfigureStarts
    <3> QED BY <1>1, <1>2, <2>1, <3>1, <3>2, <3>3 DEF Alive, Started
  <2> QED BY <2>2, <2>3
<1>9. ASSUME NEW id \in Ids, Falls(id) PROVE Alive'
  <2>1. UNCHANGED <<loader, registered>> /\ Started(id)
    BY <1>9 DEF Falls, Started
  <2>2. \A p \in Ids \ {id} : Started(p)' => Started(p)
    BY <1>9 DEF Falls, Runs, Started, TypeOK
  <2> QED BY <1>3, <2>1, <2>2
<1>10. ASSUME NEW id \in Ids, ComesBack(id) PROVE Alive'
  <2>1. UNCHANGED <<loader, registered>> /\ Started(id)
    BY <1>10 DEF ComesBack, Started
  <2>2. \A p \in Ids \ {id} : Started(p)' => Started(p)
    BY <1>10 DEF ComesBack, Starts, Runs, Started, TypeOK
  <2> QED BY <1>3, <2>1, <2>2
<1>11. ASSUME NEW id \in Ids, PluginStops(id) \/ ShutdownStops(id) PROVE Alive'
  <2>1. /\ UNCHANGED <<loader, registered, back>>
        /\ Stops(id) \/ UNCHANGED <<running, watched>>
    BY <1>11 DEF PluginStops, ShutdownStops
  <2> QED BY <1>3, <1>4, <2>1 DEF Started
<1>12. ASSUME NEW q \in Requests, ConfigureStops(q) PROVE Alive'
  <2>1. /\ UNCHANGED <<loader, registered, back>> /\ request[q].id \in Ids
        /\ Stops(request[q].id) \/ UNCHANGED <<running, watched>>
    BY <1>12 DEF ConfigureStops, TypeOK
  <2> QED BY <1>3, <1>4, <2>1 DEF Started
<1>13. \/ LoadEntry \/ LoadStart \/ \E c \in Caps : LoadCapability(c)
       \/ \E q \in Requests : ConfigureStarts(q) \/ ConfigureStops(q)
       \/ \E id \in Ids : Falls(id) \/ ComesBack(id) \/ PluginStops(id) \/ ShutdownStops(id)
       \/ UNCHANGED <<loader, registered, running, watched, back>>
  BY DEF Next, LoadBreaks, Booted, Configure, ConfigureChecks, ConfigureStartBreaks, Answer,
     WatchBlocks, WatchLeaves, WatchFails, WatchPasses, WatchTick, BeginShutdown, Drain, Close, fleet
<1> QED BY <1>3, <1>5, <1>6, <1>7, <1>8, <1>9, <1>10, <1>11, <1>12, <1>13 DEF Started

\* Shutdown passes every plugin and leaves it down.
LEMMA StoppingStep ==
  ASSUME BoardInv, Next
  PROVE  Stopping'
<1> USE DEF BoardInv
<1>1. CASE phase \in {"booting", "serving", "failed"}
  <2>1. \/ phase' \in {"booting", "serving", "failed"}
        \/ phase' = "stopping" /\ toStop' = registered /\ UNCHANGED registered
    BY <1>1 DEF Next, LoadEntry, LoadBreaks, LoadStart, Booted, LoadCapability, Configure,
     ConfigureChecks, ConfigureStops, ConfigureStarts, ConfigureStartBreaks, Answer, Falls,
     ComesBack, PluginStops, WatchBlocks, WatchLeaves, WatchFails, WatchPasses, ShutdownStops, WatchTick,
     BeginShutdown, Drain, Close, fleet
  <2> QED BY <2>1 DEF Stopping
<1>2. CASE phase \in {"stopping", "draining", "closed"}
  <2>1. registered' = registered
    BY <1>2, LoadMoves DEF LoadEntry, LoadStart, LoadCapability
  <2>2. ASSUME NEW id \in Ids, NEW value \in BOOLEAN, Runs(id, value), value => CoreRuns,
               UNCHANGED <<phase, toStop>>
        PROVE  Stopping'
    <3>1. \A p \in Ids : running'[p] = IF p = id THEN value ELSE running[p]
      BY <2>2 DEF Runs, TypeOK
    <3>2. \A p \in Ids \ {id} : p \in revived => p \in revived'
      BY <2>2 DEF Runs
    <3>3. value /\ id \notin toStop => id \in revived'
      BY <1>2, <2>2 DEF Runs, CoreRuns
    <3>4. registered \subseteq Ids
      BY DEF TypeOK
    <3> QED BY <1>2, <2>1, <2>2, <3>1, <3>2, <3>3, <3>4 DEF Stopping
  <2>3. ASSUME UNCHANGED <<running, revived>>, phase' \in {"stopping", "draining", "closed"},
               \/ UNCHANGED <<phase, toStop>>
               \/ toStop = {} /\ toStop' = {}
        PROVE  Stopping'
    BY <1>2, <2>1, <2>3 DEF Stopping
  <2>4. ASSUME NEW id \in Ids, ShutdownStops(id) PROVE Stopping'
    <3>1. id \in toStop /\ toStop' = toStop \ {id} /\ phase = "stopping" /\ phase' = phase
      BY <2>4 DEF ShutdownStops
    <3>2. /\ \A p \in Ids : running'[p] = IF p = id THEN FALSE ELSE running[p]
          /\ \A p \in Ids \ {id} : p \in revived => p \in revived'
      BY <2>4 DEF ShutdownStops, Stops, Runs, TypeOK
    <3>3. registered \subseteq Ids
      BY DEF TypeOK
    <3> QED BY <2>1, <3>1, <3>2, <3>3 DEF Stopping
  <2>5. ASSUME NEW q \in Requests, ConfigureStops(q) \/ ConfigureStarts(q) PROVE Stopping'
    <3>1. /\ UNCHANGED <<phase, toStop>> /\ CoreRuns /\ request[q].id \in Ids
          /\ \/ Runs(request[q].id, FALSE) \/ Runs(request[q].id, TRUE)
             \/ UNCHANGED <<running, revived>>
      BY <2>5 DEF ConfigureStops, ConfigureStarts, Starts, Stops, TypeOK
    <3> QED BY <1>2, <2>2, <2>3, <3>1
  <2>6. ASSUME NEW id \in Ids, Falls(id) \/ ComesBack(id) \/ PluginStops(id) PROVE Stopping'
    <3>1. /\ UNCHANGED <<phase, toStop>> /\ CoreRuns
          /\ Runs(id, FALSE) \/ Runs(id, TRUE) \/ UNCHANGED <<running, revived>>
      BY <2>6 DEF Falls, ComesBack, PluginStops, Starts, Stops
    <3> QED BY <1>2, <2>2, <2>3, <3>1
  <2>7. CASE Drain \/ Close
    <3>1. /\ toStop = {} /\ toStop' = {} /\ phase' \in {"draining", "closed"}
          /\ UNCHANGED <<running, revived>>
      BY <2>7 DEF Drain, Close, Stopping, fleet, aux
    <3> QED BY <2>3, <3>1
  <2>8. \/ \E id \in Ids : ShutdownStops(id)
        \/ \E q \in Requests : ConfigureStops(q) \/ ConfigureStarts(q)
        \/ \E id \in Ids : Falls(id) \/ ComesBack(id) \/ PluginStops(id)
        \/ Drain \/ Close
        \/ UNCHANGED <<running, revived, phase, toStop>>
    BY <1>2 DEF Next, LoadEntry, LoadBreaks, LoadStart, Booted, LoadCapability, Configure,
       ConfigureChecks, ConfigureStartBreaks, Answer, WatchBlocks, WatchLeaves, WatchFails, WatchPasses, WatchTick,
       BeginShutdown, fleet, aux
  <2> QED BY <1>2, <2>3, <2>4, <2>5, <2>6, <2>7, <2>8
<1> QED BY <1>1, <1>2 DEF TypeOK

\* A request that nobody disturbs finds its plugin as it left it.
LEMMA EffectKept ==
  ASSUME BoardInv, NEW id \in Ids \cup {NoId}, NEW by,
         request' = Disturbed(id, by), by \notin Requests,
         registered \subseteq registered', registered' \subseteq registered \cup {id},
         \A p \in Ids \ {id} : running'[p] = running[p]
  PROVE  Asked' /\ ConfigureTakesEffect'
<1> USE DEF BoardInv
<1>1. Asked'
  BY DisturbedType DEF Asked
<1>2. ASSUME NEW q \in Requests, request'[q].at = "answer", request'[q].alone,
             request'[q].id \in registered'
      PROVE  running'[request'[q].id] = request'[q].on
  <2>1. /\ request[q].at = "answer" /\ request[q].alone /\ request[q].id # id
        /\ request'[q].id = request[q].id /\ request'[q].on = request[q].on
    BY <1>2, DisturbedType
  <2>2. request[q].id \in Ids
    BY <2>1 DEF TypeOK
  <2> QED BY <1>2, <2>1, <2>2 DEF ConfigureTakesEffect
<1> QED BY <1>1, <1>2 DEF ConfigureTakesEffect

\* Steps of request q itself, which may change its plugin and no other.
LEMMA EffectOwn ==
  ASSUME BoardInv, NEW q \in Requests, request[q].id \in Ids,
         UNCHANGED registered,
         \A p \in Ids \ {request[q].id} : running'[p] = running[p],
         \A o \in Requests \ {q} :
            /\ request'[o].at = request[o].at /\ request'[o].id = request[o].id
            /\ request'[o].on = request[o].on
            /\ request'[o].alone => /\ request[o].alone
                                    /\ \/ request[o].id # request[q].id
                                       \/ UNCHANGED running,
         request'[q].at \in {"check", "restop", "start"} => request'[q].on,
         request'[q].at = "stop" => ~request'[q].on,
         request'[q].at = "answer" /\ request'[q].alone /\ request'[q].id \in registered
           => running'[request'[q].id] = request'[q].on
  PROVE  Asked' /\ ConfigureTakesEffect'
<1> USE DEF BoardInv
<1>1. Asked'
  BY DEF Asked
<1>2. ASSUME NEW o \in Requests, request'[o].at = "answer", request'[o].alone,
             request'[o].id \in registered'
      PROVE  running'[request'[o].id] = request'[o].on
  <2>1. CASE o = q
    BY <1>2, <2>1
  <2>2. CASE o # q
    <3>1. request[o].id \in Ids
      BY <1>2, <2>2 DEF TypeOK
    <3> QED BY <1>2, <2>2, <3>1 DEF ConfigureTakesEffect
  <2> QED BY <2>1, <2>2
<1> QED BY <1>1, <1>2 DEF ConfigureTakesEffect

LEMMA EffectStep ==
  ASSUME BoardInv, Next
  PROVE  Asked' /\ ConfigureTakesEffect'
<1> USE DEF BoardInv
<1>0. NoId \notin Requests /\ NoId \notin Ids
  BY IdsAssumption
<1>1. CASE UNCHANGED <<request, running, registered>>
  BY <1>1 DEF Asked, ConfigureTakesEffect
<1>2. ASSUME NEW id \in Ids, UNCHANGED registered, request' = Disturbed(id, NoId),
             Runs(id, TRUE) \/ Runs(id, FALSE)
      PROVE  Asked' /\ ConfigureTakesEffect'
  <2>1. \A p \in Ids \ {id} : running'[p] = running[p]
    BY <1>2 DEF Runs, TypeOK
  <2> QED BY <1>0, <1>2, <2>1, EffectKept
<1>3. CASE LoadEntry
  <2>1. CASE UNCHANGED <<request, registered>>
    BY <1>1, <1>3, <2>1 DEF LoadEntry
  <2>2. CASE /\ registered' = registered \cup {Entry.id} /\ request' = Disturbed(Entry.id, NoId)
             /\ UNCHANGED running
    <3>1. Entry.id \in Ids
      BY <1>3, EntryType DEF LoadEntry, TypeOK, Entry
    <3> QED BY <1>0, <2>2, <3>1, EffectKept
  <2> QED BY <1>3, <2>1, <2>2 DEF LoadEntry
<1>4. CASE LoadStart
  <2>1. Entry.id \in Ids
    BY <1>4, EntryType DEF LoadStart, TypeOK, Entry
  <2> QED BY <1>1, <1>2, <1>4, <2>1 DEF LoadStart, Starts
<1>5. ASSUME NEW id \in Ids, Falls(id) \/ ComesBack(id) \/ PluginStops(id) \/ ShutdownStops(id)
      PROVE  Asked' /\ ConfigureTakesEffect'
  <2>1. ASSUME Falls(id), ~running[id] PROVE UNCHANGED <<request, running, registered>>
    BY <2>1 DEF Falls, Runs, TypeOK
  <2> QED BY <1>1, <1>2, <1>5, <2>1
          DEF Falls, ComesBack, PluginStops, ShutdownStops, Starts, Stops
<1>6. ASSUME NEW q \in Requests, NEW id \in Ids, NEW on \in BOOLEAN, Configure(q, id, on)
      PROVE  Asked' /\ ConfigureTakesEffect'
  <2>1. /\ request'[q] = [at |-> IF on THEN "check" ELSE "stop", id |-> id, on |-> on,
                          alone |-> TRUE]
        /\ \A o \in Requests \ {q} : request'[o] = request[o]
        /\ UNCHANGED <<running, registered>>
    BY <1>6 DEF Configure, TypeOK, fleet
  <2> QED BY <2>1 DEF Asked, ConfigureTakesEffect
<1>7. ASSUME NEW q \in Requests, ConfigureChecks(q)
      PROVE  Asked' /\ ConfigureTakesEffect'
  <2>1. /\ request'[q].at \in {"restop", "start"} /\ request'[q].on = request[q].on
        /\ \A o \in Requests \ {q} : request'[o] = request[o]
        /\ UNCHANGED <<running, registered>> /\ request[q].at = "check"
    BY <1>7 DEF ConfigureChecks, TypeOK, fleet
  <2> QED BY <2>1 DEF Asked, ConfigureTakesEffect
<1>8. ASSUME NEW q \in Requests, ConfigureStartBreaks(q) \/ Answer(q)
      PROVE  Asked' /\ ConfigureTakesEffect'
  <2>1. /\ request'[q].at \in {"answer", "idle"} /\ ~request'[q].alone
        /\ \A o \in Requests \ {q} : request'[o] = request[o]
        /\ UNCHANGED <<running, registered>>
    BY <1>8 DEF ConfigureStartBreaks, Answer, Idle, TypeOK, fleet
  <2> QED BY <2>1 DEF Asked, ConfigureTakesEffect
<1>9. ASSUME NEW q \in Requests, ConfigureStops(q)
      PROVE  Asked' /\ ConfigureTakesEffect'
  <2> DEFINE id == request[q].id
             base == IF running[id] THEN Disturbed(id, q) ELSE request
  <2>1. /\ id \in Ids /\ UNCHANGED registered
        /\ request' = [base EXCEPT ![q].at = IF @ = "restop" THEN "start" ELSE "answer"]
        /\ request[q].at \in {"restop", "stop"}
        /\ IF running[id] THEN Runs(id, FALSE) ELSE UNCHANGED running
    BY <1>9 DEF ConfigureStops, Stops, TypeOK
  <2>2. running'[id] = FALSE /\ \A p \in Ids \ {id} : running'[p] = running[p]
    BY <2>1 DEF Runs, TypeOK
  <2>3. /\ base \in [Requests ->
                 [at : {"idle", "check", "restop", "start", "stop", "answer"},
                  id : Ids \cup {NoId}, on : BOOLEAN, alone : BOOLEAN]]
        /\ \A o \in Requests : /\ base[o].at = request[o].at /\ base[o].id = request[o].id
                               /\ base[o].on = request[o].on
                               /\ base[o].alone => request[o].alone
                               /\ base[o].alone /\ o # q /\ running[id] => request[o].id # id
    BY DisturbedType DEF TypeOK
  <2>4. /\ \A o \in Requests \ {q} : request'[o] = base[o]
        /\ request'[q].at = IF request[q].at = "restop" THEN "start" ELSE "answer"
        /\ request'[q].id = id /\ request'[q].on = request[q].on
    BY <2>1, <2>3
  <2>5. running[id] \/ UNCHANGED running
    BY <2>1
  <2> HIDE DEF id, base
  <2>6. /\ request'[q].at \in {"check", "restop", "start"} => request'[q].on
        /\ request'[q].at = "answer" => ~request'[q].on
        /\ request'[q].at # "stop"
    BY <2>1, <2>4 DEF Asked
  <2>7. request'[q].on \in BOOLEAN
    BY <2>4 DEF TypeOK
  <2>8. \A o \in Requests \ {q} :
           /\ request'[o].at = request[o].at /\ request'[o].id = request[o].id
           /\ request'[o].on = request[o].on
           /\ request'[o].alone => request[o].alone /\ (request[o].id # id \/ UNCHANGED running)
    BY <2>3, <2>4, <2>5
  <2>9. request'[q].at = "answer" /\ request'[q].alone /\ request'[q].id \in registered
          => running'[request'[q].id] = request'[q].on
    BY <2>2, <2>4, <2>6, <2>7
  <2>10. id \in Ids /\ UNCHANGED registered
    BY <2>1
  <2> USE DEF id
  <2> QED BY <2>2, <2>6, <2>8, <2>9, <2>10, EffectOwn
<1>10. ASSUME NEW q \in Requests, ConfigureStarts(q)
       PROVE  Asked' /\ ConfigureTakesEffect'
  <2> DEFINE id == request[q].id
  <2>1. id \in Ids /\ UNCHANGED registered /\ request[q].at = "start"
    BY <1>10 DEF ConfigureStarts, TypeOK
  <2>2. request[q].on
    BY <2>1 DEF Asked
  <2>3. CASE id \in registered /\ ~running[id]
    <3>1. Runs(id, TRUE) /\ request' = [Disturbed(id, q) EXCEPT ![q].at = "answer"]
      BY <1>10, <2>3 DEF ConfigureStarts, Starts
    <3>2. running'[id] = TRUE /\ \A p \in Ids \ {id} : running'[p] = running[p]
      BY <2>1, <3>1 DEF Runs, TypeOK
    <3>3. /\ \A o \in Requests \ {q} : request'[o] = Disturbed(id, q)[o]
          /\ request'[q].at = "answer" /\ request'[q].id = id
          /\ request'[q].on = request[q].on
      BY <3>1, DisturbedType
    <3>4. \A o \in Requests \ {q} :
            /\ request'[o].at = request[o].at /\ request'[o].id = request[o].id
            /\ request'[o].on = request[o].on
            /\ request'[o].alone => request[o].alone /\ request[o].id # id
      BY <3>3, DisturbedType
    <3>5. request[q].on = TRUE
      BY <2>2 DEF TypeOK
    <3>6. running'[request'[q].id] = request'[q].on
      BY <3>2, <3>3, <3>5
    <3> QED BY <2>1, <2>2, <3>2, <3>3, <3>4, <3>6, EffectOwn
  <2>4. CASE ~(id \in registered /\ ~running[id])
    <3>1. UNCHANGED running /\ request' = [request EXCEPT ![q].at = "answer"]
      BY <1>10, <2>4 DEF ConfigureStarts
    <3>2. /\ \A o \in Requests \ {q} : request'[o] = request[o]
          /\ request'[q].at = "answer" /\ request'[q].id = id
          /\ request'[q].on = request[q].on
      BY <3>1 DEF TypeOK
    <3>3. id \in registered => running[id] = request[q].on
      BY <2>1, <2>2, <2>4 DEF TypeOK
    <3> QED BY <2>1, <2>2, <3>1, <3>2, <3>3, EffectOwn
  <2> QED BY <2>3, <2>4
<1>11. \/ LoadEntry \/ LoadStart
       \/ \E id \in Ids : Falls(id) \/ ComesBack(id) \/ PluginStops(id) \/ ShutdownStops(id)
       \/ \E q \in Requests, id \in Ids, on \in BOOLEAN : Configure(q, id, on)
       \/ \E q \in Requests : \/ ConfigureChecks(q) \/ ConfigureStartBreaks(q) \/ Answer(q)
                              \/ ConfigureStops(q) \/ ConfigureStarts(q)
       \/ UNCHANGED <<request, running, registered>>
  BY DEF Next, LoadBreaks, Booted, LoadCapability, WatchBlocks, WatchLeaves, WatchFails, WatchPasses, WatchTick,
     BeginShutdown, Drain, Close, fleet
<1> QED BY <1>1, <1>3, <1>4, <1>5, <1>6, <1>7, <1>8, <1>9, <1>10, <1>11

LEMMA TypeStep ==
  ASSUME BoardInv, Next
  PROVE  TypeOK'
<1> USE DEF BoardInv
<1> DEFINE Askers == [Requests -> [at : {"idle", "check", "restop", "start", "stop", "answer"},
                                   id : Ids \cup {NoId}, on : BOOLEAN, alone : BOOLEAN]]
           Sound(r) == r \in Askers /\ \A q \in Requests : r[q].at # "idle" => r[q].id \in Ids
           Loaders == [entry : Nat \ {0}, at : {"entry", "start", "caps"}, caps : SUBSET Caps]
<1>1. Sound(request) /\ \A id, by : Sound(Disturbed(id, by))
  <2>1. Sound(request)
    BY DEF TypeOK
  <2>2. ASSUME NEW id, NEW by PROVE Sound(Disturbed(id, by))
    BY <2>1, DisturbedType
  <2> QED BY <2>1, <2>2
<1>2. ASSUME NEW r, Sound(r), NEW q \in Requests, r[q].at # "idle",
             NEW at \in {"check", "restop", "start", "stop", "answer"}
      PROVE  Sound([r EXCEPT ![q].at = at])
  <2>1. [r EXCEPT ![q].at = at] \in Askers
    BY <1>2
  <2> QED BY <1>2, <2>1
<1> HIDE DEF Sound
<1>3. Sound(request')
  <2>1. CASE \/ UNCHANGED request \/ \E id, by : request' = Disturbed(id, by)
    BY <1>1, <2>1
  <2>2. ASSUME NEW q \in Requests, NEW id \in Ids, NEW on \in BOOLEAN, Configure(q, id, on)
        PROVE  Sound(request')
    <3>1. request' = [request EXCEPT ![q] = [at |-> IF on THEN "check" ELSE "stop",
                                             id |-> id, on |-> on, alone |-> TRUE]]
      BY <2>2 DEF Configure
    <3> QED BY <1>1, <3>1 DEF Sound
  <2>3. ASSUME NEW q \in Requests, ConfigureChecks(q) \/ ConfigureStops(q) PROVE Sound(request')
    <3>1. request[q].at # "idle"
      BY <2>3 DEF ConfigureChecks, ConfigureStops
    <3>2. \E at \in {"restop", "start", "answer"} :
            \/ request' = [request EXCEPT ![q].at = at]
            \/ request' = [Disturbed(request[q].id, q) EXCEPT ![q].at = at]
      <4>1. CASE ConfigureChecks(q)
        BY <4>1 DEF ConfigureChecks
      <4>2. CASE ConfigureStops(q)
        <5>1. CASE running[request[q].id]
          BY <4>2, <5>1 DEF ConfigureStops
        <5>2. CASE ~running[request[q].id]
          BY <4>2, <5>2 DEF ConfigureStops
        <5> QED BY <5>1, <5>2
      <4> QED BY <2>3, <4>1, <4>2
    <3>3. Disturbed(request[q].id, q)[q].at # "idle"
      BY <3>1, DisturbedType
    <3>4. Sound(Disturbed(request[q].id, q))
      BY <1>1
    <3>5. PICK at \in {"restop", "start", "answer"} :
            \/ request' = [request EXCEPT ![q].at = at]
            \/ request' = [Disturbed(request[q].id, q) EXCEPT ![q].at = at]
      BY <3>2
    <3>6. Sound([request EXCEPT ![q].at = at])
      BY <1>1, <1>2, <3>1
    <3>7. Sound([Disturbed(request[q].id, q) EXCEPT ![q].at = at])
      BY <1>2, <3>3, <3>4
    <3> QED BY <3>5, <3>6, <3>7
  <2>4. ASSUME NEW q \in Requests, ConfigureStarts(q) PROVE Sound(request')
    <3>1. request[q].at # "idle"
      BY <2>4 DEF ConfigureStarts
    <3>2. \/ request' = [request EXCEPT ![q].at = "answer"]
          \/ request' = [Disturbed(request[q].id, q) EXCEPT ![q].at = "answer"]
      BY <2>4 DEF ConfigureStarts
    <3>3. Disturbed(request[q].id, q)[q].at # "idle"
      BY <3>1, DisturbedType
    <3>4. Sound(Disturbed(request[q].id, q))
      BY <1>1
    <3>5. Sound([request EXCEPT ![q].at = "answer"])
      BY <1>1, <1>2, <3>1
    <3>6. Sound([Disturbed(request[q].id, q) EXCEPT ![q].at = "answer"])
      BY <1>2, <3>3, <3>4
    <3> QED BY <3>2, <3>5, <3>6
  <2>5. ASSUME NEW q \in Requests, ConfigureStartBreaks(q) PROVE Sound(request')
    <3>1. request' = [request EXCEPT ![q].at = "answer", ![q].alone = FALSE]
      BY <2>5 DEF ConfigureStartBreaks
    <3>2. request[q].id \in Ids
      BY <2>5 DEF ConfigureStartBreaks, TypeOK
    <3>3. /\ request'[q].at = "answer" /\ request'[q].id = request[q].id
          /\ \A o \in Requests \ {q} : request'[o] = request[o]
      BY <1>1, <3>1 DEF Sound
    <3>4. request' \in Askers
      <4> DEFINE asker == [request[q] EXCEPT !.at = "answer", !.alone = FALSE]
      <4>1. request[q] \in [at : {"idle", "check", "restop", "start", "stop", "answer"},
                            id : Ids \cup {NoId}, on : BOOLEAN, alone : BOOLEAN]
        BY <1>1 DEF Sound
      <4>2. asker \in [at : {"idle", "check", "restop", "start", "stop", "answer"},
                       id : Ids \cup {NoId}, on : BOOLEAN, alone : BOOLEAN]
        BY <4>1
      <4>3. request' = [request EXCEPT ![q] = asker]
        BY <3>1
      <4> HIDE DEF asker
      <4> QED BY <1>1, <4>2, <4>3 DEF Sound
    <3> QED BY <1>1, <3>2, <3>3, <3>4 DEF Sound
  <2>6. ASSUME NEW q \in Requests, Answer(q) PROVE Sound(request')
    <3>1. request' = [request EXCEPT ![q] = Idle]
      BY <2>6 DEF Answer
    <3> QED BY <1>1, <3>1 DEF Sound, Idle
  <2>7. \/ UNCHANGED request \/ (\E id, by : request' = Disturbed(id, by))
        \/ \E q \in Requests, id \in Ids, on \in BOOLEAN : Configure(q, id, on)
        \/ \E q \in Requests : \/ ConfigureChecks(q) \/ ConfigureStops(q)
                               \/ ConfigureStarts(q) \/ ConfigureStartBreaks(q) \/ Answer(q)
    BY DEF Next, LoadEntry, LoadStart, Falls, ComesBack, PluginStops, ShutdownStops,
       LoadBreaks, Booted, LoadCapability, WatchBlocks, WatchLeaves, WatchFails, WatchPasses, WatchTick,
       BeginShutdown, Drain, Close
  <2> QED BY <2>1, <2>2, <2>3, <2>4, <2>5, <2>6, <2>7
<1>4. /\ loader' \in Loaders
      /\ loader'.at # "entry" => loader'.entry \in DOMAIN board'
      /\ registered' \in SUBSET Ids /\ route' \in [Caps -> Ids \cup {NoId}]
  <2>1. CASE UNCHANGED <<loader, registered, route>>
    BY <2>1, BoardKept DEF TypeOK
  <2>2. CASE LoadEntry
    <3>1. loader.entry \in DOMAIN board
      BY <2>2 DEF LoadEntry, TypeOK
    <3>2. Entry.id \in Ids
      BY <3>1, EntryType DEF Entry
    <3>3. [loader EXCEPT !.at = "start"] \in Loaders /\ [loader EXCEPT !.at = "start"].entry = loader.entry
      BY DEF TypeOK
    <3>4. After({}) \in Loaders /\ After({}).at = "entry"
      BY <3>1, AfterType
    <3>5. /\ UNCHANGED route
          /\ registered' \in {registered, registered \cup {Entry.id}}
          /\ loader' \in {loader, After({}), [loader EXCEPT !.at = "start"]}
      BY <2>2 DEF LoadEntry
    <3> QED BY <3>1, <3>2, <3>3, <3>4, <3>5, BoardKept DEF TypeOK
  <2>3. CASE LoadStart
    <3>1. loader.entry \in DOMAIN board
      BY <2>3 DEF LoadStart, TypeOK
    <3>2. Entry.caps \in SUBSET Caps
      BY <3>1, EntryType DEF Entry
    <3>3. UNCHANGED <<registered, route>> /\ loader' \in {loader, After(Entry.caps)}
      BY <2>3 DEF LoadStart
    <3>4. loader' \in Loaders /\ (loader'.at # "entry" => loader'.entry = loader.entry)
      BY <3>1, <3>2, <3>3, LoaderGoesOn
    <3> QED BY <3>1, <3>3, <3>4, BoardKept DEF TypeOK
  <2>4. ASSUME NEW c \in Caps, LoadCapability(c)
        PROVE  /\ loader' \in Loaders
               /\ loader'.at # "entry" => loader'.entry \in DOMAIN board'
               /\ registered' \in SUBSET Ids /\ route' \in [Caps -> Ids \cup {NoId}]
    <3>1. loader.entry \in DOMAIN board /\ loader.caps \ {c} \in SUBSET Caps
      BY <2>4 DEF LoadCapability, TypeOK
    <3>2. Entry.id \in Ids
      BY <3>1, EntryType DEF Entry
    <3>3. /\ UNCHANGED registered /\ loader' \in {loader, After(loader.caps \ {c})}
          /\ route' \in {route, [route EXCEPT ![c] = Entry.id]}
      BY <2>4 DEF LoadCapability, fleet
    <3>4. loader' \in Loaders /\ (loader'.at # "entry" => loader'.entry = loader.entry)
      BY <3>1, <3>3, LoaderGoesOn
    <3>5. registered' \in SUBSET Ids /\ route' \in [Caps -> Ids \cup {NoId}]
      BY <3>2, <3>3 DEF TypeOK
    <3> QED BY <3>1, <3>4, <3>5, BoardKept
  <2> QED BY <2>1, <2>2, <2>3, <2>4, LoadMoves
<1>5. /\ running' \in [Ids -> BOOLEAN] /\ revived' \in SUBSET Ids
      /\ watched' \in [Ids -> BOOLEAN] /\ back' \in [Ids -> BOOLEAN]
  <2>1. ASSUME NEW id \in Ids, NEW value \in BOOLEAN, Runs(id, value)
        PROVE  running' \in [Ids -> BOOLEAN] /\ revived' \in SUBSET Ids
    BY <2>1 DEF Runs, TypeOK
  <2>2. \/ UNCHANGED <<running, revived>>
        \/ \E id \in Ids, value \in BOOLEAN : Runs(id, value)
    <3>1. ASSUME NEW q \in Requests, ConfigureStops(q) \/ ConfigureStarts(q)
          PROVE  \/ UNCHANGED <<running, revived>>
                 \/ \E id \in Ids, value \in BOOLEAN : Runs(id, value)
      <4>1. request[q].id \in Ids
        BY <3>1 DEF ConfigureStops, ConfigureStarts, TypeOK
      <4> QED BY <3>1, <4>1 DEF ConfigureStops, ConfigureStarts, Starts, Stops
    <3>2. CASE LoadStart
      <4>1. Entry.id \in Ids
        BY <3>2, EntryType DEF LoadStart, TypeOK, Entry
      <4> QED BY <3>2, <4>1 DEF LoadStart, Starts
    <3>3. ASSUME NEW id \in Ids, Falls(id) \/ ComesBack(id) \/ PluginStops(id) \/ ShutdownStops(id)
          PROVE  \/ UNCHANGED <<running, revived>>
                 \/ \E value \in BOOLEAN : Runs(id, value)
      BY <3>3 DEF Falls, ComesBack, PluginStops, ShutdownStops, Starts, Stops
    <3>4. \/ \E q \in Requests : ConfigureStops(q) \/ ConfigureStarts(q)
          \/ LoadStart
          \/ \E id \in Ids : Falls(id) \/ ComesBack(id) \/ PluginStops(id) \/ ShutdownStops(id)
          \/ UNCHANGED <<running, revived>>
      BY DEF Next, LoadEntry, LoadBreaks, Booted, LoadCapability, Configure, ConfigureChecks,
         ConfigureStartBreaks, Answer, WatchBlocks, WatchLeaves, WatchFails, WatchPasses, WatchTick, BeginShutdown,
         Drain, Close, fleet, aux
    <3> QED BY <3>1, <3>2, <3>3, <3>4
  <2>3. \/ UNCHANGED back
        \/ \E id \in Ids, value \in BOOLEAN : back' = [back EXCEPT ![id] = value]
    BY DEF Next, LoadEntry, LoadBreaks, LoadStart, Booted, LoadCapability, Configure,
       ConfigureChecks, ConfigureStops, ConfigureStarts, ConfigureStartBreaks, Answer, Falls,
       ComesBack, PluginStops, WatchBlocks, WatchLeaves, WatchFails, WatchPasses, ShutdownStops, WatchTick,
       BeginShutdown, Drain, Close, fleet
  <2>4. \/ UNCHANGED watched
        \/ \E id : \E value \in BOOLEAN : watched' = [watched EXCEPT ![id] = value]
    BY DEF Next, LoadEntry, LoadBreaks, LoadStart, Booted, LoadCapability, Configure,
       ConfigureChecks, ConfigureStops, ConfigureStarts, ConfigureStartBreaks, Answer, Falls,
       ComesBack, PluginStops, WatchBlocks, WatchLeaves, WatchFails, WatchPasses, ShutdownStops, WatchTick,
       BeginShutdown, Drain, Close, Starts, Stops, fleet
  <2>5. watched' \in [Ids -> BOOLEAN] /\ back' \in [Ids -> BOOLEAN]
    BY <2>3, <2>4 DEF TypeOK
  <2> QED BY <2>1, <2>2, <2>5 DEF TypeOK
<1>6. /\ todo' \in SUBSET Ids /\ failures' \in [Ids -> 0..(MaxFailures - 1)]
      /\ report' \in Ids \cup {NoId} /\ stuck' \in todo' \cup {NoId}
  <2>0. MaxFailures \in Nat \ {0}
    BY HealthAssumption
  <2>1. ASSUME NEW id \in Ids, WatchLeaves(id)
        PROVE  todo' \in SUBSET Ids /\ stuck' \in todo' \cup {NoId}
    BY <2>1 DEF WatchLeaves, TypeOK
  <2>2. ASSUME NEW id \in Ids, WatchFails(id)
        PROVE  failures' \in [Ids -> 0..(MaxFailures - 1)] /\ report' \in Ids \cup {NoId}
    <3>1. failures[id] \in 0..(MaxFailures - 1)
      BY DEF TypeOK
    <3>2. CASE failures[id] + 1 >= MaxFailures
      <4>1. 0 \in 0..(MaxFailures - 1)
        BY <2>0
      <4>2. failures' = [failures EXCEPT ![id] = 0] /\ report' = id
        BY <2>2, <3>2 DEF WatchFails
      <4> QED BY <4>1, <4>2 DEF TypeOK
    <3>3. CASE ~(failures[id] + 1 >= MaxFailures)
      <4>1. failures[id] + 1 \in 0..(MaxFailures - 1)
        BY <2>0, <3>1, <3>3
      <4> QED BY <2>2, <3>3, <4>1 DEF WatchFails, TypeOK
    <3> QED BY <3>2, <3>3
  <2>3. ASSUME NEW id \in Ids, WatchPasses(id)
        PROVE  failures' \in [Ids -> 0..(MaxFailures - 1)] /\ report' \in Ids \cup {NoId}
    <3>1. 0 \in 0..(MaxFailures - 1)
      BY <2>0
    <3> QED BY <2>3, <3>1 DEF WatchPasses, TypeOK
  <2>4. CASE WatchTick
    BY <2>4 DEF WatchTick, TypeOK
  <2>5. ASSUME NEW id \in Ids, WatchBlocks(id)
        PROVE  /\ UNCHANGED <<todo, failures, report>> /\ stuck' \in todo
    BY <2>5 DEF WatchBlocks
  <2>6. CASE UNCHANGED watch
    BY <2>6 DEF watch, TypeOK
  <2>7. \/ WatchTick \/ UNCHANGED watch
        \/ \E id \in Ids : WatchBlocks(id) \/ WatchFails(id) \/ WatchPasses(id)
    BY DEF Next, LoadEntry, LoadBreaks, LoadStart, Booted, LoadCapability, Configure,
       ConfigureChecks, ConfigureStops, ConfigureStarts, ConfigureStartBreaks, Answer, Falls,
       ComesBack, PluginStops, ShutdownStops, BeginShutdown, Drain, Close
  <2>8. \A id \in Ids : WatchFails(id) \/ WatchPasses(id) => WatchLeaves(id)
    BY DEF WatchFails, WatchPasses
  <2> QED BY <2>1, <2>2, <2>3, <2>4, <2>5, <2>6, <2>7, <2>8 DEF TypeOK
<1>7. /\ phase' \in {"booting", "serving", "stopping", "draining", "closed", "failed"}
      /\ excuse' \in BOOLEAN
  <2>1. phase' \in {phase, "serving", "stopping", "draining", "closed", "failed"}
    BY DEF Next, LoadEntry, LoadBreaks, LoadStart, Booted, LoadCapability, Configure,
       ConfigureChecks, ConfigureStops, ConfigureStarts, ConfigureStartBreaks, Answer, Falls,
       ComesBack, PluginStops, WatchBlocks, WatchLeaves, WatchFails, WatchPasses, ShutdownStops, WatchTick,
       BeginShutdown, Drain, Close
  <2>2. ASSUME NEW q \in Requests, ConfigureStarts(q) PROVE excuse' \in BOOLEAN
    <3>1. (excuse \/ (phase = "booting" /\ loader.at = "start" /\ Entry.id = request[q].id))
            \in BOOLEAN
      BY Zenon
    <3> QED BY <2>2, <3>1 DEF ConfigureStarts, TypeOK
  <2>3. CASE LoadBreaks
    BY <2>3 DEF LoadBreaks
  <2>4. \/ UNCHANGED excuse \/ LoadBreaks \/ \E q \in Requests : ConfigureStarts(q)
    BY DEF Next, LoadEntry, LoadStart, Booted, LoadCapability, Configure,
       ConfigureChecks, ConfigureStops, ConfigureStartBreaks, Answer, Falls,
       ComesBack, PluginStops, WatchBlocks, WatchLeaves, WatchFails, WatchPasses, ShutdownStops, WatchTick,
       BeginShutdown, Drain, Close, aux
  <2> QED BY <2>1, <2>2, <2>3, <2>4 DEF TypeOK
<1>8. toStop' \in SUBSET Ids
  BY DEF TypeOK, Next, LoadEntry, LoadBreaks, LoadStart, Booted, LoadCapability, Configure,
     ConfigureChecks, ConfigureStops, ConfigureStarts, ConfigureStartBreaks, Answer, Falls,
     ComesBack, PluginStops, WatchBlocks, WatchLeaves, WatchFails, WatchPasses, ShutdownStops, WatchTick,
     BeginShutdown, Drain, Close
<1> QED BY <1>3, <1>4, <1>5, <1>6, <1>7, <1>8, BoardKept DEF TypeOK, Sound

LEMMA InitBoard == Init => BoardInv
<1> SUFFICES ASSUME Init PROVE BoardInv
  OBVIOUS
<1>1. board \in Seq(Entries)
  BY BoardsAssumption DEF Init
<1>2. TypeOK
  <2>1. loader \in [entry : Nat \ {0}, at : {"entry", "start", "caps"}, caps : SUBSET Caps]
        /\ loader.at = "entry"
    BY DEF Init
  <2>2. /\ \A q \in Requests : request[q].at = "idle"
        /\ request \in [Requests -> [at : {"idle", "check", "restop", "start", "stop", "answer"},
                                     id : Ids \cup {NoId}, on : BOOLEAN, alone : BOOLEAN]]
    BY DEF Init, Idle
  <2>3. failures \in [Ids -> 0..(MaxFailures - 1)]
    BY HealthAssumption DEF Init
  <2>4. /\ wanted \subseteq DOMAIN board /\ excuse \in BOOLEAN /\ revived \in SUBSET Ids
        /\ running \in [Ids -> BOOLEAN] /\ watched \in [Ids -> BOOLEAN]
        /\ back \in [Ids -> BOOLEAN]
        /\ route \in [Caps -> Ids \cup {NoId}]
    BY DEF Init
  <2> QED BY <1>1, <2>1, <2>2, <2>3, <2>4 DEF Init, TypeOK
<1>3. Loaded /\ Loading /\ Alive
  BY DEF Init, Loaded, Loading, Alive, Started
<1>4. Asked /\ Stopping /\ BootFailsForCause /\ ConfigureTakesEffect
  BY DEF Init, Asked, Stopping, BootFailsForCause, ConfigureTakesEffect, Idle
<1> QED BY <1>2, <1>3, <1>4 DEF BoardInv

\* The invariant holds in every reachable state, for every list of plugins.
THEOREM BoardInduction == Spec => []BoardInv
<1>1. BoardInv /\ [Next]_vars => BoardInv'
  <2> SUFFICES ASSUME BoardInv, [Next]_vars PROVE BoardInv'
    OBVIOUS
  <2>1. CASE Next
    BY <2>1, TypeStep, LoadedStep, LoadingStep, AliveStep, EffectStep, StoppingStep, CauseStep
       DEF BoardInv
  <2>2. CASE UNCHANGED vars
    BY <2>2 DEF vars, fleet, watch, aux, BoardInv, TypeOK, Loaded, Loading, Alive, Started,
       Asked, Stopping, BootFailsForCause, ConfigureTakesEffect, Done, Entry, Clash
  <2> QED BY <2>1, <2>2
<1> QED BY <1>1, InitBoard, PTL DEF Spec

\* All variables keep their types: loadPlugins stays inside its list, the failures in
\* a row below their limit.
THEOREM BoardTyping == Spec => []TypeOK
<1>1. BoardInv => TypeOK
  BY DEF BoardInv
<1> QED BY <1>1, BoardInduction, PTL

\* A name without dots is what its action's type is split at.
LEMMA SplitUndotted ==
  ASSUME NEW id \in Names, NEW c \in Names
  PROVE  Len(id) = 1 => /\ Plugin(ActionType(id, c)) = id
                        /\ Capability(ActionType(id, c)) = c
<1> SUFFICES ASSUME Len(id) = 1
             PROVE  /\ Plugin(ActionType(id, c)) = id
                    /\ Capability(ActionType(id, c)) = c
  OBVIOUS
<1> DEFINE type == ActionType(id, c)
<1>1. /\ id \in Seq(Segments) /\ c \in Seq(Segments) /\ Len(id) = 1
      /\ Len(id) \in Nat /\ Len(c) \in Nat
  BY DEF Names
<1>2. /\ type \in Seq(Segments) /\ Len(type) = 1 + Len(c)
      /\ \A i \in 1..(1 + Len(c)) : type[i] = IF i <= 1 THEN id[i] ELSE c[i - 1]
  <2>1. /\ id \o c \in Seq(Segments) /\ Len(id \o c) = Len(id) + Len(c)
        /\ \A i \in 1..(Len(id) + Len(c)) : (id \o c)[i] = IF i <= Len(id) THEN id[i]
                                                          ELSE c[i - Len(id)]
    BY <1>1, ConcatProperties
  <2> QED BY <1>1, <2>1 DEF ActionType
<1> HIDE DEF type
<1>3. type # <<>> /\ Head(type) = type[1]
  BY <1>1, <1>2
<1>4. Plugin(type) = id
  <2>1. type[1] = id[1]
    BY <1>1, <1>2
  <2>2. id = <<id[1]>>
    <3>1. id[1] \in Segments
      BY <1>1
    <3>2. <<id[1]>> \in Seq(Segments) /\ Len(<<id[1]>>) = 1 /\ <<id[1]>>[1] = id[1]
      BY <3>1
    <3>3. \A i \in 1..Len(id) : id[i] = <<id[1]>>[i]
      BY <1>1, <3>2
    <3> QED BY <1>1, <3>2, <3>3, SeqEqual
  <2> QED BY <1>3, <2>1, <2>2 DEF Plugin
<1>5. Capability(type) = c
  <2>1. /\ Tail(type) \in Seq(Segments) /\ Len(Tail(type)) = Len(c)
        /\ \A i \in 1..Len(c) : Tail(type)[i] = type[i + 1]
    BY <1>1, <1>2, <1>3, HeadTailProperties
  <2>2. \A i \in 1..Len(c) : Tail(type)[i] = c[i]
    BY <1>1, <1>2, <2>1
  <2> QED BY <1>1, <2>1, <2>2, SeqEqual DEF Capability
<1> QED BY <1>4, <1>5 DEF type

\* Whatever plugins are configured and whatever dots their names have, what an action
\* reaches is registered and declares the capability; after the boot every capability
\* of a loaded plugin with an undotted id is reached.
THEOREM RoutingIsRight == Spec => []RoutedToOwner
<1>1. BoardInv => RoutedToOwner
  <2> SUFFICES ASSUME BoardInv PROVE RoutedToOwner
    OBVIOUS
  <2> USE DEF BoardInv
  <2>0. NoId \notin Ids /\ wanted \subseteq DOMAIN board
    BY IdsAssumption DEF TypeOK
  <2>1. ASSUME NEW type, Reached(type) # NoId
        PROVE  /\ Reached(type) \in registered
               /\ \E k \in DOMAIN board : /\ board[k].id = Reached(type)
                                          /\ Capability(type) \in board[k].caps
    <3>1. /\ Capability(type) \in Caps /\ route[Capability(type)] = Reached(type)
          /\ route[Capability(type)] # NoId
      BY <2>1 DEF Reached
    <3>2. PICK k \in wanted : board[k].id = Reached(type) /\ Capability(type) \in Done(k)
      BY <3>1 DEF Loaded
    <3> QED BY <2>0, <3>1, <3>2 DEF Done, Loaded
  <2>2. ASSUME phase \notin {"booting", "failed"}, NEW id \in registered
        PROVE  \E k \in DOMAIN board :
                 /\ board[k].id = id /\ ~board[k].inline
                 /\ Len(id) = 1 => \A c \in board[k].caps : Reached(ActionType(id, c)) = id
    <3>1. PICK k \in wanted : /\ board[k].id = id /\ ~board[k].inline
                             /\ \A c \in Done(k) : route[c] = id
      BY DEF Loaded
    <3>2. k \in DOMAIN board /\ k < loader.entry
      BY <2>0, <2>2 DEF Loading, TypeOK
    <3>3. Done(k) = board[k].caps /\ board[k].caps \subseteq Caps /\ id \in Ids
      BY <3>2, EntryType DEF Done, TypeOK
    <3>4. ASSUME Len(id) = 1, NEW c \in board[k].caps
          PROVE  Reached(ActionType(id, c)) = id
      <4>1. id \in Names /\ c \in Names /\ c \in Caps
        BY <3>3, NamesAssumption
      <4>2. Plugin(ActionType(id, c)) = id /\ Capability(ActionType(id, c)) = c
        BY <3>4, <4>1, SplitUndotted
      <4>3. route[c] = id
        BY <3>1, <3>3
      <4> QED BY <4>1, <4>2, <4>3 DEF Reached
    <3> QED BY <3>1, <3>2, <3>4
  <2> QED BY <2>1, <2>2 DEF RoutedToOwner
<1> QED BY <1>1, BoardInduction, PTL

\* Whatever requests come during the boot, it fails only for a fault, a clash or a
\* request that was faster.
THEOREM BootFailures == Spec => []BootFailsForCause
<1>1. BoardInv => BootFailsForCause
  BY DEF BoardInv
<1> QED BY <1>1, BoardInduction, PTL

\* For any number of concurrent requests, one that nobody disturbs takes effect.
THEOREM ConfigureWorks == Spec => []ConfigureTakesEffect
<1>1. BoardInv => ConfigureTakesEffect
  BY DEF BoardInv
<1> QED BY <1>1, BoardInduction, PTL

\* Shutdown leaves a plugin running only if somebody started it again.
THEOREM ShutdownIsThorough == Spec => []ShutdownReachesEach
<1>1. BoardInv => ShutdownReachesEach
  BY DEF BoardInv, Stopping, ShutdownReachesEach
<1> QED BY <1>1, BoardInduction, PTL

----------------------------------------------------------------------------
(* Each plugin on the board behaves as PluginSwitch says, which is what     *)
(* PluginProcess implements: the board and the process are two views of the *)
(* same running, monitors and backoffs.                                     *)

CONSTANT plugin

Switch == INSTANCE PluginSwitch WITH running <- running[plugin],
                                     watched <- watched[plugin],
                                     back    <- back[plugin]

\* Starts and stops of any plugin are starts and stops of this one, or pass it by.
LEMMA SwitchTold ==
  ASSUME TypeOK, plugin \in Ids, NEW id,
         \/ Starts(id) /\ ~running[id]
         \/ Stops(id) /\ running[id],
         UNCHANGED back
  PROVE  [Switch!Next]_(Switch!vars)
<1>1. CASE id = plugin
  BY <1>1 DEF Starts, Stops, Runs, TypeOK, Switch!Next, Switch!Start, Switch!Starts, Switch!Stop
<1>2. CASE id # plugin
  BY <1>2 DEF Starts, Stops, Runs, TypeOK, Switch!vars
<1> QED BY <1>1, <1>2

LEMMA SwitchStep ==
  ASSUME TypeOK, plugin \in Ids, [Next]_vars
  PROVE  [Switch!Next]_(Switch!vars)
<1>1. CASE UNCHANGED <<running, watched, back>>
  BY <1>1 DEF Switch!vars
<1>2. CASE LoadStart
  BY <1>1, <1>2, SwitchTold DEF LoadStart
<1>3. ASSUME NEW q \in Requests, ConfigureStops(q) \/ ConfigureStarts(q)
      PROVE  [Switch!Next]_(Switch!vars)
  BY <1>1, <1>3, SwitchTold DEF ConfigureStops, ConfigureStarts
<1>4. ASSUME NEW id \in Ids, PluginStops(id) \/ ShutdownStops(id)
      PROVE  [Switch!Next]_(Switch!vars)
  BY <1>1, <1>4, SwitchTold DEF PluginStops, ShutdownStops
<1>5. ASSUME NEW id \in Ids, Falls(id) PROVE [Switch!Next]_(Switch!vars)
  <2>1. CASE id = plugin
    BY <1>5, <2>1 DEF Falls, Runs, TypeOK, Switch!Next, Switch!Falls
  <2>2. CASE id # plugin
    BY <1>5, <2>2 DEF Falls, Runs, TypeOK, Switch!vars
  <2> QED BY <2>1, <2>2
<1>6. ASSUME NEW id \in Ids, ComesBack(id) PROVE [Switch!Next]_(Switch!vars)
  <2>1. CASE id = plugin
    BY <1>6, <2>1 DEF ComesBack, Starts, Runs, TypeOK, Switch!Next, Switch!ComesBack,
                      Switch!Starts
  <2>2. CASE id # plugin
    BY <1>6, <2>2 DEF ComesBack, Starts, Runs, TypeOK, Switch!vars
  <2> QED BY <2>1, <2>2
<1>7. \/ UNCHANGED <<running, watched, back>>
      \/ LoadStart
      \/ \E q \in Requests : ConfigureStops(q) \/ ConfigureStarts(q)
      \/ \E id \in Ids : PluginStops(id) \/ ShutdownStops(id) \/ Falls(id) \/ ComesBack(id)
  BY DEF Next, LoadEntry, LoadBreaks, Booted, LoadCapability, Configure, ConfigureChecks,
     ConfigureStartBreaks, Answer, WatchBlocks, WatchLeaves, WatchFails, WatchPasses, WatchTick, BeginShutdown, Drain,
     Close, fleet, vars
<1> QED BY <1>1, <1>2, <1>3, <1>4, <1>5, <1>6, <1>7

\* On the board every plugin is a PluginSwitch: loadPlugins, requests, shutdown and
\* the plugin itself start it only while it does not run and stop it only while it
\* runs, and nobody else starts it but a monitor out of its backoff.
THEOREM EachIsASwitch == ASSUME plugin \in Ids PROVE Spec => Switch!Spec
<1>1. Init => Switch!Init
  BY DEF Init, Switch!Init
<1>2. TypeOK /\ [Next]_vars => [Switch!Next]_(Switch!vars)
  BY SwitchStep
<1> QED BY <1>1, <1>2, BoardTyping, PTL DEF Spec, Switch!Spec
=================================================================================
