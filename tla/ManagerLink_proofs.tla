------------------------ MODULE ManagerLink_proofs ------------------------
(***************************************************************************)
(* Proofs about the link to the manager backend.                           *)
(***************************************************************************)
EXTENDS ManagerLink, TLAPS

-----------------------------------------------------------------------------
(***************************************************************************)
(* What dialling, dropping and panicking do to the connection's fields.    *)
(***************************************************************************)
\* Dialling keeps the fields in line.
LEMMA ConnectConn ==
    ASSUME ConnOK, NEW p \in Requests \union {"none", "init", "loop"},
           Connect(p), UNCHANGED crashed
    PROVE  ConnOK'
<1>1. CASE isConnected
  BY <1>1 DEF ConnOK, Connect, connVars
<1>2. CASE ~isConnected
  <2>1. /\ dials < MaxConns /\ dials' = dials + 1 /\ conn' = dials + 1
        /\ isConnected' = TRUE /\ dialler' = p
        /\ up' = up \union {dials + 1} /\ cuts' = cuts
    BY <1>2 DEF Connect
  <2>2. dials \in 0 .. MaxConns /\ up \subseteq 1 .. dials
    BY DEF ConnOK
  <2>3. dials' \in 0 .. MaxConns /\ conn' \in 0 .. dials' /\ conn' # 0
    BY <2>1, <2>2, LinkAssumption
  <2>4. up' \subseteq 1 .. dials'
    BY <2>1, <2>2, LinkAssumption
  <2>5. isConnected' \in BOOLEAN /\ (isConnected' <=> conn' # 0)
    BY <2>1, <2>3, Zenon
  <2>. QED  BY <2>1, <2>3, <2>4, <2>5, Zenon DEF ConnOK
<1>. QED  BY <1>1, <1>2

\* Dropping the connection keeps them in line.
LEMMA DisconnectConn ==
    ASSUME ConnOK, Disconnect, UNCHANGED <<dials, cuts, crashed>>
    PROVE  ConnOK'
<1>1. CASE ~isConnected
  BY <1>1 DEF ConnOK, Disconnect
<1>2. CASE isConnected
  <2>1. /\ up' = up \ {conn} /\ conn' = 0 /\ dialler' = "none"
        /\ isConnected' = FALSE
        /\ dials' = dials /\ cuts' = cuts /\ crashed' = crashed
    BY <1>2 DEF Disconnect
  <2>2. dials \in 0 .. MaxConns /\ up \subseteq 1 .. dials
    BY DEF ConnOK
  <2>3. dials' \in 0 .. MaxConns /\ conn' \in 0 .. dials' /\ conn' = 0
    BY <2>1, <2>2, LinkAssumption
  <2>4. up' \subseteq 1 .. dials'
    BY <2>1, <2>2, Zenon
  <2>5. isConnected' \in BOOLEAN /\ (isConnected' <=> conn' # 0)
    BY <2>1, <2>3, Zenon
  <2>. QED  BY <2>1, <2>3, <2>4, <2>5, Zenon DEF ConnOK
<1>. QED  BY <1>1, <1>2

\* A panic touches no field of the connection.
LEMMA PanicConn ==
    ASSUME ConnOK, Panic
    PROVE  ConnOK'
<1>1. UNCHANGED connVars /\ up' = up /\ crashed' = TRUE
  BY DEF Panic
<1>. QED  BY <1>1, Zenon DEF ConnOK, connVars

\* Nor does a step that leaves them alone.
LEMMA SameConn ==
    ASSUME ConnOK, UNCHANGED <<connVars, up, crashed>>
    PROVE  ConnOK'
BY DEF ConnOK, connVars

-----------------------------------------------------------------------------
(***************************************************************************)
(* The strengthenings.                                                     *)
(***************************************************************************)
\* Once Close has begun, Init has returned and no loop can be started.
CloseBegun == closer # "open" => isShuttingDown /\ loop # "init"

\* A connection not dialled yet has no handler in the backend.
NoHandlerYet == \A c \in Conns : c > dials => handler[c] = "none"

-----------------------------------------------------------------------------
(***************************************************************************)
(* How the connection in use keeps its reader.                             *)
(***************************************************************************)
\* A step that leaves connection and readers alone and opens nothing.
LEMMA SameReaders ==
    ASSUME Attended, UNCHANGED <<reader, on, conn>>, up' \subseteq up
    PROVE  Attended'
<1>1. CASE conn = 0
  BY <1>1 DEF Attended
<1>2. CASE conn # 0
  <2>1. PICK c \in Conns :
           \/ reader[c] \in Turning
           \/ reader[c] = "read" /\ (on[c] = conn \/ on[c] \notin up)
    BY <1>2 DEF Attended
  <2>2. \/ reader'[c] \in Turning
        \/ reader'[c] = "read" /\ (on'[c] = conn' \/ on'[c] \notin up')
    BY <2>1
  <2>. QED  BY <2>2 DEF Attended
<1>. QED  BY <1>1, <1>2

\* A step after which some reader is on its way to the connection.
LEMMA ReaderTurns ==
    ASSUME NEW c \in Conns,
           \/ reader'[c] \in Turning
           \/ reader'[c] = "read" /\ on'[c] = conn'
    PROVE  Attended'
<1>1. \/ reader'[c] \in Turning
      \/ reader'[c] = "read" /\ (on'[c] = conn' \/ on'[c] \notin up')
  OBVIOUS
<1>. QED  BY <1>1 DEF Attended

\* A step after which there is no connection.
LEMMA NoConnection ==
    ASSUME conn' = 0
    PROVE  Attended'
BY DEF Attended

\* Dialling brings the connection its own reader.
LEMMA ConnectAttended ==
    ASSUME TypeOK, Attended, NEW p, Connect(p)
    PROVE  Attended'
<1>1. CASE isConnected
  BY <1>1, SameReaders DEF Connect, connVars
<1>2. CASE ~isConnected
  <2>1. dials + 1 \in Conns
    BY <1>2, LinkAssumption DEF Connect, TypeOK, ConnOK, Conns
  <2>2. reader' = [reader EXCEPT ![dials + 1] = "check"]
    BY <1>2 DEF Connect
  <2>3. reader'[dials + 1] = "check"
    BY <2>1, <2>2 DEF TypeOK, ReaderOK
  <2>. QED  BY <2>1, <2>3, ReaderTurns DEF Turning
<1>. QED  BY <1>1, <1>2

\* Dropping leaves no connection.
LEMMA DisconnectAttended ==
    ASSUME TypeOK, Disconnect
    PROVE  Attended'
<1>1. conn' = 0
  BY DEF Disconnect, TypeOK, ConnOK
<1>. QED  BY <1>1, NoConnection

-----------------------------------------------------------------------------
(***************************************************************************)
(* Every step preserves the types, part by part.                           *)
(***************************************************************************)

\* The fields of the connection.
LEMMA ConnStep ==
    ASSUME TypeOK, Next
    PROVE  ConnOK'
<1>. USE DEF connVars, readerVars, retryVars, closeVars, requestVars,
              chanVars, backendVars
<1>1. CASE InitConnects
  <2>1. CASE Connect("init")
    BY <1>1, <2>1, ConnectConn DEF TypeOK, InitConnects
  <2>. QED  BY <1>1, <2>1, SameConn DEF TypeOK, InitConnects
<1>2. CASE LoopChecks
  BY <1>2 DEF TypeOK, ConnOK, LoopChecks
<1>3. CASE LoopConnects
  BY <1>3, ConnectConn DEF TypeOK, LoopConnects
<1>4. CASE LoopRetries
  BY <1>4 DEF TypeOK, ConnOK, LoopRetries
<1>5. CASE LoopLeaves
  BY <1>5 DEF TypeOK, ConnOK, LoopLeaves
<1>6. CASE StopReconnect
  BY <1>6 DEF TypeOK, ConnOK, StopReconnect
<1>7. CASE CloseDrops
  BY <1>7, DisconnectConn DEF TypeOK, CloseDrops
<1>8. CASE NetworkCuts
  <2>1. cuts' \in 0 .. MaxCuts
    BY <1>8, LinkAssumption DEF TypeOK, ConnOK, NetworkCuts
  <2>. QED  BY <1>8, <2>1 DEF TypeOK, ConnOK, NetworkCuts
<1>9. ASSUME NEW c \in Conns, ReaderChecks(c)
      PROVE  ConnOK'
  BY <1>9 DEF TypeOK, ConnOK, ReaderChecks
<1>10. ASSUME NEW c \in Conns, ReaderLoads(c)
      PROVE  ConnOK'
  <2>1. CASE Panic
    BY <2>1, PanicConn DEF TypeOK
  <2>. QED  BY <1>10, <2>1, SameConn DEF TypeOK, ReaderLoads
<1>11. ASSUME NEW c \in Conns, ReaderHands(c)
      PROVE  ConnOK'
  <2>1. CASE Panic
    BY <2>1, PanicConn DEF TypeOK
  <2>. QED  BY <1>11, <2>1, SameConn DEF TypeOK, ReaderHands
<1>12. ASSUME NEW c \in Conns, ReaderFails(c)
      PROVE  ConnOK'
  BY <1>12, DisconnectConn DEF TypeOK, ReaderFails
<1>13. ASSUME NEW c \in Conns, ReaderTriggers(c)
      PROVE  ConnOK'
  BY <1>13 DEF TypeOK, ConnOK, ReaderTriggers, TriggerReconnect
<1>14. ASSUME NEW c \in Conns, ReaderHandles(c)
      PROVE  ConnOK'
  BY <1>14 DEF TypeOK, ConnOK, ReaderHandles
<1>15. ASSUME NEW c \in Conns, HeartTicks(c)
      PROVE  ConnOK'
  BY <1>15 DEF TypeOK, ConnOK, HeartTicks
<1>16. ASSUME NEW c \in Conns, HeartStops(c)
      PROVE  ConnOK'
  BY <1>16 DEF TypeOK, ConnOK, HeartStops
<1>17. ASSUME NEW c \in Conns, HeartPings(c)
      PROVE  ConnOK'
  <2>1. CASE Panic
    BY <2>1, PanicConn DEF TypeOK
  <2>. QED  BY <1>17, <2>1, SameConn DEF TypeOK, HeartPings
<1>18. ASSUME NEW c \in Conns, HeartDrops(c)
      PROVE  ConnOK'
  BY <1>18, DisconnectConn DEF TypeOK, HeartDrops
<1>19. ASSUME NEW c \in Conns, HeartTriggers(c)
      PROVE  ConnOK'
  BY <1>19 DEF TypeOK, ConnOK, HeartTriggers, TriggerReconnect
<1>20. ASSUME NEW c \in Conns, HandlerRegisters(c)
      PROVE  ConnOK'
  BY <1>20 DEF TypeOK, ConnOK, HandlerRegisters
<1>21. ASSUME NEW c \in Conns, HandlerFails(c)
      PROVE  ConnOK'
  BY <1>21 DEF TypeOK, ConnOK, HandlerFails
<1>22. ASSUME NEW c \in Conns, HandlerLeaves(c)
      PROVE  ConnOK'
  BY <1>22 DEF TypeOK, ConnOK, HandlerLeaves
<1>23. ASSUME NEW r \in Requests, RequestConnects(r)
      PROVE  ConnOK'
  <2>1. CASE Connect(r)
    BY <1>23, <2>1, ConnectConn DEF TypeOK, RequestConnects
  <2>. QED  BY <1>23, <2>1, SameConn DEF TypeOK, RequestConnects
<1>24. ASSUME NEW r \in Requests, RequestRegisters(r)
      PROVE  ConnOK'
  BY <1>24 DEF TypeOK, ConnOK, RequestRegisters
<1>25. ASSUME NEW r \in Requests, RequestWrites(r)
      PROVE  ConnOK'
  <2>1. CASE Panic
    BY <2>1, PanicConn DEF TypeOK
  <2>. QED  BY <1>25, <2>1, SameConn DEF TypeOK, RequestWrites
<1>26. ASSUME NEW r \in Requests, RequestReceives(r)
      PROVE  ConnOK'
  BY <1>26 DEF TypeOK, ConnOK, RequestReceives
<1>27. ASSUME NEW r \in Requests, RequestTimesOut(r)
      PROVE  ConnOK'
  BY <1>27 DEF TypeOK, ConnOK, RequestTimesOut
<1>28. ASSUME NEW r \in Requests, RequestReturns(r)
      PROVE  ConnOK'
  <2>1. CASE Panic
    BY <2>1, PanicConn DEF TypeOK
  <2>. QED  BY <1>28, <2>1, SameConn DEF TypeOK, RequestReturns
<1>29. ASSUME NEW c \in Conns, NEW r \in Requests, ReaderFinds(c, r)
      PROVE  ConnOK'
  BY <1>29 DEF TypeOK, ConnOK, ReaderFinds
<1>30. ASSUME NEW c \in Conns, NEW r \in Requests, HandlerServes(c, r)
      PROVE  ConnOK'
  BY <1>30 DEF TypeOK, ConnOK, HandlerServes
<1>31. ASSUME NEW c \in Conns, HandlerFinds(c)
      PROVE  ConnOK'
  BY <1>31 DEF TypeOK, ConnOK, HandlerFinds
<1>32. ASSUME NEW c \in Conns, HandlerChecks(c)
      PROVE  ConnOK'
  BY <1>32 DEF TypeOK, ConnOK, HandlerChecks
<1>33. ASSUME NEW c \in Conns, HandlerRemoves(c)
      PROVE  ConnOK'
  BY <1>33 DEF TypeOK, ConnOK, HandlerRemoves
<1>34. ASSUME NEW c \in Conns, ReaderResponds(c)
      PROVE  ConnOK'
  BY <1>34 DEF TypeOK, ConnOK, ReaderResponds
<1>35. ASSUME NEW c \in Conns, ReaderWrites(c)
      PROVE  ConnOK'
  <2>1. CASE Panic
    BY <2>1, PanicConn DEF TypeOK
  <2>. QED  BY <1>35, <2>1, SameConn DEF TypeOK, ReaderWrites
<1>. QED  BY <1>1, <1>2, <1>3, <1>4, <1>5, <1>6, <1>7, <1>8, <1>9, <1>10,
            <1>11, <1>12, <1>13, <1>14, <1>15, <1>16, <1>17, <1>18, <1>19,
            <1>20, <1>21, <1>22, <1>23, <1>24, <1>25, <1>26, <1>27, <1>28,
            <1>29, <1>30, <1>31, <1>32, <1>33, <1>34, <1>35
          DEF Next, Steps, Loop, Reader, Heart, Request, Handler

\* The readers and heartbeats.
LEMMA ReaderStep ==
    ASSUME TypeOK, Next
    PROVE  ReaderOK'
<1>. USE DEF connVars, readerVars, retryVars, closeVars, requestVars,
              chanVars, backendVars
<1>1. CASE InitConnects
  BY <1>1, LinkAssumption
     DEF TypeOK, ReaderOK, ConnOK, Conns, InitConnects, Connect
<1>2. CASE LoopChecks
  BY <1>2, LinkAssumption DEF TypeOK, ReaderOK, ConnOK, Conns, LoopChecks
<1>3. CASE LoopConnects
  BY <1>3, LinkAssumption
     DEF TypeOK, ReaderOK, ConnOK, Conns, LoopConnects, Connect
<1>4. CASE LoopRetries
  BY <1>4, LinkAssumption DEF TypeOK, ReaderOK, ConnOK, Conns, LoopRetries
<1>5. CASE LoopLeaves
  BY <1>5, LinkAssumption DEF TypeOK, ReaderOK, ConnOK, Conns, LoopLeaves
<1>6. CASE StopReconnect
  BY <1>6, LinkAssumption DEF TypeOK, ReaderOK, ConnOK, Conns, StopReconnect
<1>7. CASE CloseDrops
  BY <1>7, LinkAssumption
     DEF TypeOK, ReaderOK, ConnOK, Conns, CloseDrops, Disconnect
<1>8. CASE NetworkCuts
  BY <1>8, LinkAssumption DEF TypeOK, ReaderOK, ConnOK, Conns, NetworkCuts
<1>9. ASSUME NEW c \in Conns, ReaderChecks(c)
      PROVE  ReaderOK'
  BY <1>9, LinkAssumption DEF TypeOK, ReaderOK, ConnOK, Conns, ReaderChecks
<1>10. ASSUME NEW c \in Conns, ReaderLoads(c)
      PROVE  ReaderOK'
  <2>1. CASE Panic
    BY <2>1 DEF TypeOK, ReaderOK, Panic
  <2>2. CASE conn # 0
    <3>1. conn \in 0 .. MaxConns
      BY LinkAssumption DEF TypeOK, ConnOK
    <3>2. /\ reader' = [reader EXCEPT ![c] = "read"]
          /\ on' = [on EXCEPT ![c] = conn] \/ on' = on
          /\ UNCHANGED <<resp, heart>>
      BY <1>10, <2>2 DEF ReaderLoads, Panic
    <3>. QED  BY <1>10, <3>1, <3>2 DEF TypeOK, ReaderOK
  <2>. QED  BY <1>10, <2>1, <2>2 DEF ReaderLoads
<1>11. ASSUME NEW c \in Conns, ReaderHands(c)
      PROVE  ReaderOK'
  BY <1>11, LinkAssumption
     DEF TypeOK, ReaderOK, ConnOK, Conns, ReaderHands, Panic
<1>12. ASSUME NEW c \in Conns, ReaderFails(c)
      PROVE  ReaderOK'
  BY <1>12, LinkAssumption
     DEF TypeOK, ReaderOK, ConnOK, Conns, ReaderFails, Disconnect
<1>13. ASSUME NEW c \in Conns, ReaderTriggers(c)
      PROVE  ReaderOK'
  BY <1>13, LinkAssumption
     DEF TypeOK, ReaderOK, ConnOK, Conns, ReaderTriggers, TriggerReconnect
<1>14. ASSUME NEW c \in Conns, ReaderHandles(c)
      PROVE  ReaderOK'
  BY <1>14, LinkAssumption DEF TypeOK, ReaderOK, ConnOK, Conns, ReaderHandles
<1>15. ASSUME NEW c \in Conns, HeartTicks(c)
      PROVE  ReaderOK'
  BY <1>15, LinkAssumption DEF TypeOK, ReaderOK, ConnOK, Conns, HeartTicks
<1>16. ASSUME NEW c \in Conns, HeartStops(c)
      PROVE  ReaderOK'
  BY <1>16, LinkAssumption DEF TypeOK, ReaderOK, ConnOK, Conns, HeartStops
<1>17. ASSUME NEW c \in Conns, HeartPings(c)
      PROVE  ReaderOK'
  BY <1>17, LinkAssumption
     DEF TypeOK, ReaderOK, ConnOK, Conns, HeartPings, Panic
<1>18. ASSUME NEW c \in Conns, HeartDrops(c)
      PROVE  ReaderOK'
  BY <1>18, LinkAssumption
     DEF TypeOK, ReaderOK, ConnOK, Conns, HeartDrops, Disconnect
<1>19. ASSUME NEW c \in Conns, HeartTriggers(c)
      PROVE  ReaderOK'
  BY <1>19, LinkAssumption
     DEF TypeOK, ReaderOK, ConnOK, Conns, HeartTriggers, TriggerReconnect
<1>20. ASSUME NEW c \in Conns, HandlerRegisters(c)
      PROVE  ReaderOK'
  BY <1>20, LinkAssumption
     DEF TypeOK, ReaderOK, ConnOK, Conns, HandlerRegisters
<1>21. ASSUME NEW c \in Conns, HandlerFails(c)
      PROVE  ReaderOK'
  BY <1>21, LinkAssumption DEF TypeOK, ReaderOK, ConnOK, Conns, HandlerFails
<1>22. ASSUME NEW c \in Conns, HandlerLeaves(c)
      PROVE  ReaderOK'
  BY <1>22, LinkAssumption DEF TypeOK, ReaderOK, ConnOK, Conns, HandlerLeaves
<1>23. ASSUME NEW r \in Requests, RequestConnects(r)
      PROVE  ReaderOK'
  BY <1>23, LinkAssumption
     DEF TypeOK, ReaderOK, ConnOK, Conns, RequestConnects, Connect
<1>24. ASSUME NEW r \in Requests, RequestRegisters(r)
      PROVE  ReaderOK'
  BY <1>24, LinkAssumption
     DEF TypeOK, ReaderOK, ConnOK, Conns, RequestRegisters
<1>25. ASSUME NEW r \in Requests, RequestWrites(r)
      PROVE  ReaderOK'
  BY <1>25, LinkAssumption
     DEF TypeOK, ReaderOK, ConnOK, Conns, RequestWrites, Panic
<1>26. ASSUME NEW r \in Requests, RequestReceives(r)
      PROVE  ReaderOK'
  BY <1>26, LinkAssumption
     DEF TypeOK, ReaderOK, ConnOK, Conns, RequestReceives
<1>27. ASSUME NEW r \in Requests, RequestTimesOut(r)
      PROVE  ReaderOK'
  BY <1>27, LinkAssumption
     DEF TypeOK, ReaderOK, ConnOK, Conns, RequestTimesOut
<1>28. ASSUME NEW r \in Requests, RequestReturns(r)
      PROVE  ReaderOK'
  BY <1>28, LinkAssumption
     DEF TypeOK, ReaderOK, ConnOK, Conns, RequestReturns, Panic
<1>29. ASSUME NEW c \in Conns, NEW r \in Requests, ReaderFinds(c, r)
      PROVE  ReaderOK'
  <2>1. CASE r \in responseChans
    BY <1>29, <2>1, LinkAssumption DEF TypeOK, ReaderOK, ReaderFinds
  <2>2. CASE r \notin responseChans
    BY <1>29, <2>2, LinkAssumption DEF TypeOK, ReaderOK, ReaderFinds
  <2>. QED  BY <2>1, <2>2
<1>30. ASSUME NEW c \in Conns, NEW r \in Requests, HandlerServes(c, r)
      PROVE  ReaderOK'
  BY <1>30, LinkAssumption DEF TypeOK, ReaderOK, ConnOK, Conns, HandlerServes
<1>31. ASSUME NEW c \in Conns, HandlerFinds(c)
      PROVE  ReaderOK'
  BY <1>31, LinkAssumption
     DEF TypeOK, ReaderOK, ConnOK, Conns, HandlerFinds
<1>32. ASSUME NEW c \in Conns, HandlerChecks(c)
      PROVE  ReaderOK'
  BY <1>32, LinkAssumption DEF TypeOK, ReaderOK, ConnOK, Conns, HandlerChecks
<1>33. ASSUME NEW c \in Conns, HandlerRemoves(c)
      PROVE  ReaderOK'
  BY <1>33, LinkAssumption DEF TypeOK, ReaderOK, ConnOK, Conns, HandlerRemoves
<1>34. ASSUME NEW c \in Conns, ReaderResponds(c)
      PROVE  ReaderOK'
  BY <1>34, LinkAssumption DEF TypeOK, ReaderOK, ConnOK, Conns, ReaderResponds
<1>35. ASSUME NEW c \in Conns, ReaderWrites(c)
      PROVE  ReaderOK'
  <2>1. CASE Panic
    BY <2>1 DEF TypeOK, ReaderOK, Panic
  <2>2. CASE conn # 0
    <3>1. reader' = [reader EXCEPT ![c] = "check"] /\ UNCHANGED <<on, resp, heart>>
      BY <1>35, <2>2 DEF ReaderWrites, Panic
    <3>. QED  BY <1>35, <3>1 DEF TypeOK, ReaderOK
  <2>. QED  BY <1>35, <2>1, <2>2 DEF ReaderWrites
<1>. QED  BY <1>1, <1>2, <1>3, <1>4, <1>5, <1>6, <1>7, <1>8, <1>9, <1>10,
            <1>11, <1>12, <1>13, <1>14, <1>15, <1>16, <1>17, <1>18, <1>19,
            <1>20, <1>21, <1>22, <1>23, <1>24, <1>25, <1>26, <1>27, <1>28,
            <1>29, <1>30, <1>31, <1>32, <1>33, <1>34, <1>35
          DEF Next, Steps, Loop, Reader, Heart, Request, Handler

\* The reconnect loop and Close.
LEMMA LoopStep ==
    ASSUME TypeOK, Next
    PROVE  LoopOK'
<1>. USE DEF connVars, readerVars, retryVars, closeVars, requestVars,
              chanVars, backendVars
<1>1. CASE InitConnects
  BY <1>1 DEF TypeOK, LoopOK, InitConnects, Connect
<1>2. CASE LoopChecks
  BY <1>2 DEF TypeOK, LoopOK, LoopChecks
<1>3. CASE LoopConnects
  BY <1>3 DEF TypeOK, LoopOK, LoopConnects, Connect
<1>4. CASE LoopRetries
  BY <1>4 DEF TypeOK, LoopOK, LoopRetries
<1>5. CASE LoopLeaves
  BY <1>5 DEF TypeOK, LoopOK, LoopLeaves
<1>6. CASE StopReconnect
  BY <1>6 DEF TypeOK, LoopOK, StopReconnect
<1>7. CASE CloseDrops
  BY <1>7 DEF TypeOK, LoopOK, CloseDrops, Disconnect
<1>8. CASE NetworkCuts
  BY <1>8 DEF TypeOK, LoopOK, NetworkCuts
<1>9. ASSUME NEW c \in Conns, ReaderChecks(c)
      PROVE  LoopOK'
  BY <1>9 DEF TypeOK, LoopOK, ReaderChecks
<1>10. ASSUME NEW c \in Conns, ReaderLoads(c)
      PROVE  LoopOK'
  BY <1>10 DEF TypeOK, LoopOK, ReaderLoads, Panic
<1>11. ASSUME NEW c \in Conns, ReaderHands(c)
      PROVE  LoopOK'
  BY <1>11 DEF TypeOK, LoopOK, ReaderHands, Panic
<1>12. ASSUME NEW c \in Conns, ReaderFails(c)
      PROVE  LoopOK'
  BY <1>12 DEF TypeOK, LoopOK, ReaderFails, Disconnect
<1>13. ASSUME NEW c \in Conns, ReaderTriggers(c)
      PROVE  LoopOK'
  BY <1>13 DEF TypeOK, LoopOK, ReaderTriggers, TriggerReconnect
<1>14. ASSUME NEW c \in Conns, ReaderHandles(c)
      PROVE  LoopOK'
  BY <1>14 DEF TypeOK, LoopOK, ReaderHandles
<1>15. ASSUME NEW c \in Conns, HeartTicks(c)
      PROVE  LoopOK'
  BY <1>15 DEF TypeOK, LoopOK, HeartTicks
<1>16. ASSUME NEW c \in Conns, HeartStops(c)
      PROVE  LoopOK'
  BY <1>16 DEF TypeOK, LoopOK, HeartStops
<1>17. ASSUME NEW c \in Conns, HeartPings(c)
      PROVE  LoopOK'
  BY <1>17 DEF TypeOK, LoopOK, HeartPings, Panic
<1>18. ASSUME NEW c \in Conns, HeartDrops(c)
      PROVE  LoopOK'
  BY <1>18 DEF TypeOK, LoopOK, HeartDrops, Disconnect
<1>19. ASSUME NEW c \in Conns, HeartTriggers(c)
      PROVE  LoopOK'
  BY <1>19 DEF TypeOK, LoopOK, HeartTriggers, TriggerReconnect
<1>20. ASSUME NEW c \in Conns, HandlerRegisters(c)
      PROVE  LoopOK'
  BY <1>20 DEF TypeOK, LoopOK, HandlerRegisters
<1>21. ASSUME NEW c \in Conns, HandlerFails(c)
      PROVE  LoopOK'
  BY <1>21 DEF TypeOK, LoopOK, HandlerFails
<1>22. ASSUME NEW c \in Conns, HandlerLeaves(c)
      PROVE  LoopOK'
  BY <1>22 DEF TypeOK, LoopOK, HandlerLeaves
<1>23. ASSUME NEW r \in Requests, RequestConnects(r)
      PROVE  LoopOK'
  BY <1>23 DEF TypeOK, LoopOK, RequestConnects, Connect
<1>24. ASSUME NEW r \in Requests, RequestRegisters(r)
      PROVE  LoopOK'
  BY <1>24 DEF TypeOK, LoopOK, RequestRegisters
<1>25. ASSUME NEW r \in Requests, RequestWrites(r)
      PROVE  LoopOK'
  BY <1>25 DEF TypeOK, LoopOK, RequestWrites, Panic
<1>26. ASSUME NEW r \in Requests, RequestReceives(r)
      PROVE  LoopOK'
  BY <1>26 DEF TypeOK, LoopOK, RequestReceives
<1>27. ASSUME NEW r \in Requests, RequestTimesOut(r)
      PROVE  LoopOK'
  BY <1>27 DEF TypeOK, LoopOK, RequestTimesOut
<1>28. ASSUME NEW r \in Requests, RequestReturns(r)
      PROVE  LoopOK'
  BY <1>28 DEF TypeOK, LoopOK, RequestReturns, Panic
<1>29. ASSUME NEW c \in Conns, NEW r \in Requests, ReaderFinds(c, r)
      PROVE  LoopOK'
  BY <1>29 DEF TypeOK, LoopOK, ReaderFinds
<1>30. ASSUME NEW c \in Conns, NEW r \in Requests, HandlerServes(c, r)
      PROVE  LoopOK'
  BY <1>30 DEF TypeOK, LoopOK, HandlerServes
<1>31. ASSUME NEW c \in Conns, HandlerFinds(c)
      PROVE  LoopOK'
  BY <1>31 DEF TypeOK, LoopOK, HandlerFinds
<1>32. ASSUME NEW c \in Conns, HandlerChecks(c)
      PROVE  LoopOK'
  BY <1>32 DEF TypeOK, LoopOK, HandlerChecks
<1>33. ASSUME NEW c \in Conns, HandlerRemoves(c)
      PROVE  LoopOK'
  BY <1>33 DEF TypeOK, LoopOK, HandlerRemoves
<1>34. ASSUME NEW c \in Conns, ReaderResponds(c)
      PROVE  LoopOK'
  BY <1>34 DEF TypeOK, LoopOK, ReaderResponds
<1>35. ASSUME NEW c \in Conns, ReaderWrites(c)
      PROVE  LoopOK'
  BY <1>35 DEF TypeOK, LoopOK, ReaderWrites, Panic
<1>. QED  BY <1>1, <1>2, <1>3, <1>4, <1>5, <1>6, <1>7, <1>8, <1>9, <1>10,
            <1>11, <1>12, <1>13, <1>14, <1>15, <1>16, <1>17, <1>18, <1>19,
            <1>20, <1>21, <1>22, <1>23, <1>24, <1>25, <1>26, <1>27, <1>28,
            <1>29, <1>30, <1>31, <1>32, <1>33, <1>34, <1>35
          DEF Next, Steps, Loop, Reader, Heart, Request, Handler

\* The requests.
LEMMA RequestStep ==
    ASSUME TypeOK, Next
    PROVE  RequestOK'
<1>. USE DEF connVars, readerVars, retryVars, closeVars, requestVars,
              chanVars, backendVars
<1>1. CASE InitConnects
  BY <1>1, LinkAssumption
     DEF TypeOK, RequestOK, ReaderOK, ConnOK, InitConnects, Connect
<1>2. CASE LoopChecks
  BY <1>2, LinkAssumption DEF TypeOK, RequestOK, ReaderOK, ConnOK, LoopChecks
<1>3. CASE LoopConnects
  BY <1>3, LinkAssumption
     DEF TypeOK, RequestOK, ReaderOK, ConnOK, LoopConnects, Connect
<1>4. CASE LoopRetries
  BY <1>4, LinkAssumption DEF TypeOK, RequestOK, ReaderOK, ConnOK, LoopRetries
<1>5. CASE LoopLeaves
  BY <1>5, LinkAssumption DEF TypeOK, RequestOK, ReaderOK, ConnOK, LoopLeaves
<1>6. CASE StopReconnect
  BY <1>6, LinkAssumption
     DEF TypeOK, RequestOK, ReaderOK, ConnOK, StopReconnect
<1>7. CASE CloseDrops
  BY <1>7, LinkAssumption
     DEF TypeOK, RequestOK, ReaderOK, ConnOK, CloseDrops, Disconnect
<1>8. CASE NetworkCuts
  BY <1>8, LinkAssumption DEF TypeOK, RequestOK, ReaderOK, ConnOK, NetworkCuts
<1>9. ASSUME NEW c \in Conns, ReaderChecks(c)
      PROVE  RequestOK'
  BY <1>9, LinkAssumption
     DEF TypeOK, RequestOK, ReaderOK, ConnOK, ReaderChecks
<1>10. ASSUME NEW c \in Conns, ReaderLoads(c)
      PROVE  RequestOK'
  BY <1>10, LinkAssumption
     DEF TypeOK, RequestOK, ReaderOK, ConnOK, ReaderLoads, Panic
<1>11. ASSUME NEW c \in Conns, ReaderHands(c)
      PROVE  RequestOK'
  BY <1>11, LinkAssumption
     DEF TypeOK, RequestOK, ReaderOK, ConnOK, ReaderHands, Panic
<1>12. ASSUME NEW c \in Conns, ReaderFails(c)
      PROVE  RequestOK'
  BY <1>12, LinkAssumption
     DEF TypeOK, RequestOK, ReaderOK, ConnOK, ReaderFails, Disconnect
<1>13. ASSUME NEW c \in Conns, ReaderTriggers(c)
      PROVE  RequestOK'
  BY <1>13, LinkAssumption
     DEF TypeOK, RequestOK, ReaderOK, ConnOK, ReaderTriggers, TriggerReconnect
<1>14. ASSUME NEW c \in Conns, ReaderHandles(c)
      PROVE  RequestOK'
  BY <1>14, LinkAssumption
     DEF TypeOK, RequestOK, ReaderOK, ConnOK, ReaderHandles
<1>15. ASSUME NEW c \in Conns, HeartTicks(c)
      PROVE  RequestOK'
  BY <1>15, LinkAssumption DEF TypeOK, RequestOK, ReaderOK, ConnOK, HeartTicks
<1>16. ASSUME NEW c \in Conns, HeartStops(c)
      PROVE  RequestOK'
  BY <1>16, LinkAssumption DEF TypeOK, RequestOK, ReaderOK, ConnOK, HeartStops
<1>17. ASSUME NEW c \in Conns, HeartPings(c)
      PROVE  RequestOK'
  BY <1>17, LinkAssumption
     DEF TypeOK, RequestOK, ReaderOK, ConnOK, HeartPings, Panic
<1>18. ASSUME NEW c \in Conns, HeartDrops(c)
      PROVE  RequestOK'
  BY <1>18, LinkAssumption
     DEF TypeOK, RequestOK, ReaderOK, ConnOK, HeartDrops, Disconnect
<1>19. ASSUME NEW c \in Conns, HeartTriggers(c)
      PROVE  RequestOK'
  BY <1>19, LinkAssumption
     DEF TypeOK, RequestOK, ReaderOK, ConnOK, HeartTriggers, TriggerReconnect
<1>20. ASSUME NEW c \in Conns, HandlerRegisters(c)
      PROVE  RequestOK'
  BY <1>20, LinkAssumption
     DEF TypeOK, RequestOK, ReaderOK, ConnOK, HandlerRegisters
<1>21. ASSUME NEW c \in Conns, HandlerFails(c)
      PROVE  RequestOK'
  BY <1>21, LinkAssumption
     DEF TypeOK, RequestOK, ReaderOK, ConnOK, HandlerFails
<1>22. ASSUME NEW c \in Conns, HandlerLeaves(c)
      PROVE  RequestOK'
  BY <1>22, LinkAssumption
     DEF TypeOK, RequestOK, ReaderOK, ConnOK, HandlerLeaves
<1>23. ASSUME NEW r \in Requests, RequestConnects(r)
      PROVE  RequestOK'
  BY <1>23, LinkAssumption
     DEF TypeOK, RequestOK, ReaderOK, ConnOK, RequestConnects, Connect
<1>24. ASSUME NEW r \in Requests, RequestRegisters(r)
      PROVE  RequestOK'
  BY <1>24, LinkAssumption
     DEF TypeOK, RequestOK, ReaderOK, ConnOK, RequestRegisters
<1>25. ASSUME NEW r \in Requests, RequestWrites(r)
      PROVE  RequestOK'
  BY <1>25, LinkAssumption
     DEF TypeOK, RequestOK, ReaderOK, ConnOK, RequestWrites, Panic
<1>26. ASSUME NEW r \in Requests, RequestReceives(r)
      PROVE  RequestOK'
  BY <1>26, LinkAssumption
     DEF TypeOK, RequestOK, ReaderOK, ConnOK, RequestReceives
<1>27. ASSUME NEW r \in Requests, RequestTimesOut(r)
      PROVE  RequestOK'
  BY <1>27, LinkAssumption
     DEF TypeOK, RequestOK, ReaderOK, ConnOK, RequestTimesOut
<1>28. ASSUME NEW r \in Requests, RequestReturns(r)
      PROVE  RequestOK'
  BY <1>28, LinkAssumption
     DEF TypeOK, RequestOK, ReaderOK, ConnOK, RequestReturns, Panic
<1>29. ASSUME NEW c \in Conns, NEW r \in Requests, ReaderFinds(c, r)
      PROVE  RequestOK'
  BY <1>29, LinkAssumption
     DEF TypeOK, RequestOK, ReaderOK, ConnOK, ReaderFinds
<1>30. ASSUME NEW c \in Conns, NEW r \in Requests, HandlerServes(c, r)
      PROVE  RequestOK'
  BY <1>30, LinkAssumption
     DEF TypeOK, RequestOK, ReaderOK, ConnOK, HandlerServes
<1>31. ASSUME NEW c \in Conns, HandlerFinds(c)
      PROVE  RequestOK'
  BY <1>31, LinkAssumption
     DEF TypeOK, RequestOK, ReaderOK, ConnOK, HandlerFinds
<1>32. ASSUME NEW c \in Conns, HandlerChecks(c)
      PROVE  RequestOK'
  BY <1>32, LinkAssumption
     DEF TypeOK, RequestOK, ReaderOK, ConnOK, HandlerChecks
<1>33. ASSUME NEW c \in Conns, HandlerRemoves(c)
      PROVE  RequestOK'
  BY <1>33, LinkAssumption
     DEF TypeOK, RequestOK, ReaderOK, ConnOK, HandlerRemoves
<1>34. ASSUME NEW c \in Conns, ReaderResponds(c)
      PROVE  RequestOK'
  BY <1>34, LinkAssumption
     DEF TypeOK, RequestOK, ReaderOK, ConnOK, ReaderResponds
<1>35. ASSUME NEW c \in Conns, ReaderWrites(c)
      PROVE  RequestOK'
  BY <1>35, LinkAssumption
     DEF TypeOK, RequestOK, ReaderOK, ConnOK, ReaderWrites, Panic
<1>. QED  BY <1>1, <1>2, <1>3, <1>4, <1>5, <1>6, <1>7, <1>8, <1>9, <1>10,
            <1>11, <1>12, <1>13, <1>14, <1>15, <1>16, <1>17, <1>18, <1>19,
            <1>20, <1>21, <1>22, <1>23, <1>24, <1>25, <1>26, <1>27, <1>28,
            <1>29, <1>30, <1>31, <1>32, <1>33, <1>34, <1>35
          DEF Next, Steps, Loop, Reader, Heart, Request, Handler

\* The backend.
LEMMA BackendStep ==
    ASSUME TypeOK, Next
    PROVE  BackendOK'
<1>. USE DEF connVars, readerVars, retryVars, closeVars, requestVars,
              chanVars, backendVars
<1>1. CASE InitConnects
  BY <1>1, LinkAssumption
     DEF TypeOK, BackendOK, ConnOK, Conns, InitConnects, Connect
<1>2. CASE LoopChecks
  BY <1>2, LinkAssumption DEF TypeOK, BackendOK, ConnOK, Conns, LoopChecks
<1>3. CASE LoopConnects
  BY <1>3, LinkAssumption
     DEF TypeOK, BackendOK, ConnOK, Conns, LoopConnects, Connect
<1>4. CASE LoopRetries
  BY <1>4, LinkAssumption DEF TypeOK, BackendOK, ConnOK, Conns, LoopRetries
<1>5. CASE LoopLeaves
  BY <1>5, LinkAssumption DEF TypeOK, BackendOK, ConnOK, Conns, LoopLeaves
<1>6. CASE StopReconnect
  BY <1>6, LinkAssumption DEF TypeOK, BackendOK, ConnOK, Conns, StopReconnect
<1>7. CASE CloseDrops
  BY <1>7, LinkAssumption
     DEF TypeOK, BackendOK, ConnOK, Conns, CloseDrops, Disconnect
<1>8. CASE NetworkCuts
  BY <1>8, LinkAssumption DEF TypeOK, BackendOK, ConnOK, Conns, NetworkCuts
<1>9. ASSUME NEW c \in Conns, ReaderChecks(c)
      PROVE  BackendOK'
  BY <1>9, LinkAssumption DEF TypeOK, BackendOK, ConnOK, Conns, ReaderChecks
<1>10. ASSUME NEW c \in Conns, ReaderLoads(c)
      PROVE  BackendOK'
  BY <1>10, LinkAssumption
     DEF TypeOK, BackendOK, ConnOK, Conns, ReaderLoads, Panic
<1>11. ASSUME NEW c \in Conns, ReaderHands(c)
      PROVE  BackendOK'
  BY <1>11, LinkAssumption
     DEF TypeOK, BackendOK, ConnOK, Conns, ReaderHands, Panic
<1>12. ASSUME NEW c \in Conns, ReaderFails(c)
      PROVE  BackendOK'
  BY <1>12, LinkAssumption
     DEF TypeOK, BackendOK, ConnOK, Conns, ReaderFails, Disconnect
<1>13. ASSUME NEW c \in Conns, ReaderTriggers(c)
      PROVE  BackendOK'
  BY <1>13, LinkAssumption
     DEF TypeOK, BackendOK, ConnOK, Conns, ReaderTriggers, TriggerReconnect
<1>14. ASSUME NEW c \in Conns, ReaderHandles(c)
      PROVE  BackendOK'
  BY <1>14, LinkAssumption DEF TypeOK, BackendOK, ConnOK, Conns, ReaderHandles
<1>15. ASSUME NEW c \in Conns, HeartTicks(c)
      PROVE  BackendOK'
  BY <1>15, LinkAssumption DEF TypeOK, BackendOK, ConnOK, Conns, HeartTicks
<1>16. ASSUME NEW c \in Conns, HeartStops(c)
      PROVE  BackendOK'
  BY <1>16, LinkAssumption DEF TypeOK, BackendOK, ConnOK, Conns, HeartStops
<1>17. ASSUME NEW c \in Conns, HeartPings(c)
      PROVE  BackendOK'
  BY <1>17, LinkAssumption
     DEF TypeOK, BackendOK, ConnOK, Conns, HeartPings, Panic
<1>18. ASSUME NEW c \in Conns, HeartDrops(c)
      PROVE  BackendOK'
  BY <1>18, LinkAssumption
     DEF TypeOK, BackendOK, ConnOK, Conns, HeartDrops, Disconnect
<1>19. ASSUME NEW c \in Conns, HeartTriggers(c)
      PROVE  BackendOK'
  BY <1>19, LinkAssumption
     DEF TypeOK, BackendOK, ConnOK, Conns, HeartTriggers, TriggerReconnect
<1>20. ASSUME NEW c \in Conns, HandlerRegisters(c)
      PROVE  BackendOK'
  BY <1>20, LinkAssumption
     DEF TypeOK, BackendOK, ConnOK, Conns, HandlerRegisters
<1>21. ASSUME NEW c \in Conns, HandlerFails(c)
      PROVE  BackendOK'
  BY <1>21, LinkAssumption DEF TypeOK, BackendOK, ConnOK, Conns, HandlerFails
<1>22. ASSUME NEW c \in Conns, HandlerLeaves(c)
      PROVE  BackendOK'
  BY <1>22, LinkAssumption DEF TypeOK, BackendOK, ConnOK, Conns, HandlerLeaves
<1>23. ASSUME NEW r \in Requests, RequestConnects(r)
      PROVE  BackendOK'
  BY <1>23, LinkAssumption
     DEF TypeOK, BackendOK, ConnOK, Conns, RequestConnects, Connect
<1>24. ASSUME NEW r \in Requests, RequestRegisters(r)
      PROVE  BackendOK'
  BY <1>24, LinkAssumption
     DEF TypeOK, BackendOK, ConnOK, Conns, RequestRegisters
<1>25. ASSUME NEW r \in Requests, RequestWrites(r)
      PROVE  BackendOK'
  BY <1>25, LinkAssumption
     DEF TypeOK, BackendOK, ConnOK, Conns, RequestWrites, Panic
<1>26. ASSUME NEW r \in Requests, RequestReceives(r)
      PROVE  BackendOK'
  BY <1>26, LinkAssumption
     DEF TypeOK, BackendOK, ConnOK, Conns, RequestReceives
<1>27. ASSUME NEW r \in Requests, RequestTimesOut(r)
      PROVE  BackendOK'
  BY <1>27, LinkAssumption
     DEF TypeOK, BackendOK, ConnOK, Conns, RequestTimesOut
<1>28. ASSUME NEW r \in Requests, RequestReturns(r)
      PROVE  BackendOK'
  BY <1>28, LinkAssumption
     DEF TypeOK, BackendOK, ConnOK, Conns, RequestReturns, Panic
<1>29. ASSUME NEW c \in Conns, NEW r \in Requests, ReaderFinds(c, r)
      PROVE  BackendOK'
  BY <1>29, LinkAssumption DEF TypeOK, BackendOK, ConnOK, Conns, ReaderFinds
<1>30. ASSUME NEW c \in Conns, NEW r \in Requests, HandlerServes(c, r)
      PROVE  BackendOK'
  BY <1>30, LinkAssumption DEF TypeOK, BackendOK, ConnOK, Conns, HandlerServes
<1>31. ASSUME NEW c \in Conns, HandlerFinds(c)
      PROVE  BackendOK'
  BY <1>31, LinkAssumption
     DEF TypeOK, BackendOK, ConnOK, Conns, HandlerFinds
<1>32. ASSUME NEW c \in Conns, HandlerChecks(c)
      PROVE  BackendOK'
  BY <1>32, LinkAssumption DEF TypeOK, BackendOK, ConnOK, Conns, HandlerChecks
<1>33. ASSUME NEW c \in Conns, HandlerRemoves(c)
      PROVE  BackendOK'
  BY <1>33, LinkAssumption DEF TypeOK, BackendOK, ConnOK, Conns, HandlerRemoves
<1>34. ASSUME NEW c \in Conns, ReaderResponds(c)
      PROVE  BackendOK'
  BY <1>34, LinkAssumption DEF TypeOK, BackendOK, ConnOK, Conns, ReaderResponds
<1>35. ASSUME NEW c \in Conns, ReaderWrites(c)
      PROVE  BackendOK'
  BY <1>35, LinkAssumption
     DEF TypeOK, BackendOK, ConnOK, Conns, ReaderWrites, Panic
<1>. QED  BY <1>1, <1>2, <1>3, <1>4, <1>5, <1>6, <1>7, <1>8, <1>9, <1>10,
            <1>11, <1>12, <1>13, <1>14, <1>15, <1>16, <1>17, <1>18, <1>19,
            <1>20, <1>21, <1>22, <1>23, <1>24, <1>25, <1>26, <1>27, <1>28,
            <1>29, <1>30, <1>31, <1>32, <1>33, <1>34, <1>35
          DEF Next, Steps, Loop, Reader, Heart, Request, Handler

\* A registered channel stays open until it is unregistered.
LEMMA RegisteredOpenStep ==
    ASSUME TypeOK, RegisteredOpen, Next
    PROVE  RegisteredOpen'
<1>. USE DEF connVars, readerVars, retryVars, closeVars, requestVars,
              chanVars, backendVars
<1>1. CASE InitConnects
  BY <1>1
     DEF TypeOK, RequestOK, ReaderOK, RegisteredOpen, InitConnects, Connect
<1>2. CASE LoopChecks
  BY <1>2 DEF TypeOK, RequestOK, ReaderOK, RegisteredOpen, LoopChecks
<1>3. CASE LoopConnects
  BY <1>3
     DEF TypeOK, RequestOK, ReaderOK, RegisteredOpen, LoopConnects, Connect
<1>4. CASE LoopRetries
  BY <1>4 DEF TypeOK, RequestOK, ReaderOK, RegisteredOpen, LoopRetries
<1>5. CASE LoopLeaves
  BY <1>5 DEF TypeOK, RequestOK, ReaderOK, RegisteredOpen, LoopLeaves
<1>6. CASE StopReconnect
  BY <1>6 DEF TypeOK, RequestOK, ReaderOK, RegisteredOpen, StopReconnect
<1>7. CASE CloseDrops
  BY <1>7
     DEF TypeOK, RequestOK, ReaderOK, RegisteredOpen, CloseDrops, Disconnect
<1>8. CASE NetworkCuts
  BY <1>8 DEF TypeOK, RequestOK, ReaderOK, RegisteredOpen, NetworkCuts
<1>9. ASSUME NEW c \in Conns, ReaderChecks(c)
      PROVE  RegisteredOpen'
  BY <1>9 DEF TypeOK, RequestOK, ReaderOK, RegisteredOpen, ReaderChecks
<1>10. ASSUME NEW c \in Conns, ReaderLoads(c)
      PROVE  RegisteredOpen'
  BY <1>10 DEF TypeOK, RequestOK, ReaderOK, RegisteredOpen, ReaderLoads, Panic
<1>11. ASSUME NEW c \in Conns, ReaderHands(c)
      PROVE  RegisteredOpen'
  BY <1>11 DEF TypeOK, RequestOK, ReaderOK, RegisteredOpen, ReaderHands, Panic
<1>12. ASSUME NEW c \in Conns, ReaderFails(c)
      PROVE  RegisteredOpen'
  BY <1>12
     DEF TypeOK, RequestOK, ReaderOK, RegisteredOpen, ReaderFails, Disconnect
<1>13. ASSUME NEW c \in Conns, ReaderTriggers(c)
      PROVE  RegisteredOpen'
  BY <1>13
     DEF TypeOK, RequestOK, ReaderOK, RegisteredOpen, ReaderTriggers,
         TriggerReconnect
<1>14. ASSUME NEW c \in Conns, ReaderHandles(c)
      PROVE  RegisteredOpen'
  BY <1>14 DEF TypeOK, RequestOK, ReaderOK, RegisteredOpen, ReaderHandles
<1>15. ASSUME NEW c \in Conns, HeartTicks(c)
      PROVE  RegisteredOpen'
  BY <1>15 DEF TypeOK, RequestOK, ReaderOK, RegisteredOpen, HeartTicks
<1>16. ASSUME NEW c \in Conns, HeartStops(c)
      PROVE  RegisteredOpen'
  BY <1>16 DEF TypeOK, RequestOK, ReaderOK, RegisteredOpen, HeartStops
<1>17. ASSUME NEW c \in Conns, HeartPings(c)
      PROVE  RegisteredOpen'
  BY <1>17 DEF TypeOK, RequestOK, ReaderOK, RegisteredOpen, HeartPings, Panic
<1>18. ASSUME NEW c \in Conns, HeartDrops(c)
      PROVE  RegisteredOpen'
  BY <1>18
     DEF TypeOK, RequestOK, ReaderOK, RegisteredOpen, HeartDrops, Disconnect
<1>19. ASSUME NEW c \in Conns, HeartTriggers(c)
      PROVE  RegisteredOpen'
  BY <1>19
     DEF TypeOK, RequestOK, ReaderOK, RegisteredOpen, HeartTriggers,
         TriggerReconnect
<1>20. ASSUME NEW c \in Conns, HandlerRegisters(c)
      PROVE  RegisteredOpen'
  BY <1>20 DEF TypeOK, RequestOK, ReaderOK, RegisteredOpen, HandlerRegisters
<1>21. ASSUME NEW c \in Conns, HandlerFails(c)
      PROVE  RegisteredOpen'
  BY <1>21 DEF TypeOK, RequestOK, ReaderOK, RegisteredOpen, HandlerFails
<1>22. ASSUME NEW c \in Conns, HandlerLeaves(c)
      PROVE  RegisteredOpen'
  BY <1>22 DEF TypeOK, RequestOK, ReaderOK, RegisteredOpen, HandlerLeaves
<1>23. ASSUME NEW r \in Requests, RequestConnects(r)
      PROVE  RegisteredOpen'
  BY <1>23
     DEF TypeOK, RequestOK, ReaderOK, RegisteredOpen, RequestConnects, Connect
<1>24. ASSUME NEW r \in Requests, RequestRegisters(r)
      PROVE  RegisteredOpen'
  BY <1>24 DEF TypeOK, RequestOK, ReaderOK, RegisteredOpen, RequestRegisters
<1>25. ASSUME NEW r \in Requests, RequestWrites(r)
      PROVE  RegisteredOpen'
  BY <1>25
     DEF TypeOK, RequestOK, ReaderOK, RegisteredOpen, RequestWrites, Panic
<1>26. ASSUME NEW r \in Requests, RequestReceives(r)
      PROVE  RegisteredOpen'
  BY <1>26 DEF TypeOK, RequestOK, ReaderOK, RegisteredOpen, RequestReceives
<1>27. ASSUME NEW r \in Requests, RequestTimesOut(r)
      PROVE  RegisteredOpen'
  BY <1>27 DEF TypeOK, RequestOK, ReaderOK, RegisteredOpen, RequestTimesOut
<1>28. ASSUME NEW r \in Requests, RequestReturns(r)
      PROVE  RegisteredOpen'
  BY <1>28
     DEF TypeOK, RequestOK, ReaderOK, RegisteredOpen, RequestReturns, Panic
<1>29. ASSUME NEW c \in Conns, NEW r \in Requests, ReaderFinds(c, r)
      PROVE  RegisteredOpen'
  BY <1>29 DEF TypeOK, RequestOK, ReaderOK, RegisteredOpen, ReaderFinds
<1>30. ASSUME NEW c \in Conns, NEW r \in Requests, HandlerServes(c, r)
      PROVE  RegisteredOpen'
  BY <1>30 DEF TypeOK, RequestOK, ReaderOK, RegisteredOpen, HandlerServes
<1>31. ASSUME NEW c \in Conns, HandlerFinds(c)
      PROVE  RegisteredOpen'
  BY <1>31 DEF TypeOK, RequestOK, ReaderOK, RegisteredOpen, HandlerFinds
<1>32. ASSUME NEW c \in Conns, HandlerChecks(c)
      PROVE  RegisteredOpen'
  BY <1>32 DEF TypeOK, RequestOK, ReaderOK, RegisteredOpen, HandlerChecks
<1>33. ASSUME NEW c \in Conns, HandlerRemoves(c)
      PROVE  RegisteredOpen'
  BY <1>33 DEF TypeOK, RequestOK, ReaderOK, RegisteredOpen, HandlerRemoves
<1>34. ASSUME NEW c \in Conns, ReaderResponds(c)
      PROVE  RegisteredOpen'
  BY <1>34 DEF TypeOK, RequestOK, ReaderOK, RegisteredOpen, ReaderResponds
<1>35. ASSUME NEW c \in Conns, ReaderWrites(c)
      PROVE  RegisteredOpen'
  BY <1>35 DEF TypeOK, RequestOK, ReaderOK, RegisteredOpen, ReaderWrites, Panic
<1>. QED  BY <1>1, <1>2, <1>3, <1>4, <1>5, <1>6, <1>7, <1>8, <1>9, <1>10,
            <1>11, <1>12, <1>13, <1>14, <1>15, <1>16, <1>17, <1>18, <1>19,
            <1>20, <1>21, <1>22, <1>23, <1>24, <1>25, <1>26, <1>27, <1>28,
            <1>29, <1>30, <1>31, <1>32, <1>33, <1>34, <1>35
          DEF Next, Steps, Loop, Reader, Heart, Request, Handler

\* Close having begun, the shutdown flag stays up.
LEMMA CloseBegunStep ==
    ASSUME TypeOK, CloseBegun, Next
    PROVE  CloseBegun'
<1>. USE DEF connVars, readerVars, retryVars, closeVars, requestVars,
              chanVars, backendVars
<1>1. CASE InitConnects
  BY <1>1 DEF TypeOK, LoopOK, CloseBegun, InitConnects, Connect
<1>2. CASE LoopChecks
  BY <1>2 DEF TypeOK, LoopOK, CloseBegun, LoopChecks
<1>3. CASE LoopConnects
  BY <1>3 DEF TypeOK, LoopOK, CloseBegun, LoopConnects, Connect
<1>4. CASE LoopRetries
  BY <1>4 DEF TypeOK, LoopOK, CloseBegun, LoopRetries
<1>5. CASE LoopLeaves
  BY <1>5 DEF TypeOK, LoopOK, CloseBegun, LoopLeaves
<1>6. CASE StopReconnect
  BY <1>6 DEF TypeOK, LoopOK, CloseBegun, StopReconnect
<1>7. CASE CloseDrops
  BY <1>7 DEF TypeOK, LoopOK, CloseBegun, CloseDrops, Disconnect
<1>8. CASE NetworkCuts
  BY <1>8 DEF TypeOK, LoopOK, CloseBegun, NetworkCuts
<1>9. ASSUME NEW c \in Conns, ReaderChecks(c)
      PROVE  CloseBegun'
  BY <1>9 DEF TypeOK, LoopOK, CloseBegun, ReaderChecks
<1>10. ASSUME NEW c \in Conns, ReaderLoads(c)
      PROVE  CloseBegun'
  BY <1>10 DEF TypeOK, LoopOK, CloseBegun, ReaderLoads, Panic
<1>11. ASSUME NEW c \in Conns, ReaderHands(c)
      PROVE  CloseBegun'
  BY <1>11 DEF TypeOK, LoopOK, CloseBegun, ReaderHands, Panic
<1>12. ASSUME NEW c \in Conns, ReaderFails(c)
      PROVE  CloseBegun'
  BY <1>12 DEF TypeOK, LoopOK, CloseBegun, ReaderFails, Disconnect
<1>13. ASSUME NEW c \in Conns, ReaderTriggers(c)
      PROVE  CloseBegun'
  BY <1>13 DEF TypeOK, LoopOK, CloseBegun, ReaderTriggers, TriggerReconnect
<1>14. ASSUME NEW c \in Conns, ReaderHandles(c)
      PROVE  CloseBegun'
  BY <1>14 DEF TypeOK, LoopOK, CloseBegun, ReaderHandles
<1>15. ASSUME NEW c \in Conns, HeartTicks(c)
      PROVE  CloseBegun'
  BY <1>15 DEF TypeOK, LoopOK, CloseBegun, HeartTicks
<1>16. ASSUME NEW c \in Conns, HeartStops(c)
      PROVE  CloseBegun'
  BY <1>16 DEF TypeOK, LoopOK, CloseBegun, HeartStops
<1>17. ASSUME NEW c \in Conns, HeartPings(c)
      PROVE  CloseBegun'
  BY <1>17 DEF TypeOK, LoopOK, CloseBegun, HeartPings, Panic
<1>18. ASSUME NEW c \in Conns, HeartDrops(c)
      PROVE  CloseBegun'
  BY <1>18 DEF TypeOK, LoopOK, CloseBegun, HeartDrops, Disconnect
<1>19. ASSUME NEW c \in Conns, HeartTriggers(c)
      PROVE  CloseBegun'
  BY <1>19 DEF TypeOK, LoopOK, CloseBegun, HeartTriggers, TriggerReconnect
<1>20. ASSUME NEW c \in Conns, HandlerRegisters(c)
      PROVE  CloseBegun'
  BY <1>20 DEF TypeOK, LoopOK, CloseBegun, HandlerRegisters
<1>21. ASSUME NEW c \in Conns, HandlerFails(c)
      PROVE  CloseBegun'
  BY <1>21 DEF TypeOK, LoopOK, CloseBegun, HandlerFails
<1>22. ASSUME NEW c \in Conns, HandlerLeaves(c)
      PROVE  CloseBegun'
  BY <1>22 DEF TypeOK, LoopOK, CloseBegun, HandlerLeaves
<1>23. ASSUME NEW r \in Requests, RequestConnects(r)
      PROVE  CloseBegun'
  BY <1>23 DEF TypeOK, LoopOK, CloseBegun, RequestConnects, Connect
<1>24. ASSUME NEW r \in Requests, RequestRegisters(r)
      PROVE  CloseBegun'
  BY <1>24 DEF TypeOK, LoopOK, CloseBegun, RequestRegisters
<1>25. ASSUME NEW r \in Requests, RequestWrites(r)
      PROVE  CloseBegun'
  BY <1>25 DEF TypeOK, LoopOK, CloseBegun, RequestWrites, Panic
<1>26. ASSUME NEW r \in Requests, RequestReceives(r)
      PROVE  CloseBegun'
  BY <1>26 DEF TypeOK, LoopOK, CloseBegun, RequestReceives
<1>27. ASSUME NEW r \in Requests, RequestTimesOut(r)
      PROVE  CloseBegun'
  BY <1>27 DEF TypeOK, LoopOK, CloseBegun, RequestTimesOut
<1>28. ASSUME NEW r \in Requests, RequestReturns(r)
      PROVE  CloseBegun'
  BY <1>28 DEF TypeOK, LoopOK, CloseBegun, RequestReturns, Panic
<1>29. ASSUME NEW c \in Conns, NEW r \in Requests, ReaderFinds(c, r)
      PROVE  CloseBegun'
  BY <1>29 DEF TypeOK, LoopOK, CloseBegun, ReaderFinds
<1>30. ASSUME NEW c \in Conns, NEW r \in Requests, HandlerServes(c, r)
      PROVE  CloseBegun'
  BY <1>30 DEF TypeOK, LoopOK, CloseBegun, HandlerServes
<1>31. ASSUME NEW c \in Conns, HandlerFinds(c)
      PROVE  CloseBegun'
  BY <1>31 DEF TypeOK, LoopOK, CloseBegun, HandlerFinds
<1>32. ASSUME NEW c \in Conns, HandlerChecks(c)
      PROVE  CloseBegun'
  BY <1>32 DEF TypeOK, LoopOK, CloseBegun, HandlerChecks
<1>33. ASSUME NEW c \in Conns, HandlerRemoves(c)
      PROVE  CloseBegun'
  BY <1>33 DEF TypeOK, LoopOK, CloseBegun, HandlerRemoves
<1>34. ASSUME NEW c \in Conns, ReaderResponds(c)
      PROVE  CloseBegun'
  BY <1>34 DEF TypeOK, LoopOK, CloseBegun, ReaderResponds
<1>35. ASSUME NEW c \in Conns, ReaderWrites(c)
      PROVE  CloseBegun'
  BY <1>35 DEF TypeOK, LoopOK, CloseBegun, ReaderWrites, Panic
<1>. QED  BY <1>1, <1>2, <1>3, <1>4, <1>5, <1>6, <1>7, <1>8, <1>9, <1>10,
            <1>11, <1>12, <1>13, <1>14, <1>15, <1>16, <1>17, <1>18, <1>19,
            <1>20, <1>21, <1>22, <1>23, <1>24, <1>25, <1>26, <1>27, <1>28,
            <1>29, <1>30, <1>31, <1>32, <1>33, <1>34, <1>35
          DEF Next, Steps, Loop, Reader, Heart, Request, Handler

\* Nothing but a request dials after Close.
LEMMA ClosedStep ==
    ASSUME TypeOK, CloseBegun, ClosedStaysClosed, Next
    PROVE  ClosedStaysClosed'
<1>. USE DEF connVars, readerVars, retryVars, closeVars, requestVars,
              chanVars, backendVars
<1>1. CASE InitConnects
  BY <1>1
     DEF TypeOK, LoopOK, ConnOK, CloseBegun, ClosedStaysClosed, Next,
         InitConnects, Connect
<1>2. CASE LoopChecks
  BY <1>2
     DEF TypeOK, LoopOK, ConnOK, CloseBegun, ClosedStaysClosed, Next,
         LoopChecks
<1>3. CASE LoopConnects
  BY <1>3
     DEF TypeOK, LoopOK, ConnOK, CloseBegun, ClosedStaysClosed, Next,
         LoopConnects, Connect
<1>4. CASE LoopRetries
  BY <1>4
     DEF TypeOK, LoopOK, ConnOK, CloseBegun, ClosedStaysClosed, Next,
         LoopRetries
<1>5. CASE LoopLeaves
  BY <1>5
     DEF TypeOK, LoopOK, ConnOK, CloseBegun, ClosedStaysClosed, Next,
         LoopLeaves
<1>6. CASE StopReconnect
  BY <1>6
     DEF TypeOK, LoopOK, ConnOK, CloseBegun, ClosedStaysClosed, Next,
         StopReconnect
<1>7. CASE CloseDrops
  BY <1>7
     DEF TypeOK, LoopOK, ConnOK, CloseBegun, ClosedStaysClosed, Next,
         CloseDrops, Disconnect
<1>8. CASE NetworkCuts
  BY <1>8
     DEF TypeOK, LoopOK, ConnOK, CloseBegun, ClosedStaysClosed, Next,
         NetworkCuts
<1>9. ASSUME NEW c \in Conns, ReaderChecks(c)
      PROVE  ClosedStaysClosed'
  BY <1>9
     DEF TypeOK, LoopOK, ConnOK, CloseBegun, ClosedStaysClosed, Next,
         ReaderChecks
<1>10. ASSUME NEW c \in Conns, ReaderLoads(c)
      PROVE  ClosedStaysClosed'
  BY <1>10
     DEF TypeOK, LoopOK, ConnOK, CloseBegun, ClosedStaysClosed, Next,
         ReaderLoads, Panic
<1>11. ASSUME NEW c \in Conns, ReaderHands(c)
      PROVE  ClosedStaysClosed'
  BY <1>11
     DEF TypeOK, LoopOK, ConnOK, CloseBegun, ClosedStaysClosed, Next,
         ReaderHands, Panic
<1>12. ASSUME NEW c \in Conns, ReaderFails(c)
      PROVE  ClosedStaysClosed'
  BY <1>12
     DEF TypeOK, LoopOK, ConnOK, CloseBegun, ClosedStaysClosed, Next,
         ReaderFails, Disconnect
<1>13. ASSUME NEW c \in Conns, ReaderTriggers(c)
      PROVE  ClosedStaysClosed'
  BY <1>13
     DEF TypeOK, LoopOK, ConnOK, CloseBegun, ClosedStaysClosed, Next,
         ReaderTriggers, TriggerReconnect
<1>14. ASSUME NEW c \in Conns, ReaderHandles(c)
      PROVE  ClosedStaysClosed'
  BY <1>14
     DEF TypeOK, LoopOK, ConnOK, CloseBegun, ClosedStaysClosed, Next,
         ReaderHandles
<1>15. ASSUME NEW c \in Conns, HeartTicks(c)
      PROVE  ClosedStaysClosed'
  BY <1>15
     DEF TypeOK, LoopOK, ConnOK, CloseBegun, ClosedStaysClosed, Next,
         HeartTicks
<1>16. ASSUME NEW c \in Conns, HeartStops(c)
      PROVE  ClosedStaysClosed'
  BY <1>16
     DEF TypeOK, LoopOK, ConnOK, CloseBegun, ClosedStaysClosed, Next,
         HeartStops
<1>17. ASSUME NEW c \in Conns, HeartPings(c)
      PROVE  ClosedStaysClosed'
  BY <1>17
     DEF TypeOK, LoopOK, ConnOK, CloseBegun, ClosedStaysClosed, Next,
         HeartPings, Panic
<1>18. ASSUME NEW c \in Conns, HeartDrops(c)
      PROVE  ClosedStaysClosed'
  BY <1>18
     DEF TypeOK, LoopOK, ConnOK, CloseBegun, ClosedStaysClosed, Next,
         HeartDrops, Disconnect
<1>19. ASSUME NEW c \in Conns, HeartTriggers(c)
      PROVE  ClosedStaysClosed'
  BY <1>19
     DEF TypeOK, LoopOK, ConnOK, CloseBegun, ClosedStaysClosed, Next,
         HeartTriggers, TriggerReconnect
<1>20. ASSUME NEW c \in Conns, HandlerRegisters(c)
      PROVE  ClosedStaysClosed'
  BY <1>20
     DEF TypeOK, LoopOK, ConnOK, CloseBegun, ClosedStaysClosed, Next,
         HandlerRegisters
<1>21. ASSUME NEW c \in Conns, HandlerFails(c)
      PROVE  ClosedStaysClosed'
  BY <1>21
     DEF TypeOK, LoopOK, ConnOK, CloseBegun, ClosedStaysClosed, Next,
         HandlerFails
<1>22. ASSUME NEW c \in Conns, HandlerLeaves(c)
      PROVE  ClosedStaysClosed'
  BY <1>22
     DEF TypeOK, LoopOK, ConnOK, CloseBegun, ClosedStaysClosed, Next,
         HandlerLeaves
<1>23. ASSUME NEW r \in Requests, RequestConnects(r)
      PROVE  ClosedStaysClosed'
  BY <1>23
     DEF TypeOK, LoopOK, ConnOK, CloseBegun, ClosedStaysClosed, Next,
         RequestConnects, Connect
<1>24. ASSUME NEW r \in Requests, RequestRegisters(r)
      PROVE  ClosedStaysClosed'
  BY <1>24
     DEF TypeOK, LoopOK, ConnOK, CloseBegun, ClosedStaysClosed, Next,
         RequestRegisters
<1>25. ASSUME NEW r \in Requests, RequestWrites(r)
      PROVE  ClosedStaysClosed'
  BY <1>25
     DEF TypeOK, LoopOK, ConnOK, CloseBegun, ClosedStaysClosed, Next,
         RequestWrites, Panic
<1>26. ASSUME NEW r \in Requests, RequestReceives(r)
      PROVE  ClosedStaysClosed'
  BY <1>26
     DEF TypeOK, LoopOK, ConnOK, CloseBegun, ClosedStaysClosed, Next,
         RequestReceives
<1>27. ASSUME NEW r \in Requests, RequestTimesOut(r)
      PROVE  ClosedStaysClosed'
  BY <1>27
     DEF TypeOK, LoopOK, ConnOK, CloseBegun, ClosedStaysClosed, Next,
         RequestTimesOut
<1>28. ASSUME NEW r \in Requests, RequestReturns(r)
      PROVE  ClosedStaysClosed'
  BY <1>28
     DEF TypeOK, LoopOK, ConnOK, CloseBegun, ClosedStaysClosed, Next,
         RequestReturns, Panic
<1>29. ASSUME NEW c \in Conns, NEW r \in Requests, ReaderFinds(c, r)
      PROVE  ClosedStaysClosed'
  BY <1>29
     DEF TypeOK, LoopOK, ConnOK, CloseBegun, ClosedStaysClosed, Next,
         ReaderFinds
<1>30. ASSUME NEW c \in Conns, NEW r \in Requests, HandlerServes(c, r)
      PROVE  ClosedStaysClosed'
  BY <1>30
     DEF TypeOK, LoopOK, ConnOK, CloseBegun, ClosedStaysClosed, Next,
         HandlerServes
<1>31. ASSUME NEW c \in Conns, HandlerFinds(c)
      PROVE  ClosedStaysClosed'
  BY <1>31
     DEF TypeOK, LoopOK, ConnOK, CloseBegun, ClosedStaysClosed, Next,
         HandlerFinds
<1>32. ASSUME NEW c \in Conns, HandlerChecks(c)
      PROVE  ClosedStaysClosed'
  BY <1>32
     DEF TypeOK, LoopOK, ConnOK, CloseBegun, ClosedStaysClosed, Next,
         HandlerChecks
<1>33. ASSUME NEW c \in Conns, HandlerRemoves(c)
      PROVE  ClosedStaysClosed'
  BY <1>33
     DEF TypeOK, LoopOK, ConnOK, CloseBegun, ClosedStaysClosed, Next,
         HandlerRemoves
<1>34. ASSUME NEW c \in Conns, ReaderResponds(c)
      PROVE  ClosedStaysClosed'
  BY <1>34
     DEF TypeOK, LoopOK, ConnOK, CloseBegun, ClosedStaysClosed, Next,
         ReaderResponds
<1>35. ASSUME NEW c \in Conns, ReaderWrites(c)
      PROVE  ClosedStaysClosed'
  BY <1>35
     DEF TypeOK, LoopOK, ConnOK, CloseBegun, ClosedStaysClosed, Next,
         ReaderWrites, Panic
<1>. QED  BY <1>1, <1>2, <1>3, <1>4, <1>5, <1>6, <1>7, <1>8, <1>9, <1>10,
            <1>11, <1>12, <1>13, <1>14, <1>15, <1>16, <1>17, <1>18, <1>19,
            <1>20, <1>21, <1>22, <1>23, <1>24, <1>25, <1>26, <1>27, <1>28,
            <1>29, <1>30, <1>31, <1>32, <1>33, <1>34, <1>35
          DEF Next, Steps, Loop, Reader, Heart, Request, Handler

\* Handlers come with the connections.
LEMMA NoHandlerYetStep ==
    ASSUME TypeOK, NoHandlerYet, Next
    PROVE  NoHandlerYet'
<1>. USE DEF connVars, readerVars, retryVars, closeVars, requestVars,
              chanVars, backendVars
<1>1. CASE InitConnects
  BY <1>1, LinkAssumption
     DEF TypeOK, BackendOK, ConnOK, Conns, NoHandlerYet, InitConnects, Connect
<1>2. CASE LoopChecks
  BY <1>2, LinkAssumption
     DEF TypeOK, BackendOK, ConnOK, Conns, NoHandlerYet, LoopChecks
<1>3. CASE LoopConnects
  BY <1>3, LinkAssumption
     DEF TypeOK, BackendOK, ConnOK, Conns, NoHandlerYet, LoopConnects, Connect
<1>4. CASE LoopRetries
  BY <1>4, LinkAssumption
     DEF TypeOK, BackendOK, ConnOK, Conns, NoHandlerYet, LoopRetries
<1>5. CASE LoopLeaves
  BY <1>5, LinkAssumption
     DEF TypeOK, BackendOK, ConnOK, Conns, NoHandlerYet, LoopLeaves
<1>6. CASE StopReconnect
  BY <1>6, LinkAssumption
     DEF TypeOK, BackendOK, ConnOK, Conns, NoHandlerYet, StopReconnect
<1>7. CASE CloseDrops
  BY <1>7, LinkAssumption
     DEF TypeOK, BackendOK, ConnOK, Conns, NoHandlerYet, CloseDrops,
         Disconnect
<1>8. CASE NetworkCuts
  BY <1>8, LinkAssumption
     DEF TypeOK, BackendOK, ConnOK, Conns, NoHandlerYet, NetworkCuts
<1>9. ASSUME NEW c \in Conns, ReaderChecks(c)
      PROVE  NoHandlerYet'
  BY <1>9, LinkAssumption
     DEF TypeOK, BackendOK, ConnOK, Conns, NoHandlerYet, ReaderChecks
<1>10. ASSUME NEW c \in Conns, ReaderLoads(c)
      PROVE  NoHandlerYet'
  BY <1>10, LinkAssumption
     DEF TypeOK, BackendOK, ConnOK, Conns, NoHandlerYet, ReaderLoads, Panic
<1>11. ASSUME NEW c \in Conns, ReaderHands(c)
      PROVE  NoHandlerYet'
  BY <1>11, LinkAssumption
     DEF TypeOK, BackendOK, ConnOK, Conns, NoHandlerYet, ReaderHands, Panic
<1>12. ASSUME NEW c \in Conns, ReaderFails(c)
      PROVE  NoHandlerYet'
  BY <1>12, LinkAssumption
     DEF TypeOK, BackendOK, ConnOK, Conns, NoHandlerYet, ReaderFails,
         Disconnect
<1>13. ASSUME NEW c \in Conns, ReaderTriggers(c)
      PROVE  NoHandlerYet'
  BY <1>13, LinkAssumption
     DEF TypeOK, BackendOK, ConnOK, Conns, NoHandlerYet, ReaderTriggers,
         TriggerReconnect
<1>14. ASSUME NEW c \in Conns, ReaderHandles(c)
      PROVE  NoHandlerYet'
  BY <1>14, LinkAssumption
     DEF TypeOK, BackendOK, ConnOK, Conns, NoHandlerYet, ReaderHandles
<1>15. ASSUME NEW c \in Conns, HeartTicks(c)
      PROVE  NoHandlerYet'
  BY <1>15, LinkAssumption
     DEF TypeOK, BackendOK, ConnOK, Conns, NoHandlerYet, HeartTicks
<1>16. ASSUME NEW c \in Conns, HeartStops(c)
      PROVE  NoHandlerYet'
  BY <1>16, LinkAssumption
     DEF TypeOK, BackendOK, ConnOK, Conns, NoHandlerYet, HeartStops
<1>17. ASSUME NEW c \in Conns, HeartPings(c)
      PROVE  NoHandlerYet'
  BY <1>17, LinkAssumption
     DEF TypeOK, BackendOK, ConnOK, Conns, NoHandlerYet, HeartPings, Panic
<1>18. ASSUME NEW c \in Conns, HeartDrops(c)
      PROVE  NoHandlerYet'
  BY <1>18, LinkAssumption
     DEF TypeOK, BackendOK, ConnOK, Conns, NoHandlerYet, HeartDrops,
         Disconnect
<1>19. ASSUME NEW c \in Conns, HeartTriggers(c)
      PROVE  NoHandlerYet'
  BY <1>19, LinkAssumption
     DEF TypeOK, BackendOK, ConnOK, Conns, NoHandlerYet, HeartTriggers,
         TriggerReconnect
<1>20. ASSUME NEW c \in Conns, HandlerRegisters(c)
      PROVE  NoHandlerYet'
  BY <1>20, LinkAssumption
     DEF TypeOK, BackendOK, ConnOK, Conns, NoHandlerYet, HandlerRegisters
<1>21. ASSUME NEW c \in Conns, HandlerFails(c)
      PROVE  NoHandlerYet'
  BY <1>21, LinkAssumption
     DEF TypeOK, BackendOK, ConnOK, Conns, NoHandlerYet, HandlerFails
<1>22. ASSUME NEW c \in Conns, HandlerLeaves(c)
      PROVE  NoHandlerYet'
  BY <1>22, LinkAssumption
     DEF TypeOK, BackendOK, ConnOK, Conns, NoHandlerYet, HandlerLeaves
<1>23. ASSUME NEW r \in Requests, RequestConnects(r)
      PROVE  NoHandlerYet'
  BY <1>23, LinkAssumption
     DEF TypeOK, BackendOK, ConnOK, Conns, NoHandlerYet, RequestConnects,
         Connect
<1>24. ASSUME NEW r \in Requests, RequestRegisters(r)
      PROVE  NoHandlerYet'
  BY <1>24, LinkAssumption
     DEF TypeOK, BackendOK, ConnOK, Conns, NoHandlerYet, RequestRegisters
<1>25. ASSUME NEW r \in Requests, RequestWrites(r)
      PROVE  NoHandlerYet'
  BY <1>25, LinkAssumption
     DEF TypeOK, BackendOK, ConnOK, Conns, NoHandlerYet, RequestWrites, Panic
<1>26. ASSUME NEW r \in Requests, RequestReceives(r)
      PROVE  NoHandlerYet'
  BY <1>26, LinkAssumption
     DEF TypeOK, BackendOK, ConnOK, Conns, NoHandlerYet, RequestReceives
<1>27. ASSUME NEW r \in Requests, RequestTimesOut(r)
      PROVE  NoHandlerYet'
  BY <1>27, LinkAssumption
     DEF TypeOK, BackendOK, ConnOK, Conns, NoHandlerYet, RequestTimesOut
<1>28. ASSUME NEW r \in Requests, RequestReturns(r)
      PROVE  NoHandlerYet'
  BY <1>28, LinkAssumption
     DEF TypeOK, BackendOK, ConnOK, Conns, NoHandlerYet, RequestReturns, Panic
<1>29. ASSUME NEW c \in Conns, NEW r \in Requests, ReaderFinds(c, r)
      PROVE  NoHandlerYet'
  BY <1>29, LinkAssumption
     DEF TypeOK, BackendOK, ConnOK, Conns, NoHandlerYet, ReaderFinds
<1>30. ASSUME NEW c \in Conns, NEW r \in Requests, HandlerServes(c, r)
      PROVE  NoHandlerYet'
  BY <1>30, LinkAssumption
     DEF TypeOK, BackendOK, ConnOK, Conns, NoHandlerYet, HandlerServes
<1>31. ASSUME NEW c \in Conns, HandlerFinds(c)
      PROVE  NoHandlerYet'
  BY <1>31, LinkAssumption
     DEF TypeOK, BackendOK, ConnOK, Conns, NoHandlerYet, HandlerFinds
<1>32. ASSUME NEW c \in Conns, HandlerChecks(c)
      PROVE  NoHandlerYet'
  BY <1>32, LinkAssumption
     DEF TypeOK, BackendOK, ConnOK, Conns, NoHandlerYet, HandlerChecks
<1>33. ASSUME NEW c \in Conns, HandlerRemoves(c)
      PROVE  NoHandlerYet'
  BY <1>33, LinkAssumption
     DEF TypeOK, BackendOK, ConnOK, Conns, NoHandlerYet, HandlerRemoves
<1>34. ASSUME NEW c \in Conns, ReaderResponds(c)
      PROVE  NoHandlerYet'
  BY <1>34, LinkAssumption
     DEF TypeOK, BackendOK, ConnOK, Conns, NoHandlerYet, ReaderResponds
<1>35. ASSUME NEW c \in Conns, ReaderWrites(c)
      PROVE  NoHandlerYet'
  BY <1>35, LinkAssumption
     DEF TypeOK, BackendOK, ConnOK, Conns, NoHandlerYet, ReaderWrites, Panic
<1>. QED  BY <1>1, <1>2, <1>3, <1>4, <1>5, <1>6, <1>7, <1>8, <1>9, <1>10,
            <1>11, <1>12, <1>13, <1>14, <1>15, <1>16, <1>17, <1>18, <1>19,
            <1>20, <1>21, <1>22, <1>23, <1>24, <1>25, <1>26, <1>27, <1>28,
            <1>29, <1>30, <1>31, <1>32, <1>33, <1>34, <1>35
          DEF Next, Steps, Loop, Reader, Heart, Request, Handler

\* What is registered has its handler.
LEMMA ServedStep ==
    ASSUME TypeOK, NoHandlerYet, RegisteredServed, Next
    PROVE  RegisteredServed'
<1>. USE DEF connVars, readerVars, retryVars, closeVars, requestVars,
              chanVars, backendVars
<1>1. CASE InitConnects
  BY <1>1, LinkAssumption
     DEF TypeOK, BackendOK, ConnOK, Conns, NoHandlerYet, RegisteredServed,
         InitConnects, Connect
<1>2. CASE LoopChecks
  BY <1>2, LinkAssumption
     DEF TypeOK, BackendOK, ConnOK, Conns, NoHandlerYet, RegisteredServed,
         LoopChecks
<1>3. CASE LoopConnects
  BY <1>3, LinkAssumption
     DEF TypeOK, BackendOK, ConnOK, Conns, NoHandlerYet, RegisteredServed,
         LoopConnects, Connect
<1>4. CASE LoopRetries
  BY <1>4, LinkAssumption
     DEF TypeOK, BackendOK, ConnOK, Conns, NoHandlerYet, RegisteredServed,
         LoopRetries
<1>5. CASE LoopLeaves
  BY <1>5, LinkAssumption
     DEF TypeOK, BackendOK, ConnOK, Conns, NoHandlerYet, RegisteredServed,
         LoopLeaves
<1>6. CASE StopReconnect
  BY <1>6, LinkAssumption
     DEF TypeOK, BackendOK, ConnOK, Conns, NoHandlerYet, RegisteredServed,
         StopReconnect
<1>7. CASE CloseDrops
  BY <1>7, LinkAssumption
     DEF TypeOK, BackendOK, ConnOK, Conns, NoHandlerYet, RegisteredServed,
         CloseDrops, Disconnect
<1>8. CASE NetworkCuts
  BY <1>8, LinkAssumption
     DEF TypeOK, BackendOK, ConnOK, Conns, NoHandlerYet, RegisteredServed,
         NetworkCuts
<1>9. ASSUME NEW c \in Conns, ReaderChecks(c)
      PROVE  RegisteredServed'
  BY <1>9, LinkAssumption
     DEF TypeOK, BackendOK, ConnOK, Conns, NoHandlerYet, RegisteredServed,
         ReaderChecks
<1>10. ASSUME NEW c \in Conns, ReaderLoads(c)
      PROVE  RegisteredServed'
  BY <1>10, LinkAssumption
     DEF TypeOK, BackendOK, ConnOK, Conns, NoHandlerYet, RegisteredServed,
         ReaderLoads, Panic
<1>11. ASSUME NEW c \in Conns, ReaderHands(c)
      PROVE  RegisteredServed'
  BY <1>11, LinkAssumption
     DEF TypeOK, BackendOK, ConnOK, Conns, NoHandlerYet, RegisteredServed,
         ReaderHands, Panic
<1>12. ASSUME NEW c \in Conns, ReaderFails(c)
      PROVE  RegisteredServed'
  BY <1>12, LinkAssumption
     DEF TypeOK, BackendOK, ConnOK, Conns, NoHandlerYet, RegisteredServed,
         ReaderFails, Disconnect
<1>13. ASSUME NEW c \in Conns, ReaderTriggers(c)
      PROVE  RegisteredServed'
  BY <1>13, LinkAssumption
     DEF TypeOK, BackendOK, ConnOK, Conns, NoHandlerYet, RegisteredServed,
         ReaderTriggers, TriggerReconnect
<1>14. ASSUME NEW c \in Conns, ReaderHandles(c)
      PROVE  RegisteredServed'
  BY <1>14, LinkAssumption
     DEF TypeOK, BackendOK, ConnOK, Conns, NoHandlerYet, RegisteredServed,
         ReaderHandles
<1>15. ASSUME NEW c \in Conns, HeartTicks(c)
      PROVE  RegisteredServed'
  BY <1>15, LinkAssumption
     DEF TypeOK, BackendOK, ConnOK, Conns, NoHandlerYet, RegisteredServed,
         HeartTicks
<1>16. ASSUME NEW c \in Conns, HeartStops(c)
      PROVE  RegisteredServed'
  BY <1>16, LinkAssumption
     DEF TypeOK, BackendOK, ConnOK, Conns, NoHandlerYet, RegisteredServed,
         HeartStops
<1>17. ASSUME NEW c \in Conns, HeartPings(c)
      PROVE  RegisteredServed'
  BY <1>17, LinkAssumption
     DEF TypeOK, BackendOK, ConnOK, Conns, NoHandlerYet, RegisteredServed,
         HeartPings, Panic
<1>18. ASSUME NEW c \in Conns, HeartDrops(c)
      PROVE  RegisteredServed'
  BY <1>18, LinkAssumption
     DEF TypeOK, BackendOK, ConnOK, Conns, NoHandlerYet, RegisteredServed,
         HeartDrops, Disconnect
<1>19. ASSUME NEW c \in Conns, HeartTriggers(c)
      PROVE  RegisteredServed'
  BY <1>19, LinkAssumption
     DEF TypeOK, BackendOK, ConnOK, Conns, NoHandlerYet, RegisteredServed,
         HeartTriggers, TriggerReconnect
<1>20. ASSUME NEW c \in Conns, HandlerRegisters(c)
      PROVE  RegisteredServed'
  BY <1>20, LinkAssumption
     DEF TypeOK, BackendOK, ConnOK, Conns, NoHandlerYet, RegisteredServed,
         HandlerRegisters
<1>21. ASSUME NEW c \in Conns, HandlerFails(c)
      PROVE  RegisteredServed'
  BY <1>21, LinkAssumption
     DEF TypeOK, BackendOK, ConnOK, Conns, NoHandlerYet, RegisteredServed,
         HandlerFails
<1>22. ASSUME NEW c \in Conns, HandlerLeaves(c)
      PROVE  RegisteredServed'
  BY <1>22, LinkAssumption
     DEF TypeOK, BackendOK, ConnOK, Conns, NoHandlerYet, RegisteredServed,
         HandlerLeaves
<1>23. ASSUME NEW r \in Requests, RequestConnects(r)
      PROVE  RegisteredServed'
  BY <1>23, LinkAssumption
     DEF TypeOK, BackendOK, ConnOK, Conns, NoHandlerYet, RegisteredServed,
         RequestConnects, Connect
<1>24. ASSUME NEW r \in Requests, RequestRegisters(r)
      PROVE  RegisteredServed'
  BY <1>24, LinkAssumption
     DEF TypeOK, BackendOK, ConnOK, Conns, NoHandlerYet, RegisteredServed,
         RequestRegisters
<1>25. ASSUME NEW r \in Requests, RequestWrites(r)
      PROVE  RegisteredServed'
  BY <1>25, LinkAssumption
     DEF TypeOK, BackendOK, ConnOK, Conns, NoHandlerYet, RegisteredServed,
         RequestWrites, Panic
<1>26. ASSUME NEW r \in Requests, RequestReceives(r)
      PROVE  RegisteredServed'
  BY <1>26, LinkAssumption
     DEF TypeOK, BackendOK, ConnOK, Conns, NoHandlerYet, RegisteredServed,
         RequestReceives
<1>27. ASSUME NEW r \in Requests, RequestTimesOut(r)
      PROVE  RegisteredServed'
  BY <1>27, LinkAssumption
     DEF TypeOK, BackendOK, ConnOK, Conns, NoHandlerYet, RegisteredServed,
         RequestTimesOut
<1>28. ASSUME NEW r \in Requests, RequestReturns(r)
      PROVE  RegisteredServed'
  BY <1>28, LinkAssumption
     DEF TypeOK, BackendOK, ConnOK, Conns, NoHandlerYet, RegisteredServed,
         RequestReturns, Panic
<1>29. ASSUME NEW c \in Conns, NEW r \in Requests, ReaderFinds(c, r)
      PROVE  RegisteredServed'
  BY <1>29, LinkAssumption
     DEF TypeOK, BackendOK, ConnOK, Conns, NoHandlerYet, RegisteredServed,
         ReaderFinds
<1>30. ASSUME NEW c \in Conns, NEW r \in Requests, HandlerServes(c, r)
      PROVE  RegisteredServed'
  BY <1>30, LinkAssumption
     DEF TypeOK, BackendOK, ConnOK, Conns, NoHandlerYet, RegisteredServed,
         HandlerServes
<1>31. ASSUME NEW c \in Conns, HandlerFinds(c)
      PROVE  RegisteredServed'
  BY <1>31, LinkAssumption
     DEF TypeOK, BackendOK, ConnOK, Conns, NoHandlerYet, RegisteredServed,
         HandlerFinds
<1>32. ASSUME NEW c \in Conns, HandlerChecks(c)
      PROVE  RegisteredServed'
  BY <1>32, LinkAssumption
     DEF TypeOK, BackendOK, ConnOK, Conns, NoHandlerYet, RegisteredServed,
         HandlerChecks
<1>33. ASSUME NEW c \in Conns, HandlerRemoves(c)
      PROVE  RegisteredServed'
  BY <1>33, LinkAssumption
     DEF TypeOK, BackendOK, ConnOK, Conns, NoHandlerYet, RegisteredServed,
         HandlerRemoves
<1>34. ASSUME NEW c \in Conns, ReaderResponds(c)
      PROVE  RegisteredServed'
  BY <1>34, LinkAssumption
     DEF TypeOK, BackendOK, ConnOK, Conns, NoHandlerYet, RegisteredServed,
         ReaderResponds
<1>35. ASSUME NEW c \in Conns, ReaderWrites(c)
      PROVE  RegisteredServed'
  BY <1>35, LinkAssumption
     DEF TypeOK, BackendOK, ConnOK, Conns, NoHandlerYet, RegisteredServed,
         ReaderWrites, Panic
<1>. QED  BY <1>1, <1>2, <1>3, <1>4, <1>5, <1>6, <1>7, <1>8, <1>9, <1>10,
            <1>11, <1>12, <1>13, <1>14, <1>15, <1>16, <1>17, <1>18, <1>19,
            <1>20, <1>21, <1>22, <1>23, <1>24, <1>25, <1>26, <1>27, <1>28,
            <1>29, <1>30, <1>31, <1>32, <1>33, <1>34, <1>35
          DEF Next, Steps, Loop, Reader, Heart, Request, Handler

\* The connection in use keeps a reader.
LEMMA AttendedStep ==
    ASSUME TypeOK, Attended, Next
    PROVE  Attended'
<1>. USE DEF connVars, readerVars, retryVars, closeVars, requestVars,
              chanVars, backendVars
<1>1. CASE InitConnects
  <2>1. CASE Connect("init")
    BY <2>1, ConnectAttended
  <2>. QED  BY <1>1, <2>1, SameReaders DEF InitConnects
<1>2. CASE LoopChecks
  BY <1>2, SameReaders DEF LoopChecks
<1>3. CASE LoopConnects
  BY <1>3, ConnectAttended DEF LoopConnects
<1>4. CASE LoopRetries
  BY <1>4, SameReaders DEF LoopRetries
<1>5. CASE LoopLeaves
  BY <1>5, SameReaders DEF LoopLeaves
<1>6. CASE StopReconnect
  BY <1>6, SameReaders DEF StopReconnect
<1>7. CASE CloseDrops
  BY <1>7, DisconnectAttended DEF CloseDrops
<1>8. CASE NetworkCuts
  BY <1>8, SameReaders DEF NetworkCuts
<1>9. ASSUME NEW c \in Conns, ReaderChecks(c)
      PROVE  Attended'
  <2>1. CASE isConnected
    <3>1. reader'[c] = "load"
      BY <1>9, <2>1 DEF ReaderChecks, TypeOK, ReaderOK
    <3>. QED  BY <3>1, ReaderTurns DEF Turning
  <2>2. CASE ~isConnected
    BY <1>9, <2>2, NoConnection DEF ReaderChecks, TypeOK, ConnOK
  <2>. QED  BY <2>1, <2>2
<1>10. ASSUME NEW c \in Conns, ReaderLoads(c)
      PROVE  Attended'
  <2>1. CASE Panic
    BY <2>1, SameReaders DEF Panic
  <2>2. CASE ~Panic
    <3>1. reader'[c] = "read" /\ on'[c] = conn'
      BY <1>10, <2>2 DEF ReaderLoads, TypeOK, ReaderOK
    <3>. QED  BY <3>1, ReaderTurns DEF Turning
  <2>. QED  BY <2>1, <2>2
<1>11. ASSUME NEW c \in Conns, ReaderHands(c)
      PROVE  Attended'
  <2>1. CASE Panic
    BY <2>1, SameReaders DEF Panic
  <2>2. CASE ~Panic
    <3>1. reader'[c] = "check"
      BY <1>11, <2>2 DEF ReaderHands, TypeOK, ReaderOK
    <3>. QED  BY <3>1, ReaderTurns DEF Turning
  <2>. QED  BY <2>1, <2>2
<1>12. ASSUME NEW c \in Conns, ReaderFails(c)
      PROVE  Attended'
  BY <1>12, DisconnectAttended DEF ReaderFails
<1>13. ASSUME NEW c \in Conns, ReaderTriggers(c)
      PROVE  Attended'
  <2>1. CASE conn = 0
    BY <1>13, <2>1, NoConnection DEF ReaderTriggers
  <2>2. CASE conn # 0
    <3>1. PICK d \in Conns :
             \/ reader[d] \in Turning
             \/ reader[d] = "read" /\ (on[d] = conn \/ on[d] \notin up)
      BY <2>2 DEF Attended
    <3>2. reader'[d] = reader[d] /\ UNCHANGED <<on, conn, up>>
      BY <1>13, <3>1 DEF ReaderTriggers, TypeOK, ReaderOK, Turning
    <3>3. \/ reader'[d] \in Turning
          \/ reader'[d] = "read" /\ (on'[d] = conn' \/ on'[d] \notin up')
      BY <3>1, <3>2
    <3>. QED  BY <3>3 DEF Attended
  <2>. QED  BY <2>1, <2>2
<1>14. ASSUME NEW c \in Conns, ReaderHandles(c)
      PROVE  Attended'
  <2>1. reader'[c] \in {"check", "handle"}
    BY <1>14 DEF ReaderHandles, TypeOK, ReaderOK
  <2>. QED  BY <2>1, ReaderTurns DEF Turning
<1>15. ASSUME NEW c \in Conns, HeartTicks(c)
      PROVE  Attended'
  BY <1>15, SameReaders DEF HeartTicks
<1>16. ASSUME NEW c \in Conns, HeartStops(c)
      PROVE  Attended'
  BY <1>16, SameReaders DEF HeartStops
<1>17. ASSUME NEW c \in Conns, HeartPings(c)
      PROVE  Attended'
  BY <1>17, SameReaders DEF HeartPings, Panic
<1>18. ASSUME NEW c \in Conns, HeartDrops(c)
      PROVE  Attended'
  BY <1>18, DisconnectAttended DEF HeartDrops
<1>19. ASSUME NEW c \in Conns, HeartTriggers(c)
      PROVE  Attended'
  BY <1>19, SameReaders DEF HeartTriggers, TriggerReconnect
<1>20. ASSUME NEW c \in Conns, HandlerRegisters(c)
      PROVE  Attended'
  BY <1>20, SameReaders DEF HandlerRegisters
<1>21. ASSUME NEW c \in Conns, HandlerFails(c)
      PROVE  Attended'
  BY <1>21, SameReaders DEF HandlerFails
<1>22. ASSUME NEW c \in Conns, HandlerLeaves(c)
      PROVE  Attended'
  BY <1>22, SameReaders DEF HandlerLeaves
<1>23. ASSUME NEW r \in Requests, RequestConnects(r)
      PROVE  Attended'
  <2>1. CASE Connect(r)
    BY <2>1, ConnectAttended
  <2>. QED  BY <1>23, <2>1, SameReaders DEF RequestConnects
<1>24. ASSUME NEW r \in Requests, RequestRegisters(r)
      PROVE  Attended'
  BY <1>24, SameReaders DEF RequestRegisters
<1>25. ASSUME NEW r \in Requests, RequestWrites(r)
      PROVE  Attended'
  BY <1>25, SameReaders DEF RequestWrites, Panic
<1>26. ASSUME NEW r \in Requests, RequestReceives(r)
      PROVE  Attended'
  BY <1>26, SameReaders DEF RequestReceives
<1>27. ASSUME NEW r \in Requests, RequestTimesOut(r)
      PROVE  Attended'
  BY <1>27, SameReaders DEF RequestTimesOut
<1>28. ASSUME NEW r \in Requests, RequestReturns(r)
      PROVE  Attended'
  BY <1>28, SameReaders DEF RequestReturns, Panic
<1>29. ASSUME NEW c \in Conns, NEW r \in Requests, ReaderFinds(c, r)
      PROVE  Attended'
  <2>1. reader'[c] \in {"check", "hand"}
    BY <1>29 DEF ReaderFinds, TypeOK, ReaderOK
  <2>. QED  BY <2>1, ReaderTurns DEF Turning
<1>30. ASSUME NEW c \in Conns, NEW r \in Requests, HandlerServes(c, r)
      PROVE  Attended'
  BY <1>30, SameReaders DEF HandlerServes
<1>31. ASSUME NEW c \in Conns, HandlerFinds(c)
      PROVE  Attended'
  BY <1>31, SameReaders DEF HandlerFinds
<1>32. ASSUME NEW c \in Conns, HandlerChecks(c)
      PROVE  Attended'
  BY <1>32, SameReaders DEF HandlerChecks
<1>33. ASSUME NEW c \in Conns, HandlerRemoves(c)
      PROVE  Attended'
  BY <1>33, SameReaders DEF HandlerRemoves
<1>34. ASSUME NEW c \in Conns, ReaderResponds(c)
      PROVE  Attended'
  <2>1. CASE isConnected
    <3>1. reader'[c] = "answer"
      BY <1>34, <2>1 DEF ReaderResponds, TypeOK, ReaderOK
    <3>. QED  BY <3>1, ReaderTurns DEF Turning
  <2>2. CASE ~isConnected
    BY <1>34, <2>2, NoConnection DEF ReaderResponds, TypeOK, ConnOK
  <2>. QED  BY <2>1, <2>2
<1>35. ASSUME NEW c \in Conns, ReaderWrites(c)
      PROVE  Attended'
  <2>1. CASE Panic
    BY <2>1, SameReaders DEF Panic
  <2>2. CASE ~Panic
    <3>1. reader'[c] = "check"
      BY <1>35, <2>2 DEF ReaderWrites, TypeOK, ReaderOK
    <3>. QED  BY <3>1, ReaderTurns DEF Turning
  <2>. QED  BY <2>1, <2>2
<1>. QED  BY <1>1, <1>2, <1>3, <1>4, <1>5, <1>6, <1>7, <1>8, <1>9, <1>10,
            <1>11, <1>12, <1>13, <1>14, <1>15, <1>16, <1>17, <1>18, <1>19,
            <1>20, <1>21, <1>22, <1>23, <1>24, <1>25, <1>26, <1>27, <1>28,
            <1>29, <1>30, <1>31, <1>32, <1>33, <1>34, <1>35
          DEF Next, Steps, Loop, Reader, Heart, Request, Handler

-----------------------------------------------------------------------------
(***************************************************************************)
(* The theorems.                                                           *)
(***************************************************************************)
\* Whatever the order of dials, drops and panics, isConnected says whether
\* there is a connection, isRetrying whether startReconnectLoop runs, and
\* every other field has its type.
THEOREM LinkTypeCorrect == Spec => []TypeOK
<1>1. Init => TypeOK
  <2>. SUFFICES ASSUME Init
                PROVE  TypeOK
    OBVIOUS
  <2>1. ConnOK
    <3>1. /\ conn \in 0 .. dials /\ dials \in 0 .. MaxConns
          /\ cuts \in 0 .. MaxCuts /\ conn = 0 /\ isConnected = FALSE
      BY LinkAssumption DEF Init
    <3>2. dialler = "none" /\ up = {} /\ crashed = FALSE
      BY DEF Init
    <3>. QED  BY <3>1, <3>2, Zenon DEF ConnOK
  <2>2. ReaderOK
    BY LinkAssumption DEF Init, ReaderOK
  <2>3. LoopOK
    BY DEF Init, LoopOK
  <2>4. RequestOK
    BY LinkAssumption DEF Init, RequestOK
  <2>5. BackendOK
    BY LinkAssumption DEF Init, BackendOK
  <2>. QED  BY <2>1, <2>2, <2>3, <2>4, <2>5 DEF TypeOK
<1>2. TypeOK /\ [Next]_vars => TypeOK'
  <2>1. ASSUME TypeOK, Next
        PROVE  TypeOK'
    BY <2>1, ConnStep, ReaderStep, LoopStep, RequestStep, BackendStep DEF TypeOK
  <2>2. ASSUME TypeOK, UNCHANGED vars
        PROVE  TypeOK'
    BY <2>2 DEF TypeOK, ConnOK, ReaderOK, LoopOK, RequestOK, BackendOK, vars,
       connVars, readerVars, retryVars, closeVars, requestVars, chanVars,
       backendVars
  <2>. QED  BY <2>1, <2>2
<1>. QED  BY <1>1, <1>2, PTL DEF Spec

\* handleIncomingResponse finds only open channels under the lock, although
\* both disconnect and SendRequest's deferred function close them.
THEOREM LookupFindsOpen == Spec => []RegisteredOpen
<1>1. Init => RegisteredOpen
  BY DEF Init, RegisteredOpen
<1>2. TypeOK /\ RegisteredOpen /\ [Next]_vars => RegisteredOpen'
  <2>1. ASSUME RegisteredOpen, UNCHANGED vars
        PROVE  RegisteredOpen'
    BY <2>1 DEF RegisteredOpen, vars, chanVars
  <2>. QED  BY <2>1, RegisteredOpenStep
<1>. QED  BY <1>1, <1>2, LinkTypeCorrect, PTL DEF Spec

\* Once manager.Close has returned, no reader, heartbeat or loop left over
\* from before dials again; only SendRequest can.
THEOREM CloseIsFinal == Spec => []ClosedStaysClosed
<1>1. Init => CloseBegun /\ ClosedStaysClosed
  BY DEF Init, CloseBegun, ClosedStaysClosed
<1>2. TypeOK /\ CloseBegun /\ ClosedStaysClosed /\ [Next]_vars
        => (CloseBegun /\ ClosedStaysClosed)'
  <2>1. ASSUME CloseBegun, ClosedStaysClosed, UNCHANGED vars
        PROVE  (CloseBegun /\ ClosedStaysClosed)'
    BY <2>1 DEF CloseBegun, ClosedStaysClosed, vars, connVars, retryVars,
       closeVars
  <2>. QED  BY <2>1, CloseBegunStep, ClosedStep
<1>. QED  BY <1>1, <1>2, LinkTypeCorrect, PTL DEF Spec

\* HandleWebSocket and removeClient never leave a connection registered whose
\* handler has left, whoever's registration they overwrite or remove.
THEOREM RegistrationServed == Spec => []RegisteredServed
<1>1. Init => NoHandlerYet /\ RegisteredServed
  BY DEF Init, NoHandlerYet, RegisteredServed
<1>2. TypeOK /\ NoHandlerYet /\ RegisteredServed /\ [Next]_vars
        => (NoHandlerYet /\ RegisteredServed)'
  <2>1. ASSUME NoHandlerYet, RegisteredServed, UNCHANGED vars
        PROVE  (NoHandlerYet /\ RegisteredServed)'
    BY <2>1 DEF NoHandlerYet, RegisteredServed, vars, connVars, backendVars
  <2>. QED  BY <2>1, NoHandlerYetStep, ServedStep
<1>. QED  BY <1>1, <1>2, LinkTypeCorrect, PTL DEF Spec

\* The client's connection is always read by some handleMessages loop, or
\* about to be, whichever loops outlive the connections they were started for.
THEOREM ConnectionAttended == Spec => []Attended
<1>1. Init => Attended
  BY DEF Init, Attended
<1>2. TypeOK /\ Attended /\ [Next]_vars => Attended'
  <2>1. ASSUME Attended, UNCHANGED vars
        PROVE  Attended'
    BY <2>1, SameReaders DEF vars, connVars, readerVars
  <2>. QED  BY <2>1, AttendedStep
<1>. QED  BY <1>1, <1>2, LinkTypeCorrect, PTL DEF Spec
=============================================================================
