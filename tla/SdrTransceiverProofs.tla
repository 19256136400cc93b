------------------------ MODULE SdrTransceiverProofs ------------------------
(* Proofs about sdr-transceiver.c: for any number of connections, of        *)
(* clients that come and go, and any size of the blocks, sock_thread[]      *)
(* keeps the handlers of a role apart, so that a client's settings stay and *)
(* the transmitter is keyed for nobody who has left; and what passes        *)
(* through the two FIFOs stays whole.                                       *)
EXTENDS SdrTransceiver, SequenceTheorems, TLAPS

Params == [freq : {0, 1}, sync : {0, 1}, rate : 0 .. 5]
\* Where the server is with a connection that has a role.
Busy == {"orphan", "start", "serve", "restore", "free",
         "check", "wait", "copy", "send", "fill", "recv"}
States == Busy \cup {"none", "queued", "accepted"}

Typed ==
    /\ up \in BOOLEAN /\ asked \in Asked
    /\ hello \in [Conns -> Roles \cup {"other", None}]
    /\ thread \in [Conns -> States]
    /\ backlog \in Seq(Conns) /\ line \in Conns \cup {None}
    /\ sock_thread \in [Roles -> Conns \cup {None}]
    /\ wanted \in [Conns -> Params] /\ settings \in [Ctrl -> Params]
    /\ gpio \in {0, 1}

\* A handler has the role its client asked for, hence alone.
Owned == \A c \in Conns :
            thread[c] \in Busy => hello[c] \in Roles /\ sock_thread[hello[c]] = c

\* The main thread hands over connections that no handler has, one by one.
Waiting ==
    /\ \A i \in DOMAIN backlog : thread[backlog[i]] = "queued"
    /\ \A i, j \in DOMAIN backlog : backlog[i] = backlog[j] => i = j
    /\ line # None => thread[line] = "accepted"

Down == ~up => \A c \in Conns : thread[c] = "none"

Commanded == \A c \in Conns :
    /\ thread[c] = "start" => wanted[c] = Default
    /\ thread[c] = "serve" /\ hello[c] \in Ctrl => settings[hello[c]] = wanted[c]

Served == Typed /\ Owned /\ Waiting /\ Down /\ Commanded /\ KeyedForClient

service == <<up, asked, hello, thread, backlog, line, sock_thread, wanted, settings, gpio>>

-----------------------------------------------------------------------------
LEMMA RoleFacts ==
    /\ Block \in Nat \ {0} /\ None \notin Conns /\ None \notin Roles
    /\ \A words \in Asked : words \subseteq Roles \cup {"other"}
    /\ Ctrl \subseteq Roles /\ Default \in Params
    /\ RX_CTRL # TX_CTRL /\ {RX_CTRL, TX_CTRL} = Ctrl
    /\ RX_DATA \notin Ctrl /\ TX_DATA \notin Ctrl /\ RX_DATA # TX_DATA
  BY SdrAssumption DEF Roles, Ctrl, RX_CTRL, RX_DATA, TX_CTRL, TX_DATA, Default, Params

LEMMA ApplyTyped ==
  ASSUME NEW command \in Commands, NEW old \in Params
  PROVE  Apply(command, old) \in Params
<1>1. CASE command.kind = "freq"
  <2>1. command.value \in {0, 1}
    BY <1>1 DEF Commands
  <2> QED
    BY <1>1, <2>1 DEF Apply, Params
<1>2. CASE command.kind = "rate" /\ command.value \in 0 .. 5
  BY <1>2 DEF Apply, Params
<1>3. CASE ~(command.kind = "freq") /\ ~(command.kind = "rate" /\ command.value \in 0 .. 5)
  BY <1>3 DEF Apply
<1> QED
  BY <1>1, <1>2, <1>3

LEMMA InitServed == Init => Served
<1> SUFFICES ASSUME Init PROVE Served
  OBVIOUS
<1>1. Typed
  BY RoleFacts DEF Init, Typed, States
<1>2. \A c \in Conns : thread[c] = "none"
  BY DEF Init
<1>3. Owned /\ Waiting /\ Down /\ Commanded
  BY <1>2 DEF Init, Owned, Waiting, Down, Commanded, Busy
<1>4. KeyedForClient
  BY DEF Init, KeyedForClient
<1> QED
  BY <1>1, <1>3, <1>4 DEF Served

\* What a handler does to its own connection only.
LEMMA HandlerMoves ==
  ASSUME Served, NEW c \in Conns, NEW to \in Busy \ {"start", "serve"},
         thread[c] \in Busy \ {"serve", "restore"},
         thread' \in {thread, [thread EXCEPT ![c] = to]},
         UNCHANGED <<up, asked, hello, backlog, line, sock_thread, wanted, settings, gpio>>
  PROVE  Served'
<1>1. /\ thread \in [Conns -> States] /\ Busy \subseteq States
      /\ backlog \in Seq(Conns) /\ line \in Conns \cup {None}
  BY DEF Served, Typed, States
<1>2. /\ thread' \in [Conns -> States]
      /\ \A d \in Conns : d # c => thread'[d] = thread[d]
      /\ thread'[c] \in {thread[c], to}
  BY <1>1
<1>3. Typed'
  BY <1>2 DEF Served, Typed
<1>4. Owned'
  BY <1>2 DEF Served, Owned
<1>5. Waiting'
  <2>1. thread[c] # "queued" /\ thread[c] # "accepted"
    BY DEF Busy
  <2>2. \A i \in DOMAIN backlog : backlog[i] \in Conns
    BY <1>1
  <2> QED
    BY <1>1, <1>2, <2>1, <2>2 DEF Served, Waiting
<1>6. Down' /\ Commanded'
  BY <1>2 DEF Served, Down, Commanded, Busy
<1>7. KeyedForClient'
  BY <1>2 DEF Served, KeyedForClient
<1> QED
  BY <1>3, <1>4, <1>5, <1>6, <1>7 DEF Served

\* What leaves the service alone.
LEMMA ServiceKept ==
  ASSUME Served, UNCHANGED service
  PROVE  Served'
<1>1. Typed' /\ Owned' /\ Waiting' /\ Down' /\ Commanded'
  BY DEF Served, service, Typed, Owned, Waiting, Down, Commanded
<1>2. KeyedForClient'
  BY DEF Served, service, KeyedForClient
<1> QED
  BY <1>1, <1>2 DEF Served

\* A connection that no handler has changes hands.
LEMMA OthersKept ==
  ASSUME Served, NEW c \in Conns, NEW to \in States \ Busy,
         thread[c] \notin Busy,
         thread' = [thread EXCEPT ![c] = to],
         \A d \in Conns \ {c} : hello'[d] = hello[d],
         hello' \in [Conns -> Roles \cup {"other", None}],
         backlog' \in Seq(Conns), line' \in Conns \cup {None},
         up, UNCHANGED <<up, asked, sock_thread, wanted, settings, gpio>>
  PROVE  Typed' /\ Owned' /\ Down' /\ Commanded' /\ KeyedForClient'
<1>1. /\ thread' \in [Conns -> States]
      /\ \A d \in Conns : d # c => thread'[d] = thread[d]
      /\ thread'[c] = to
  BY DEF Served, Typed
<1>2. Typed'
  BY <1>1 DEF Served, Typed
<1>3. Owned'
  BY <1>1 DEF Served, Owned
<1>4. Down' /\ Commanded'
  BY <1>1 DEF Served, Down, Commanded, Busy
<1>5. KeyedForClient'
  BY <1>1 DEF Served, KeyedForClient, Busy
<1> QED
  BY <1>2, <1>3, <1>4, <1>5

LEMMA ConnectServed ==
  ASSUME Served, NEW c \in Conns, Connect(c)
  PROVE  Served'
<1>1. /\ thread[c] = "none" /\ thread' = [thread EXCEPT ![c] = "queued"]
      /\ backlog' = Append(backlog, c) /\ up
      /\ UNCHANGED <<up, asked, hello, line, sock_thread, wanted, settings, gpio>>
  BY DEF Connect, radio
<1>2. /\ backlog \in Seq(Conns) /\ thread \in [Conns -> States] /\ line \in Conns \cup {None}
      /\ hello \in [Conns -> Roles \cup {"other", None}]
  BY DEF Served, Typed
<1>3. Typed' /\ Owned' /\ Down' /\ Commanded' /\ KeyedForClient'
  <2>1. backlog' \in Seq(Conns) /\ "queued" \in States \ Busy /\ thread[c] \notin Busy
    BY <1>1, <1>2 DEF States, Busy
  <2>2. line' \in Conns \cup {None} /\ hello' = hello
    BY <1>1, <1>2
  <2> QED
    BY <1>1, <1>2, <2>1, <2>2, OthersKept
<1>4. Waiting'
  <2>1. /\ \A i \in 1 .. Len(backlog) : backlog'[i] = backlog[i] /\ backlog[i] \in Conns
        /\ backlog'[Len(backlog) + 1] = c
        /\ DOMAIN backlog' = 1 .. Len(backlog) + 1 /\ DOMAIN backlog = 1 .. Len(backlog)
    BY <1>1, <1>2
  <2>2. /\ \A i \in 1 .. Len(backlog) : thread[backlog[i]] = "queued" /\ backlog[i] # c
        /\ line # None => thread[line] = "accepted" /\ line # c
    BY <1>1, <2>1 DEF Served, Waiting
  <2>3. \A i \in DOMAIN backlog' : thread'[backlog'[i]] = "queued"
    BY <1>1, <1>2, <2>1, <2>2
  <2>4. \A i, j \in DOMAIN backlog' : backlog'[i] = backlog'[j] => i = j
    BY <1>1, <2>1, <2>2 DEF Served, Waiting
  <2>5. line' # None => thread'[line'] = "accepted"
    BY <1>1, <1>2, <2>2
  <2> QED
    BY <2>3, <2>4, <2>5 DEF Waiting
<1> QED
  BY <1>3, <1>4 DEF Served

LEMMA NameServed ==
  ASSUME Served, NEW c \in Conns, NameRole(c)
  PROVE  Served'
<1>1. /\ UNCHANGED <<up, asked, thread, backlog, line, sock_thread, wanted, settings, gpio>>
      /\ hello[c] = None
      /\ \E word \in asked : hello' = [hello EXCEPT ![c] = word]
  BY DEF NameRole, roles, radio
<1>2. hello \in [Conns -> Roles \cup {"other", None}] /\ asked \subseteq Roles \cup {"other"}
  BY RoleFacts DEF Served, Typed
<1>3. /\ hello' \in [Conns -> Roles \cup {"other", None}]
      /\ \A d \in Conns : d # c => hello'[d] = hello[d]
  BY <1>1, <1>2
<1>4. Typed' /\ Waiting' /\ Down'
  BY <1>1, <1>3 DEF Served, Typed, Waiting, Down
<1>5. thread[c] \notin Busy
  BY <1>1, RoleFacts DEF Served, Owned
<1>6. Owned' /\ Commanded'
  BY <1>1, <1>3, <1>5 DEF Served, Owned, Commanded, Busy
<1>7. KeyedForClient'
  BY <1>1, <1>3, <1>5 DEF Served, KeyedForClient, Busy
<1> QED
  BY <1>4, <1>6, <1>7 DEF Served

LEMMA AcceptServed ==
  ASSUME Served, Accept
  PROVE  Served'
<1>1. backlog \in Seq(Conns) /\ backlog # <<>> /\ up /\ line = None
  BY DEF Accept, Served, Typed
<1>2. PICK c \in Conns : c = Head(backlog)
  BY <1>1
<1>3. /\ line' = c /\ backlog' = Tail(backlog)
      /\ thread' = [thread EXCEPT ![c] = "accepted"]
      /\ UNCHANGED <<up, asked, hello, sock_thread, wanted, settings, gpio>>
  BY <1>2 DEF Accept, sockets, radio
<1>4. /\ DOMAIN backlog = 1 .. Len(backlog) /\ Len(backlog) \in Nat \ {0} /\ backlog[1] = c
      /\ backlog' \in Seq(Conns) /\ DOMAIN backlog' = 1 .. Len(backlog) - 1
      /\ \A i \in 1 .. Len(backlog) - 1 : backlog'[i] = backlog[i + 1]
  BY <1>1, <1>2, <1>3
<1>5. thread[c] = "queued" /\ c # None
  BY <1>4, RoleFacts DEF Served, Waiting
<1>6. Typed' /\ Owned' /\ Down' /\ Commanded' /\ KeyedForClient'
  <2>1. hello \in [Conns -> Roles \cup {"other", None}]
    BY DEF Served, Typed
  <2> QED
    BY <1>1, <1>3, <1>4, <1>5, <2>1, OthersKept DEF States, Busy
<1>7. Waiting'
  <2>1. thread \in [Conns -> States] /\ \A i \in DOMAIN backlog : backlog[i] \in Conns
    BY <1>1 DEF Served, Typed
  <2>2. \A i \in 1 .. Len(backlog) - 1 : /\ i + 1 \in DOMAIN backlog /\ 1 \in DOMAIN backlog
                                         /\ i + 1 # 1
    BY <1>4
  <2>3. \A i \in DOMAIN backlog' : backlog'[i] # c /\ thread[backlog'[i]] = "queued"
    BY <1>4, <2>2 DEF Served, Waiting
  <2>4. \A i \in DOMAIN backlog' : thread'[backlog'[i]] = "queued"
    BY <1>3, <1>4, <2>1, <2>2, <2>3
  <2>5. \A i, j \in DOMAIN backlog' : backlog'[i] = backlog'[j] => i = j
    BY <1>4, <2>2 DEF Served, Waiting
  <2>6. thread'[line'] = "accepted"
    BY <1>3, <2>1
  <2> QED
    BY <2>4, <2>5, <2>6 DEF Waiting
<1> QED
  BY <1>6, <1>7 DEF Served

LEMMA RefuseServed ==
  ASSUME Served, NEW c \in Conns, Refuse(c)
  PROVE  Served'
<1>1. /\ line = c /\ line' = None
      /\ thread' = [thread EXCEPT ![c] = "none"] /\ hello' = [hello EXCEPT ![c] = None]
      /\ UNCHANGED <<up, asked, backlog, sock_thread, wanted, settings, gpio>>
  BY DEF Refuse, Received, Close, radio
<1>2. thread[c] = "accepted" /\ up
  BY <1>1, RoleFacts DEF Served, Waiting, Down, Typed
<1>3. /\ thread \in [Conns -> States] /\ backlog \in Seq(Conns)
      /\ hello \in [Conns -> Roles \cup {"other", None}]
  BY DEF Served, Typed
<1>4. Typed' /\ Owned' /\ Down' /\ Commanded' /\ KeyedForClient'
  <2>1. /\ hello' \in [Conns -> Roles \cup {"other", None}]
        /\ \A d \in Conns \ {c} : hello'[d] = hello[d]
    BY <1>1, <1>3
  <2> QED
    BY <1>1, <1>2, <1>3, <2>1, OthersKept DEF States, Busy
<1>5. Waiting'
  <2>1. \A i \in DOMAIN backlog : backlog[i] \in Conns
    BY <1>3
  <2> QED
    BY <1>1, <1>2, <1>3, <2>1 DEF Served, Waiting
<1> QED
  BY <1>4, <1>5 DEF Served

LEMMA ServeServed ==
  ASSUME Served, NEW c \in Conns, Serve(c)
  PROVE  Served'
<1>1. PICK to \in {"start", "orphan"} : thread' = [thread EXCEPT ![c] = to]
  BY DEF Serve
<1>2. /\ line = c /\ line' = None /\ hello[c] \in Roles /\ sock_thread[hello[c]] = None
      /\ sock_thread' = [sock_thread EXCEPT ![hello[c]] = c]
      /\ wanted' = [wanted EXCEPT ![c] = Default]
      /\ UNCHANGED <<up, asked, hello, backlog, settings, gpio>>
  BY DEF Serve, Received, Refused, sockets, radio
<1>3. /\ thread \in [Conns -> States] /\ backlog \in Seq(Conns)
      /\ sock_thread \in [Roles -> Conns \cup {None}] /\ wanted \in [Conns -> Params]
      /\ thread[c] = "accepted" /\ up
  BY <1>2, RoleFacts DEF Served, Typed, Waiting, Down
<1>4. /\ thread' \in [Conns -> States] /\ to \in Busy /\ thread'[c] = to
      /\ \A d \in Conns : d # c => thread'[d] = thread[d] /\ wanted'[d] = wanted[d]
      /\ wanted' \in [Conns -> Params] /\ wanted'[c] = Default
      /\ sock_thread' \in [Roles -> Conns \cup {None}] /\ sock_thread'[hello[c]] = c
      /\ \A r \in Roles : r # hello[c] => sock_thread'[r] = sock_thread[r]
  BY <1>1, <1>2, <1>3, RoleFacts DEF States, Busy
<1>5. Typed'
  BY <1>2, <1>4 DEF Served, Typed
<1>6. Owned'
  <2>1. ASSUME NEW d \in Conns, d # c, thread[d] \in Busy
        PROVE  hello[d] \in Roles /\ hello[d] # hello[c] /\ sock_thread[hello[d]] = d
    BY <1>2, <2>1, RoleFacts DEF Served, Owned
  <2> QED
    BY <1>2, <1>4, <2>1 DEF Owned
<1>7. Waiting'
  <2>1. \A i \in DOMAIN backlog : backlog[i] \in Conns
    BY <1>3
  <2> QED
    BY <1>2, <1>3, <1>4, <2>1 DEF Served, Waiting
<1>8. Down' /\ Commanded'
  BY <1>1, <1>2, <1>3, <1>4 DEF Served, Down, Commanded
<1>9. KeyedForClient'
  BY <1>2, <1>3, <1>4, RoleFacts DEF Served, KeyedForClient, Roles
<1> QED
  BY <1>5, <1>6, <1>7, <1>8, <1>9 DEF Served

\* The control handlers change their own direction's settings.
LEMMA ControlMoves ==
  ASSUME Served, NEW c \in Conns, NEW role \in Ctrl, NEW to \in {"serve", "restore", "free"},
         hello[c] = role, thread[c] \in {"start", "serve", "restore"},
         thread' = [thread EXCEPT ![c] = to],
         settings' \in [Ctrl -> Params],
         \A r \in Ctrl \ {role} : settings'[r] = settings[r],
         wanted' \in [Conns -> Params],
         \A d \in Conns \ {c} : wanted'[d] = wanted[d],
         to = "serve" => settings'[role] = wanted'[c],
         gpio' \in {0, 1}, role # TX_CTRL => gpio' = gpio,
         to = "free" /\ role = TX_CTRL => gpio' = 0,
         thread[c] = "start" /\ role = TX_CTRL => gpio' = 0,
         UNCHANGED <<up, asked, hello, backlog, line, sock_thread>>
  PROVE  Served'
<1>1. /\ thread \in [Conns -> States] /\ backlog \in Seq(Conns)
      /\ role \in Roles /\ sock_thread[role] = c
      /\ thread[c] \in Busy
  BY RoleFacts DEF Served, Typed, Owned, Busy
<1>2. /\ thread' \in [Conns -> States] /\ to \in Busy /\ thread'[c] = to
      /\ \A d \in Conns : d # c => thread'[d] = thread[d]
  BY <1>1 DEF States, Busy
<1>3. \A d \in Conns : d # c /\ thread[d] \in Busy => hello[d] # role
  BY <1>1 DEF Served, Owned
<1>4. Typed'
  BY <1>2 DEF Served, Typed
<1>5. Owned'
  BY <1>1, <1>2 DEF Served, Owned
<1>6. Waiting'
  <2>1. \A i \in DOMAIN backlog : backlog[i] \in Conns
    BY <1>1
  <2>2. thread[c] # "queued" /\ thread[c] # "accepted"
    OBVIOUS
  <2> QED
    BY <1>1, <1>2, <2>1, <2>2 DEF Served, Waiting, Typed
<1>7. Down'
  BY <1>2 DEF Served, Down
<1>8. Commanded'
  BY <1>2, <1>3 DEF Served, Commanded, Busy
<1>9. KeyedForClient'
  <2>1. CASE role = TX_CTRL
    BY <1>1, <1>2, <2>1 DEF Served, KeyedForClient
  <2>2. CASE role # TX_CTRL
    BY <1>2, <2>2 DEF Served, KeyedForClient
  <2> QED
    BY <2>1, <2>2
<1> QED
  BY <1>4, <1>5, <1>6, <1>7, <1>8, <1>9 DEF Served

LEMMA ControlServed ==
  ASSUME Served, NEW c \in Conns, Control(c)
  PROVE  Served'
<1>1. settings \in [Ctrl -> Params] /\ wanted \in [Conns -> Params] /\ gpio \in {0, 1}
  BY DEF Served, Typed
<1>2. CASE StartCtrl(c)
  <2>1. PICK role \in Ctrl : /\ Serves(c, role, "start") /\ Goto(c, "serve")
                             /\ SetDefaults(role)
                             /\ UNCHANGED <<asked, up, sockets, roles>>
    BY <1>2 DEF StartCtrl
  <2>2. wanted[c] = Default
    BY <2>1 DEF Served, Commanded, Serves
  <2>3. /\ hello[c] = role /\ thread[c] = "start" /\ thread' = [thread EXCEPT ![c] = "serve"]
        /\ settings' \in [Ctrl -> Params] /\ settings'[role] = wanted'[c]
        /\ \A r \in Ctrl \ {role} : settings'[r] = settings[r]
        /\ gpio' \in {0, 1} /\ (role # TX_CTRL => gpio' = gpio)
        /\ (role = TX_CTRL => gpio' = 0)
        /\ UNCHANGED <<up, asked, hello, backlog, line, sock_thread, wanted>>
    BY <1>1, <2>1, <2>2, RoleFacts DEF Serves, Goto, SetDefaults, sockets, roles
  <2> QED
    BY <1>1, <2>3, ControlMoves
<1>3. CASE ReadCommand(c)
  <2>1. PICK role \in Ctrl, command \in Commands :
          /\ Serves(c, role, "serve")
          /\ settings' = [settings EXCEPT ![role] = Apply(command, @)]
          /\ wanted' = [wanted EXCEPT ![c] = Apply(command, @)]
          /\ gpio' = IF command.kind = "ptt" /\ role = TX_CTRL
                       THEN command.value ELSE gpio
          /\ UNCHANGED <<asked, up, hello, thread, backlog, line, sock_thread>>
    BY <1>3 DEF ReadCommand
  <2>2. settings[role] = wanted[c] /\ hello[c] = role /\ thread[c] = "serve"
    BY <2>1 DEF Served, Commanded, Serves
  <2>3. Apply(command, wanted[c]) \in Params
    BY <1>1, ApplyTyped
  <2>4. /\ settings' \in [Ctrl -> Params] /\ wanted' \in [Conns -> Params]
        /\ settings'[role] = wanted'[c]
        /\ \A r \in Ctrl \ {role} : settings'[r] = settings[r]
        /\ \A d \in Conns \ {c} : wanted'[d] = wanted[d]
    BY <1>1, <2>1, <2>2, <2>3
  <2>5. gpio' \in {0, 1} /\ (role # TX_CTRL => gpio' = gpio)
    BY <1>1, <2>1 DEF Commands
  <2>6. thread' = [thread EXCEPT ![c] = "serve"]
    BY <2>1, <2>2 DEF Served, Typed
  <2> QED
    BY <2>1, <2>2, <2>4, <2>5, <2>6, ControlMoves
<1>4. CASE EndCtrl(c)
  <2>1. PICK role \in Ctrl : /\ Serves(c, role, "serve") /\ Goto(c, "restore")
                             /\ UNCHANGED <<asked, up, sockets, roles, radio>>
    BY <1>4 DEF EndCtrl
  <2>2. /\ hello[c] = role /\ thread[c] = "serve" /\ thread' = [thread EXCEPT ![c] = "restore"]
        /\ UNCHANGED <<up, asked, hello, backlog, line, sock_thread, wanted, settings, gpio>>
    BY <2>1 DEF Serves, Goto, sockets, roles, radio
  <2> QED
    BY <1>1, <2>2, ControlMoves
<1>5. CASE Restore(c)
  <2>1. PICK role \in Ctrl : /\ Serves(c, role, "restore") /\ Goto(c, "free")
                             /\ SetDefaults(role)
                             /\ UNCHANGED <<asked, up, sockets, roles>>
    BY <1>5 DEF Restore
  <2>2. /\ hello[c] = role /\ thread[c] = "restore" /\ thread' = [thread EXCEPT ![c] = "free"]
        /\ settings' \in [Ctrl -> Params]
        /\ \A r \in Ctrl \ {role} : settings'[r] = settings[r]
        /\ gpio' \in {0, 1} /\ (role # TX_CTRL => gpio' = gpio)
        /\ (role = TX_CTRL => gpio' = 0)
        /\ UNCHANGED <<up, asked, hello, backlog, line, sock_thread, wanted>>
    BY <1>1, <2>1, RoleFacts DEF Serves, Goto, SetDefaults, sockets, roles
  <2> QED
    BY <1>1, <2>2, ControlMoves
<1> QED
  BY <1>2, <1>3, <1>4, <1>5 DEF Control

\* The role is given back by the handler that had it.
LEMMA FreeServed ==
  ASSUME Served, NEW c \in Conns, Free(c)
  PROVE  Served'
<1>1. PICK role \in Roles :
        /\ hello[c] = role /\ thread[c] = "free" /\ up
        /\ thread' = [thread EXCEPT ![c] = "none"] /\ hello' = [hello EXCEPT ![c] = None]
        /\ sock_thread' = [sock_thread EXCEPT ![role] = None]
        /\ wanted' = [wanted EXCEPT ![c] = Default]
        /\ UNCHANGED <<up, asked, backlog, line, settings, gpio>>
  BY DEF Free, Serves, Close, radio
<1>2. /\ thread \in [Conns -> States] /\ backlog \in Seq(Conns)
      /\ hello \in [Conns -> Roles \cup {"other", None}]
      /\ sock_thread \in [Roles -> Conns \cup {None}] /\ wanted \in [Conns -> Params]
      /\ sock_thread[role] = c
  BY <1>1 DEF Served, Typed, Owned, Busy
<1>3. /\ thread' \in [Conns -> States] /\ thread'[c] = "none"
      /\ hello' \in [Conns -> Roles \cup {"other", None}]
      /\ \A d \in Conns : d # c => /\ thread'[d] = thread[d] /\ hello'[d] = hello[d]
                                   /\ wanted'[d] = wanted[d]
      /\ wanted' \in [Conns -> Params]
      /\ sock_thread' \in [Roles -> Conns \cup {None}]
      /\ \A r \in Roles : r # role => sock_thread'[r] = sock_thread[r]
  BY <1>1, <1>2, RoleFacts DEF States
<1>4. Typed'
  BY <1>1, <1>3 DEF Served, Typed
<1>5. Owned'
  <2>1. \A d \in Conns : d # c /\ thread[d] \in Busy => hello[d] # role
    BY <1>2 DEF Served, Owned
  <2> QED
    BY <1>3, <2>1 DEF Served, Owned, Busy
<1>6. Waiting'
  <2>1. \A i \in DOMAIN backlog : backlog[i] \in Conns
    BY <1>2
  <2> QED
    BY <1>1, <1>3, <2>1 DEF Served, Waiting, Typed
<1>7. Down' /\ Commanded'
  BY <1>1, <1>3 DEF Served, Down, Commanded
<1>8. KeyedForClient'
  BY <1>1, <1>2, <1>3, RoleFacts DEF Served, KeyedForClient
<1> QED
  BY <1>4, <1>5, <1>6, <1>7, <1>8 DEF Served

LEMMA ProcessServed ==
  ASSUME Served, Die \/ Restart
  PROVE  Served'
<1>1. CASE Die
  <2>1. /\ up' = FALSE /\ hello' = [d \in Conns |-> None] /\ thread' = [d \in Conns |-> "none"]
        /\ backlog' = <<>> /\ line' = None /\ sock_thread' = [r \in Roles |-> None]
        /\ wanted' = [d \in Conns |-> Default] /\ UNCHANGED <<asked, settings, gpio>>
    BY <1>1 DEF Die, radio
  <2>2. Typed'
    <3>1. up' \in BOOLEAN /\ asked' \in Asked /\ gpio' \in {0, 1} /\ settings' \in [Ctrl -> Params]
      BY <2>1 DEF Served, Typed
    <3>2. backlog' \in Seq(Conns) /\ line' \in Conns \cup {None}
      BY <2>1
    <3>3. /\ hello' \in [Conns -> Roles \cup {"other", None}]
          /\ thread' \in [Conns -> States]
      BY <2>1 DEF States
    <3>4. sock_thread' \in [Roles -> Conns \cup {None}] /\ wanted' \in [Conns -> Params]
      BY <2>1, RoleFacts
    <3> QED
      BY <3>1, <3>2, <3>3, <3>4 DEF Typed
  <2>3. Owned' /\ Waiting' /\ Down' /\ Commanded'
    BY <2>1 DEF Owned, Waiting, Down, Commanded, Busy
  <2>4. KeyedForClient'
    BY <2>1 DEF KeyedForClient
  <2> QED
    BY <2>2, <2>3, <2>4 DEF Served
<1>2. CASE Restart
  <2>1. /\ ~up /\ up' = TRUE /\ gpio' = 0 /\ settings' = [r \in Ctrl |-> Default]
        /\ UNCHANGED <<asked, hello, thread, backlog, line, sock_thread, wanted>>
    BY <1>2 DEF Restart, sockets, roles
  <2>2. Typed'
    BY <2>1, RoleFacts DEF Served, Typed
  <2>3. \A c \in Conns : thread[c] = "none"
    BY <2>1 DEF Served, Down
  <2>4. Owned' /\ Waiting' /\ Down' /\ Commanded'
    BY <2>1, <2>3 DEF Served, Owned, Waiting, Down, Commanded
  <2>5. KeyedForClient'
    BY <2>1 DEF KeyedForClient
  <2> QED
    BY <2>2, <2>4, <2>5 DEF Served
<1> QED
  BY <1>1, <1>2

\* The data handlers move through their own states.
LEMMA DataServed ==
  ASSUME Served, NEW c \in Conns,
         Receive(c) \/ Transmit(c) \/ SendRx(c) \/ SendFails(c)
  PROVE  Served'
<1>1. /\ UNCHANGED <<up, asked, hello, backlog, line, sock_thread, wanted, settings, gpio>>
      /\ thread[c] \in Busy \ {"serve", "restore"}
      /\ \E to \in Busy \ {"start", "serve"} : thread' \in {thread, [thread EXCEPT ![c] = to]}
  <2>1. CASE Receive(c)
    BY <2>1 DEF Receive, StartRx, CheckRx, WaitRx, CopyRx, Serves, Goto, Busy,
                sockets, roles, radio
  <2>2. CASE Transmit(c)
    BY <2>2 DEF Transmit, StartTx, WaitTx, FillTx, RecvTx, EndTx, Serves, Goto, Busy,
                sockets, roles, radio
  <2>3. CASE SendRx(c) \/ SendFails(c)
    BY <2>3 DEF SendRx, SendFails, Serves, Goto, Busy, sockets, roles, radio
  <2> QED
    BY <2>1, <2>2, <2>3
<1> QED
  BY <1>1, HandlerMoves

LEMMA NextServed == Served /\ [Next]_vars => Served'
<1> SUFFICES ASSUME Served, [Next]_vars PROVE Served'
  OBVIOUS
<1>1. ASSUME NEW c \in Conns, Clients(c) PROVE Served'
  <2>1. CASE SendWord(c) \/ Leave(c)
    BY <2>1, ServiceKept DEF SendWord, Leave, service, roles, radio
  <2> QED
    BY <1>1, <2>1, ConnectServed, NameServed DEF Clients
<1>2. ASSUME NEW c \in Conns, Listener(c) PROVE Served'
  BY <1>2, RefuseServed, ServeServed DEF Listener
<1>3. ASSUME NEW c \in Conns, Handler(c) \/ SendRx(c) \/ SendFails(c) PROVE Served'
  BY <1>3, ControlServed, DataServed, FreeServed DEF Handler
<1>4. CASE Sample \/ Drain
  BY <1>4, ServiceKept DEF Sample, Drain, service, sockets, roles, radio
<1>5. CASE Accept \/ Die \/ Restart
  BY <1>5, AcceptServed, ProcessServed
<1>6. CASE UNCHANGED vars
  BY <1>6, ServiceKept DEF vars, service
<1> QED
  BY <1>1, <1>2, <1>3, <1>4, <1>5, <1>6 DEF Next

\* The inductive invariant: a role has the one handler that sock_thread[] names.
THEOREM ServedTheorem == Spec => []Served
<1>1. Init => Served
  BY InitServed
<1>2. Served /\ [Next]_vars => Served'
  BY NextServed
<1> QED
  BY <1>1, <1>2, PTL DEF Spec

\* However many clients come and go and however often the process dies: what a
\* control client has set stays set for as long as it is served.
THEOREM SettingsTheorem == Spec => []SettingsAsCommanded
<1>1. Served => SettingsAsCommanded
  BY DEF Served, Owned, Commanded, SettingsAsCommanded, Serves, Busy
<1> QED
  BY <1>1, ServedTheorem, PTL

\* Likewise the transmitter is keyed for a client that is served, or not at all.
THEOREM KeyedTheorem == Spec => []KeyedForClient
<1>1. Served => KeyedForClient
  BY DEF Served
<1> QED
  BY <1>1, ServedTheorem, PTL

-----------------------------------------------------------------------------
\* The streams.  Positions count what rx_data_handler has copied and, behind
\* it, what is in the FIFO; a block starts at every multiple of Block.
StartsBlock(k) == k \in {1, Block + 1, 2 * Block + 1, 3 * Block + 1}

Gapless ==
    /\ \A i \in 1 .. Len(block) : block[i] => StartsBlock(i)
    /\ \A i \in 1 .. Len(rx_fifo) : rx_fifo[i] => StartsBlock(Len(block) + i)
    /\ lost => StartsBlock(Len(block) + Len(rx_fifo) + 1)

Reads(c) == hello[c] = RX_DATA /\ thread[c] \in {"check", "wait", "copy", "send"}

ReceiverTyped ==
    /\ rx_fifo \in Seq(BOOLEAN) /\ Len(rx_fifo) <= Depth
    /\ block \in Seq(BOOLEAN) /\ Len(block) <= Block
    /\ lost \in BOOLEAN /\ torn \in BOOLEAN

\* While a block is copied the rest of it is in the FIFO.
Copying == \A c \in Conns : Reads(c) =>
    /\ thread[c] \in {"check", "wait"} => Len(block) = 0
    /\ thread[c] = "copy" => Len(block) + Len(rx_fifo) >= Block
    /\ thread[c] = "send" => Len(block) = Block
    /\ torn \/ Gapless

SocketsTyped ==
    /\ client \in [Conns -> {"away", "open", "gone", "reset"}]
    /\ inbox \in [Conns -> 0 .. Block]

\* There is room in the FIFO when tx_data_handler writes.
Filling ==
    /\ tx_fifo \in Seq(BOOLEAN) /\ Len(tx_fifo) <= Depth /\ short \in BOOLEAN
    /\ \A c \in Conns : hello[c] = TX_DATA /\ thread[c] \in {"fill", "recv"}
                            => Len(tx_fifo) <= Block
    /\ NothingSpilled /\ NothingRepeated

LEMMA BoolSeq ==
  ASSUME NEW f \in Seq(BOOLEAN)
  PROVE  /\ Len(f) \in Nat /\ \A i \in 1 .. Len(f) : f[i] \in BOOLEAN
         /\ \A b \in BOOLEAN : /\ Append(f, b) \in Seq(BOOLEAN)
                               /\ Len(Append(f, b)) = Len(f) + 1
                               /\ Append(f, b)[Len(f) + 1] = b
                               /\ \A i \in 1 .. Len(f) : Append(f, b)[i] = f[i]
         /\ f # <<>> => /\ Len(f) >= 1 /\ Head(f) = f[1] /\ Head(f) \in BOOLEAN
                        /\ Tail(f) \in Seq(BOOLEAN) /\ Len(Tail(f)) = Len(f) - 1
                        /\ \A i \in 1 .. Len(f) - 1 : Tail(f)[i] = f[i + 1]
         /\ <<>> \in Seq(BOOLEAN) /\ Len(<<>>) = 0
         /\ (Len(f) = 0) => (f = <<>>)
  OBVIOUS

LEMMA SampleGapless ==
  ASSUME ReceiverTyped, Sample, NEW c \in Conns, Reads(c), Copying
  PROVE  /\ rx_fifo' \in Seq(BOOLEAN) /\ Len(rx_fifo') <= Depth
         /\ lost' \in BOOLEAN /\ torn' \in BOOLEAN
         /\ Len(rx_fifo') >= Len(rx_fifo)
         /\ torn' \/ Gapless'
<1>1. block' = block
  BY DEF Sample
<1>2. Depth = 2 * Block /\ Block \in Nat \ {0}
  BY RoleFacts DEF Depth
<1>3. CASE Len(rx_fifo) < Depth
  <2>1. rx_fifo' = Append(rx_fifo, lost) /\ lost' = FALSE /\ torn' = torn
    BY <1>3 DEF Sample
  <2> DEFINE n == Len(rx_fifo)
  <2>2. /\ n \in Nat /\ lost \in BOOLEAN /\ torn \in BOOLEAN
        /\ rx_fifo' \in Seq(BOOLEAN) /\ Len(rx_fifo') = n + 1 /\ rx_fifo'[n + 1] = lost
        /\ \A i \in 1 .. n : rx_fifo'[i] = rx_fifo[i]
    BY <2>1, BoolSeq DEF ReceiverTyped
  <2>3. ASSUME Gapless, NEW i \in 1 .. n + 1, rx_fifo'[i]
        PROVE  StartsBlock(Len(block) + i)
    <3>1. CASE i = n + 1
      <4>1. lost
        BY <2>2, <2>3, <3>1
      <4>2. Len(block) + i = Len(block) + Len(rx_fifo) + 1
        BY <2>2, <3>1, BoolSeq DEF ReceiverTyped
      <4> QED
        BY <2>3, <4>1, <4>2 DEF Gapless
    <3>2. CASE i \in 1 .. n
      BY <2>2, <2>3, <3>2 DEF Gapless
    <3> QED
      BY <2>2, <3>1, <3>2
  <2>4. Gapless => Gapless'
    <3> HIDE DEF n
    <3> SUFFICES ASSUME Gapless PROVE Gapless'
      OBVIOUS
    <3>1. \A i \in 1 .. Len(block') : block'[i] => StartsBlock(i)
      BY <1>1 DEF Gapless
    <3>2. \A i \in 1 .. Len(rx_fifo') : rx_fifo'[i] => StartsBlock(Len(block') + i)
      BY <1>1, <2>2, <2>3
    <3> QED
      BY <2>1, <3>1, <3>2 DEF Gapless, StartsBlock
  <2>5. torn \/ Gapless
    BY DEF Copying
  <2>6. Len(rx_fifo') <= Depth /\ Len(rx_fifo') >= Len(rx_fifo)
    BY <1>2, <1>3, <2>2
  <2> QED
    BY <2>1, <2>2, <2>4, <2>5, <2>6, Zenon
<1>4. CASE ~(Len(rx_fifo) < Depth)
  <2>1. /\ rx_fifo' = rx_fifo /\ lost' = TRUE
        /\ torn' = (torn \/ Len(block) \in 1 .. Block - 1)
    BY <1>4 DEF Sample
  <2>2. Len(rx_fifo) = 2 * Block
    BY <1>2, <1>4, BoolSeq DEF ReceiverTyped
  <2>3. Len(block) \notin 1 .. Block - 1 => Len(block) = 0 \/ Len(block) = Block
    BY <1>2, BoolSeq DEF ReceiverTyped
  <2>4. Gapless /\ Len(block) \notin 1 .. Block - 1 => Gapless'
    BY <1>1, <1>2, <2>1, <2>2, <2>3 DEF Gapless, StartsBlock
  <2>5. torn \/ Gapless
    BY DEF Copying
  <2>6. /\ rx_fifo \in Seq(BOOLEAN) /\ Len(rx_fifo) <= Depth /\ Len(rx_fifo) >= Len(rx_fifo)
        /\ torn \in BOOLEAN
    BY BoolSeq DEF ReceiverTyped
  <2>7. (torn \/ Len(block) \in 1 .. Block - 1) \in BOOLEAN
    OBVIOUS
  <2> QED
    BY <2>1, <2>4, <2>5, <2>6, <2>7, Zenon
<1> QED
  BY <1>3, <1>4

\* A word moves from the FIFO to the block: no position changes.
LEMMA CopyGapless ==
  ASSUME ReceiverTyped, NEW c \in Conns, CopyRx(c), Len(block) < Block, rx_fifo # <<>>
  PROVE  /\ block' \in Seq(BOOLEAN) /\ Len(block') = Len(block) + 1
         /\ rx_fifo' \in Seq(BOOLEAN) /\ Len(rx_fifo') = Len(rx_fifo) - 1
         /\ Len(rx_fifo) \in Nat /\ Len(block) \in Nat
         /\ Gapless => Gapless'
<1> DEFINE n == Len(rx_fifo)
           m == Len(block)
<1>1. rx_fifo \in Seq(BOOLEAN) /\ block \in Seq(BOOLEAN)
  BY DEF ReceiverTyped
<1>2. n \in Nat /\ m \in Nat /\ n >= 1
  BY <1>1, BoolSeq
<1> DEFINE taken == rx_fifo = <<>> \/ Head(rx_fifo)
<1>3. block' = Append(block, taken) /\ rx_fifo' = Tail(rx_fifo) /\ lost' = lost
  BY DEF CopyRx
<1>4. Head(rx_fifo) \in BOOLEAN /\ Head(rx_fifo) = rx_fifo[1]
  BY <1>1, BoolSeq
<1>5. taken = Head(rx_fifo)
  BY <1>4
<1> HIDE DEF taken
<1>6. /\ Head(rx_fifo) = rx_fifo[1] /\ Head(rx_fifo) \in BOOLEAN
      /\ rx_fifo' \in Seq(BOOLEAN) /\ Len(rx_fifo') = n - 1
      /\ \A i \in 1 .. n - 1 : rx_fifo'[i] = rx_fifo[i + 1]
  BY <1>1, <1>3, BoolSeq
<1>7. block' = Append(block, rx_fifo[1]) /\ rx_fifo[1] \in BOOLEAN
  BY <1>3, <1>4, <1>5
<1>8. /\ block' \in Seq(BOOLEAN) /\ Len(block') = m + 1
      /\ block'[m + 1] = rx_fifo[1]
      /\ \A i \in 1 .. m : block'[i] = block[i]
  BY <1>1, <1>7, BoolSeq
<1>9. /\ Gapless => \A i \in 1 .. m : block[i] => StartsBlock(i)
      /\ Gapless => \A i \in 1 .. n : rx_fifo[i] => StartsBlock(m + i)
      /\ Gapless => (lost => StartsBlock(m + n + 1))
  BY DEF Gapless
<1> HIDE DEF n, m
<1>10. ASSUME Gapless PROVE Gapless'
  <2>1. ASSUME NEW i \in 1 .. m + 1, block'[i] PROVE StartsBlock(i)
    <3>1. CASE i = m + 1
      <4>1. rx_fifo[1] /\ 1 \in 1 .. n /\ m + 1 = i
        BY <1>2, <1>8, <2>1, <3>1
      <4> QED
        BY <1>9, <1>10, <4>1
    <3>2. CASE i \in 1 .. m
      BY <1>8, <1>9, <1>10, <2>1, <3>2
    <3> QED
      BY <1>2, <3>1, <3>2
  <2>2. ASSUME NEW i \in 1 .. n - 1, rx_fifo'[i]
        PROVE  StartsBlock(m + 1 + i)
    <3>1. i + 1 \in 1 .. n /\ m + (i + 1) = m + 1 + i
      BY <1>2
    <3>2. rx_fifo[i + 1]
      BY <1>6, <2>2
    <3>3. StartsBlock(m + (i + 1))
      BY <1>9, <1>10, <3>1, <3>2
    <3> QED
      BY <3>1, <3>3
  <2>3. Len(block') + Len(rx_fifo') + 1 = m + n + 1
    BY <1>2, <1>6, <1>8
  <2>4. lost' => StartsBlock(Len(block') + Len(rx_fifo') + 1)
    BY <1>3, <1>9, <1>10, <2>3
  <2>5. \A i \in 1 .. Len(block') : block'[i] => StartsBlock(i)
    BY <1>8, <2>1
  <2>6. \A i \in 1 .. Len(rx_fifo') : rx_fifo'[i] => StartsBlock(Len(block') + i)
    BY <1>6, <1>8, <2>2
  <2> QED
    BY <2>4, <2>5, <2>6 DEF Gapless, StartsBlock
<1> QED
  BY <1>2, <1>6, <1>8, <1>10 DEF n, m

\* The block has been sent: positions move by a block.
LEMMA SendGapless ==
  ASSUME ReceiverTyped, Len(block) = Block, block' = <<>>, rx_fifo' = rx_fifo, lost' = lost,
         Gapless
  PROVE  Gapless'
<1>1. /\ Block \in Nat \ {0} /\ Len(rx_fifo) \in Nat /\ Len(block') = 0
      /\ Len(rx_fifo) <= 2 * Block
  BY RoleFacts, BoolSeq DEF ReceiverTyped, Depth
<1>2. \A k \in Nat : k >= 1 /\ StartsBlock(Block + k) => StartsBlock(k)
  BY <1>1 DEF StartsBlock
<1>3. \A i \in 1 .. Len(rx_fifo') : rx_fifo'[i] => StartsBlock(Len(block') + i)
  <2>1. ASSUME NEW i \in 1 .. Len(rx_fifo), rx_fifo[i] PROVE StartsBlock(0 + i)
    <3>1. StartsBlock(Block + i)
      BY <2>1 DEF Gapless
    <3> QED
      BY <1>1, <1>2, <3>1
  <2> QED
    BY <1>1, <2>1
<1>4. lost' => StartsBlock(Len(block') + Len(rx_fifo') + 1)
  <2>1. lost => StartsBlock(Block + (Len(rx_fifo) + 1))
    BY <1>1 DEF Gapless
  <2>2. Len(block') + Len(rx_fifo') + 1 = Len(rx_fifo) + 1 /\ Len(rx_fifo) + 1 \in Nat
    BY <1>1
  <2> QED
    BY <1>1, <1>2, <2>1, <2>2
<1> QED
  BY <1>1, <1>3, <1>4 DEF Gapless, StartsBlock

\* An empty FIFO has no gap, and the next sample starts a block.
LEMMA EmptyGapless ==
  ASSUME rx_fifo' = <<>>, Len(block') = 0
  PROVE  Gapless'
<1>1. Len(rx_fifo') = 0
  OBVIOUS
<1> QED
  BY <1>1 DEF Gapless, StartsBlock

LEMMA NeglectedTyped == Neglected \in Seq(BOOLEAN) /\ Len(Neglected) = Depth
<1>1. Depth \in Nat
  BY RoleFacts DEF Depth
<1> QED
  BY <1>1 DEF Neglected

LEMMA RestTyped ==
  ASSUME rx_fifo' = <<>> \/ rx_fifo' = Neglected,
         block' = <<>> \/ (block' = block /\ ReceiverTyped), lost' = TRUE, torn' = FALSE
  PROVE  ReceiverTyped'
<1>1. Depth \in Nat /\ Block \in Nat
  BY RoleFacts DEF Depth
<1>2. rx_fifo' \in Seq(BOOLEAN) /\ Len(rx_fifo') <= Depth
  <2>1. CASE rx_fifo' = <<>>
    BY <1>1, <2>1
  <2>2. CASE rx_fifo' = Neglected
    <3>1. Len(Neglected) <= Depth
      BY <1>1, NeglectedTyped
    <3> QED
      BY <2>2, <3>1, NeglectedTyped
  <2> QED
    BY <2>1, <2>2
<1>3. block' \in Seq(BOOLEAN) /\ Len(block') <= Block
  <2>1. CASE block' = <<>>
    BY <1>1, <2>1
  <2>2. CASE block' = block /\ ReceiverTyped
    BY <2>2 DEF ReceiverTyped
  <2> QED
    BY <2>1, <2>2
<1> QED
  BY <1>2, <1>3 DEF ReceiverTyped

ReceiverKnown == ReceiverTyped /\ Copying

\* Steps that leave the receiver alone, and start no handler of it.
LEMMA ReceiverKept ==
  ASSUME ReceiverKnown, UNCHANGED receiver,
         \A c \in Conns : Reads(c)' => Reads(c) /\ thread'[c] = thread[c]
  PROVE  ReceiverKnown'
<1>1. ReceiverTyped' /\ (Gapless => Gapless') /\ torn' = torn
      /\ Len(block') = Len(block) /\ Len(rx_fifo') = Len(rx_fifo)
  BY DEF ReceiverKnown, receiver, ReceiverTyped, Gapless, StartsBlock
<1> QED
  BY <1>1 DEF ReceiverKnown, Copying

\* The handler of the receiver is alone.
LEMMA ReaderAlone ==
  ASSUME Served, NEW c \in Conns, hello[c] = RX_DATA, thread[c] \in Busy,
         hello' = hello, \A d \in Conns \ {c} : thread'[d] = thread[d]
  PROVE  \A d \in Conns : Reads(d) \/ Reads(d)' => d = c
<1>1. \A d \in Conns : hello[d] = RX_DATA /\ thread[d] \in Busy => d = c
  BY DEF Served, Owned
<1>2. {"check", "wait", "copy", "send"} \subseteq Busy
  BY DEF Busy
<1> QED
  BY <1>1, <1>2 DEF Reads

LEMMA ReceiveKeeps ==
  ASSUME Served, ReceiverKnown, NEW c \in Conns,
         StartRx(c) \/ CheckRx(c) \/ WaitRx(c) \/ SendRx(c) \/ SendFails(c)
  PROVE  ReceiverKnown'
<1>1. /\ hello[c] = RX_DATA /\ hello' = hello /\ thread[c] \in Busy
      /\ thread \in [Conns -> States]
      /\ \E to \in {"check", "wait", "copy", "free"} : thread' = [thread EXCEPT ![c] = to]
  BY DEF StartRx, CheckRx, WaitRx, SendRx, SendFails, Serves, Goto, sockets, Busy,
         Served, Typed
<1>2. \A d \in Conns : Reads(d) \/ Reads(d)' => d = c
  BY <1>1, ReaderAlone
<1>3. ReceiverTyped /\ Block \in Nat \ {0} /\ Depth = 2 * Block
      /\ Len(block) \in Nat /\ Len(rx_fifo) \in Nat
  BY RoleFacts, BoolSeq DEF ReceiverKnown, ReceiverTyped, Depth
<1>4. Reads(c) => /\ thread[c] \in {"check", "wait"} => Len(block) = 0
                  /\ thread[c] = "send" => Len(block) = Block
                  /\ torn \/ Gapless
  BY DEF ReceiverKnown, Copying
<1>5. /\ ReceiverTyped'
      /\ thread'[c] \in {"check", "wait"} => Len(block') = 0
      /\ thread'[c] = "copy" => Len(block') + Len(rx_fifo') >= Block
      /\ thread'[c] # "send"
      /\ thread'[c] # "free" => torn' \/ Gapless'
  <2>1. CASE StartRx(c)
    <3>1. /\ rx_fifo' = <<>> /\ block' = <<>> /\ lost' = TRUE /\ torn' = FALSE
          /\ thread'[c] = "check"
      BY <1>1, <2>1 DEF StartRx, ResetReceiver, Goto
    <3>2. ReceiverTyped' /\ Len(block') = 0
      BY <3>1, RestTyped
    <3> QED
      BY <3>1, <3>2, EmptyGapless
  <2>2. CASE CheckRx(c)
    <3>1. block' = block /\ thread'[c] = "wait" /\ Reads(c) /\ thread[c] = "check"
      BY <1>1, <2>2 DEF CheckRx, Goto, Serves, Reads
    <3>2. CASE Len(rx_fifo) = Depth
      <4>1. rx_fifo' = <<>> /\ lost' = TRUE /\ torn' = FALSE
        BY <2>2, <3>2 DEF CheckRx, ResetReceiver
      <4>2. ReceiverTyped'
        BY <1>3, <3>1, <4>1, RestTyped
      <4> QED
        BY <1>4, <3>1, <4>1, <4>2, EmptyGapless
    <3>3. CASE Len(rx_fifo) # Depth
      <4>1. UNCHANGED <<rx_fifo, lost, torn>>
        BY <2>2, <3>3 DEF CheckRx
      <4>2. ReceiverTyped' /\ (Gapless => Gapless')
        BY <1>3, <3>1, <4>1 DEF ReceiverTyped, Gapless, StartsBlock
      <4> QED
        BY <1>4, <3>1, <4>1, <4>2
    <3> QED
      BY <3>2, <3>3
  <2>3. CASE WaitRx(c)
    <3>1. /\ UNCHANGED <<rx_fifo, lost, torn, block>> /\ Len(rx_fifo) >= Block
          /\ thread'[c] = "copy" /\ Reads(c) /\ thread[c] = "wait"
      BY <1>1, <2>3 DEF WaitRx, Goto, Serves, Reads, receiver
    <3>2. ReceiverTyped' /\ (Gapless => Gapless')
      BY <1>3, <3>1 DEF ReceiverTyped, Gapless, StartsBlock
    <3>3. Len(block') + Len(rx_fifo') >= Block
      BY <1>3, <3>1
    <3> QED
      BY <1>4, <3>1, <3>2, <3>3
  <2>4. CASE SendRx(c)
    <3>1. /\ UNCHANGED <<rx_fifo, lost, torn>> /\ block' = <<>>
          /\ thread'[c] = "check" /\ Reads(c) /\ thread[c] = "send"
      BY <1>1, <2>4 DEF SendRx, Goto, Serves, Reads
    <3>2. ReceiverTyped' /\ Len(block') = 0
      BY <1>3, <3>1, BoolSeq DEF ReceiverTyped
    <3>3. Gapless => Gapless'
      BY <1>3, <1>4, <3>1, SendGapless
    <3> QED
      BY <1>4, <3>1, <3>2, <3>3
  <2>5. CASE SendFails(c)
    <3>1. /\ rx_fifo' = Neglected /\ block' = <<>> /\ lost' = TRUE /\ torn' = FALSE
          /\ thread'[c] = "free"
      BY <1>1, <2>5 DEF SendFails, Goto
    <3>2. ReceiverTyped'
      BY <3>1, RestTyped
    <3> QED
      BY <3>1, <3>2
  <2> QED
    BY <2>1, <2>2, <2>3, <2>4, <2>5
<1>6. thread'[c] = "free" => ~Reads(c)'
  BY DEF Reads
<1>7. Copying'
  BY <1>2, <1>5, <1>6 DEF Copying
<1> QED
  BY <1>5, <1>7 DEF ReceiverKnown

LEMMA CopyKeeps ==
  ASSUME Served, ReceiverKnown, NEW c \in Conns, CopyRx(c)
  PROVE  ReceiverKnown'
<1>1. /\ hello[c] = RX_DATA /\ hello' = hello /\ thread[c] = "copy" /\ Reads(c)
      /\ thread \in [Conns -> States] /\ torn' = torn /\ lost' = lost
  BY DEF CopyRx, Serves, sockets, Served, Typed, Reads
<1>2. /\ ReceiverTyped /\ Block \in Nat \ {0} /\ Depth = 2 * Block
      /\ Len(block) \in Nat /\ Len(rx_fifo) \in Nat
  BY RoleFacts, BoolSeq DEF ReceiverKnown, ReceiverTyped, Depth
<1>3. Len(block) + Len(rx_fifo) >= Block /\ (torn \/ Gapless)
  BY <1>1 DEF ReceiverKnown, Copying
<1>4. CASE Len(block) < Block
  <2>1. thread' = thread
    BY <1>4 DEF CopyRx
  <2>2. rx_fifo # <<>>
    BY <1>2, <1>3, <1>4
  <2>3. /\ block' \in Seq(BOOLEAN) /\ Len(block') = Len(block) + 1
        /\ rx_fifo' \in Seq(BOOLEAN) /\ Len(rx_fifo') = Len(rx_fifo) - 1
        /\ Gapless => Gapless'
    BY <1>2, <1>4, <2>2, CopyGapless
  <2>4. Len(block') <= Block /\ Len(rx_fifo') <= Depth
        /\ Len(block') + Len(rx_fifo') = Len(block) + Len(rx_fifo)
    BY <1>2, <1>4, <2>3 DEF ReceiverTyped
  <2>5. ReceiverTyped'
    BY <1>1, <1>2, <2>3, <2>4 DEF ReceiverTyped
  <2>6. \A d \in Conns : Reads(d)' => d = c
    BY <1>1, <2>1, ReaderAlone DEF Busy
  <2>7. Copying'
    BY <1>1, <1>3, <2>1, <2>3, <2>4, <2>6 DEF Copying
  <2> QED
    BY <2>5, <2>7 DEF ReceiverKnown
<1>5. CASE ~(Len(block) < Block)
  <2>1. thread' = [thread EXCEPT ![c] = "send"] /\ UNCHANGED <<rx_fifo, block>>
    BY <1>5 DEF CopyRx, Goto
  <2>2. ReceiverTyped' /\ (Gapless => Gapless')
    BY <1>1, <1>2, <2>1 DEF ReceiverTyped, Gapless, StartsBlock
  <2>3. \A d \in Conns : Reads(d)' => d = c
    BY <1>1, <2>1, ReaderAlone DEF Busy
  <2>4. Len(block') = Block
    BY <1>2, <1>5, <2>1 DEF ReceiverTyped
  <2>5. thread'[c] = "send"
    BY <1>1, <2>1
  <2>6. Copying'
    BY <1>1, <1>3, <2>2, <2>3, <2>4, <2>5 DEF Copying
  <2> QED
    BY <2>2, <2>6 DEF ReceiverKnown
<1> QED
  BY <1>4, <1>5

LEMMA SampleKeeps ==
  ASSUME Served, ReceiverKnown, Sample
  PROVE  ReceiverKnown'
<1>1. PICK c \in Conns : Reads(c)
  BY DEF Sample, Serves, Reads
<1>2. hello' = hello /\ thread' = thread /\ block' = block
  BY DEF Sample, sockets
<1>3. /\ rx_fifo' \in Seq(BOOLEAN) /\ Len(rx_fifo') <= Depth
      /\ lost' \in BOOLEAN /\ torn' \in BOOLEAN
      /\ Len(rx_fifo') >= Len(rx_fifo)
      /\ torn' \/ Gapless'
  BY <1>1, SampleGapless DEF ReceiverKnown
<1>4. ReceiverTyped'
  BY <1>2, <1>3 DEF ReceiverKnown, ReceiverTyped
<1>5. Len(block) \in Nat /\ Len(rx_fifo) \in Nat /\ Len(rx_fifo') \in Nat /\ Block \in Nat
  BY <1>3, RoleFacts, BoolSeq DEF ReceiverKnown, ReceiverTyped
<1>6. Copying'
  <2>1. \A d \in Conns : Reads(d)' => Reads(d)
    BY <1>2 DEF Reads
  <2>2. Len(block) + Len(rx_fifo) >= Block => Len(block') + Len(rx_fifo') >= Block
    BY <1>2, <1>3, <1>5
  <2> QED
    BY <1>2, <1>3, <2>1, <2>2 DEF ReceiverKnown, Copying
<1> QED
  BY <1>4, <1>6 DEF ReceiverKnown

-----------------------------------------------------------------------------
\* What is written behind at most a block fits.
LEMMA Written ==
  ASSUME Filling, Len(tx_fifo) <= Block, NEW units \in [1 .. Block -> BOOLEAN], Write(units)
  PROVE  /\ tx_fifo' \in Seq(BOOLEAN) /\ Len(tx_fifo') = Len(tx_fifo) + Block
         /\ Len(tx_fifo) \in Nat
         /\ spilled' = FALSE
         /\ \A i \in 1 .. Len(tx_fifo) : tx_fifo'[i] = tx_fifo[i]
         /\ \A i \in Len(tx_fifo) + 1 .. Len(tx_fifo) + Block :
                tx_fifo'[i] = units[i - Len(tx_fifo)]
<1> DEFINE n == Len(tx_fifo)
           all == tx_fifo \o units
<1>1. Block \in Nat \ {0} /\ Depth = 2 * Block /\ tx_fifo \in Seq(BOOLEAN) /\ n \in Nat
      /\ n <= Block /\ spilled = FALSE
  <2>1. tx_fifo \in Seq(BOOLEAN) /\ ~spilled
    BY DEF Filling, NothingSpilled
  <2> QED
    BY <2>1, RoleFacts DEF Depth
<1>2. units \in Seq(BOOLEAN) /\ Len(units) = Block
  BY <1>1
<1>3. /\ all \in Seq(BOOLEAN) /\ Len(all) = n + Block
      /\ \A i \in 1 .. n : all[i] = tx_fifo[i]
      /\ \A i \in n + 1 .. n + Block : all[i] = units[i - n]
  <2>1. /\ all \in Seq(BOOLEAN) /\ Len(all) = Len(tx_fifo) + Len(units)
        /\ \A i \in 1 .. Len(tx_fifo) + Len(units) :
              all[i] = IF i <= Len(tx_fifo) THEN tx_fifo[i] ELSE units[i - Len(tx_fifo)]
    BY <1>1, <1>2, ConcatProperties, Zenon
  <2> HIDE DEF all
  <2>2. \A i \in 1 .. n : i \in 1 .. n + Len(units) /\ i <= n
    BY <1>1, <1>2
  <2>3. \A i \in n + 1 .. n + Block : i \in 1 .. n + Len(units) /\ ~(i <= n)
    BY <1>1, <1>2
  <2> QED
    BY <1>2, <2>1, <2>2, <2>3
<1> HIDE DEF n
<1>4. SubSeq(all, 1, n + Block) = all
  BY <1>1, <1>3
<1>5. /\ tx_fifo' = SubSeq(all, 1, IF Len(all) < Depth THEN Len(all) ELSE Depth)
      /\ spilled' = (spilled \/ Len(all) > Depth)
  BY DEF Write
<1> HIDE DEF all
<1>6. (IF Len(all) < Depth THEN Len(all) ELSE Depth) = n + Block /\ ~(Len(all) > Depth)
  BY <1>1, <1>3
<1>7. tx_fifo' = all
  BY <1>4, <1>5, <1>6
<1>8. spilled' = FALSE
  BY <1>1, <1>5, <1>6
<1> QED
  BY <1>1, <1>3, <1>7, <1>8 DEF n

\* Steps that leave the transmit FIFO alone, and let nobody write it.
LEMMA TransmitterKept ==
  ASSUME Filling, UNCHANGED transmitter,
         \A c \in Conns : hello'[c] = TX_DATA /\ thread'[c] \in {"fill", "recv"}
             => hello[c] = TX_DATA /\ thread'[c] = thread[c]
  PROVE  Filling'
BY DEF Filling, transmitter, NothingSpilled, NothingRepeated

\* The radio takes a unit.
LEMMA DrainKeeps ==
  ASSUME Filling, Drain
  PROVE  Filling'
<1>1. /\ tx_fifo # <<>> /\ tx_fifo' = Tail(tx_fifo)
      /\ UNCHANGED <<hello, thread, short, spilled>>
  BY DEF Drain, sockets
<1>2. /\ tx_fifo \in Seq(BOOLEAN) /\ tx_fifo' \in Seq(BOOLEAN)
      /\ Len(tx_fifo) \in Nat /\ Len(tx_fifo') = Len(tx_fifo) - 1
      /\ \A i \in 1 .. Len(tx_fifo) - 1 : tx_fifo'[i] = tx_fifo[i + 1]
  BY <1>1, BoolSeq DEF Filling
<1>3. Block \in Nat /\ Depth \in Nat
  BY RoleFacts DEF Depth
<1>4. Len(tx_fifo') <= Depth /\ (Len(tx_fifo) <= Block => Len(tx_fifo') <= Block)
  BY <1>2, <1>3 DEF Filling
<1>5. NothingRepeated'
  <2> SUFFICES ASSUME ~short', NEW i \in DOMAIN tx_fifo' PROVE ~tx_fifo'[i]
    BY DEF NothingRepeated
  <2>1. i \in 1 .. Len(tx_fifo) - 1 /\ i + 1 \in DOMAIN tx_fifo
    BY <1>2
  <2>2. ~tx_fifo[i + 1]
    BY <1>1, <2>1 DEF Filling, NothingRepeated
  <2> QED
    BY <1>2, <2>1, <2>2
<1> QED
  BY <1>1, <1>2, <1>4, <1>5 DEF Filling, NothingSpilled

LEMMA TransmitKeeps ==
  ASSUME Served, SocketsTyped, Filling, NEW c \in Conns, Transmit(c)
  PROVE  Filling'
<1>1. /\ hello[c] = TX_DATA /\ hello' = hello /\ thread[c] \in Busy
      /\ thread \in [Conns -> States]
      /\ \E to \in {"wait", "fill", "recv", "free"} : thread' = [thread EXCEPT ![c] = to]
  BY DEF Transmit, StartTx, WaitTx, FillTx, RecvTx, EndTx, Serves, Goto, sockets, Busy,
         Served, Typed
<1>2. \A d \in Conns : d # c => thread'[d] = thread[d]
  BY <1>1
<1>3. \A d \in Conns : hello[d] = TX_DATA /\ thread[d] \in Busy => d = c
  BY <1>1 DEF Served, Owned
<1>4. \A d \in Conns : hello'[d] = TX_DATA /\ thread'[d] \in {"fill", "recv"} => d = c
  BY <1>1, <1>2, <1>3 DEF Busy
<1>5. Block \in Nat \ {0} /\ Depth = 2 * Block /\ tx_fifo \in Seq(BOOLEAN)
      /\ Len(tx_fifo) \in Nat /\ short \in BOOLEAN
  BY RoleFacts, BoolSeq DEF Depth, Filling
<1>6. /\ tx_fifo' \in Seq(BOOLEAN) /\ Len(tx_fifo') <= Depth /\ short' \in BOOLEAN
      /\ thread'[c] \in {"fill", "recv"} => Len(tx_fifo') <= Block
      /\ NothingSpilled' /\ NothingRepeated'
  <2>1. CASE StartTx(c) \/ EndTx(c)
    <3>1. /\ tx_fifo' = <<>> /\ short' = FALSE /\ spilled' = spilled
          /\ thread'[c] \in {"wait", "free"}
      BY <1>1, <2>1 DEF StartTx, EndTx, Goto
    <3>2. tx_fifo' \in Seq(BOOLEAN) /\ Len(tx_fifo') = 0 /\ DOMAIN tx_fifo' = {}
      BY <3>1
    <3>3. Len(tx_fifo') <= Depth
      BY <1>5, <3>2
    <3> QED
      BY <3>1, <3>2, <3>3 DEF Filling, NothingSpilled, NothingRepeated
  <2>2. CASE WaitTx(c)
    <3>1. UNCHANGED <<tx_fifo, short, spilled>> /\ Len(tx_fifo) <= Block
      BY <2>2 DEF WaitTx, transmitter
    <3> QED
      BY <3>1 DEF Filling, NothingSpilled, NothingRepeated
  <2>3. CASE FillTx(c)
    <3>1. Len(tx_fifo) <= Block /\ short' = short
      BY <1>1, <2>3 DEF FillTx, Serves, Filling
    <3>2. CASE tx_fifo = <<>>
      <4> DEFINE zeros == [i \in 1 .. Block |-> FALSE]
      <4>1. Write(zeros) /\ zeros \in [1 .. Block -> BOOLEAN] /\ Len(tx_fifo) = 0
            /\ \A i \in 1 .. Block : ~zeros[i]
        BY <2>3, <3>2 DEF FillTx
      <4> HIDE DEF zeros
      <4>2. /\ tx_fifo' \in Seq(BOOLEAN) /\ Len(tx_fifo') = 0 + Block /\ spilled' = FALSE
            /\ \A i \in 0 + 1 .. 0 + Block : tx_fifo'[i] = zeros[i - 0]
        BY <3>1, <4>1, Written
      <4>3. DOMAIN tx_fifo' = 1 .. Block /\ \A i \in 1 .. Block : i - 0 \in 1 .. Block
        BY <1>5, <4>2
      <4>4. \A i \in 1 .. Block : ~tx_fifo'[i]
        BY <1>5, <4>1, <4>2, <4>3
      <4>5. Len(tx_fifo') <= Block /\ Len(tx_fifo') <= Depth
        BY <1>5, <4>2
      <4> QED
        BY <1>5, <3>1, <4>2, <4>3, <4>4, <4>5 DEF NothingSpilled, NothingRepeated
    <3>3. CASE tx_fifo # <<>>
      <4>1. UNCHANGED <<tx_fifo, spilled>>
        BY <2>3, <3>3 DEF FillTx
      <4> QED
        BY <3>1, <4>1 DEF Filling, NothingSpilled, NothingRepeated
    <3> QED
      BY <3>2, <3>3
  <2>4. CASE RecvTx(c)
    <3> DEFINE got == inbox[c]
               units == [i \in 1 .. Block |-> i > got]
    <3>1. got \in 0 .. Block /\ Len(tx_fifo) <= Block
      BY <1>1, <2>4 DEF RecvTx, Serves, Filling, SocketsTyped
    <3>2. Write(units) /\ short' = (short \/ got < Block) /\ thread'[c] = "wait"
      BY <1>1, <2>4 DEF RecvTx, Goto
    <3>3. units \in [1 .. Block -> BOOLEAN] /\ \A i \in 1 .. Block : units[i] = (i > got)
      BY <1>5, <3>1
    <3> HIDE DEF got, units
    <3>4. /\ tx_fifo' \in Seq(BOOLEAN) /\ Len(tx_fifo') = Len(tx_fifo) + Block
          /\ spilled' = FALSE
          /\ \A i \in 1 .. Len(tx_fifo) : tx_fifo'[i] = tx_fifo[i]
          /\ \A i \in Len(tx_fifo) + 1 .. Len(tx_fifo) + Block :
                 tx_fifo'[i] = units[i - Len(tx_fifo)]
      BY <3>1, <3>2, <3>3, Written
    <3>5. NothingRepeated'
      <4> SUFFICES ASSUME ~short', NEW i \in DOMAIN tx_fifo' PROVE ~tx_fifo'[i]
        BY DEF NothingRepeated
      <4>1. ~short /\ ~(got < Block)
        BY <3>2
      <4>2. \/ i \in 1 .. Len(tx_fifo)
            \/ /\ i \in Len(tx_fifo) + 1 .. Len(tx_fifo) + Block
               /\ i - Len(tx_fifo) \in 1 .. Block
        BY <1>5, <3>4
      <4>3. CASE i \in 1 .. Len(tx_fifo)
        <5>1. i \in DOMAIN tx_fifo
          BY <1>5, <4>3
        <5> QED
          BY <3>4, <4>1, <4>3, <5>1 DEF Filling, NothingRepeated
      <4>4. CASE /\ i \in Len(tx_fifo) + 1 .. Len(tx_fifo) + Block
                 /\ i - Len(tx_fifo) \in 1 .. Block
        <5>1. \A k \in 1 .. Block : ~(k > got)
          BY <1>5, <3>1, <4>1
        <5>2. ~units[i - Len(tx_fifo)]
          BY <3>3, <4>4, <5>1
        <5> QED
          BY <3>4, <4>4, <5>2
      <4> QED
        BY <4>2, <4>3, <4>4
    <3>6. Len(tx_fifo') <= Depth
      BY <1>5, <3>1, <3>4
    <3>7. short' \in BOOLEAN
      BY <3>2
    <3> QED
      BY <3>2, <3>4, <3>5, <3>6, <3>7 DEF NothingSpilled
  <2> QED
    BY <2>1, <2>2, <2>3, <2>4 DEF Transmit
<1> QED
  BY <1>4, <1>6 DEF Filling

-----------------------------------------------------------------------------
Streams == SocketsTyped /\ ReceiverKnown /\ Filling

\* The steps that are not about the FIFOs.
Elsewhere(c) == \/ Clients(c) \/ Listener(c) \/ Control(c) \/ Free(c)

LEMMA ElsewhereKeeps ==
  ASSUME Served, Streams, NEW c \in Conns, Elsewhere(c)
  PROVE  Streams'
<1>1. UNCHANGED <<receiver, transmitter>>
  BY DEF Elsewhere, Clients, Listener, Control, Connect, NameRole, SendWord, Leave, Refuse,
         Serve, StartCtrl, ReadCommand, EndCtrl, Restore, Free
<1>2. \A d \in Conns : thread'[d] \in {"check", "wait", "copy", "send", "fill", "recv"}
          => thread'[d] = thread[d] /\ hello'[d] = hello[d]
  <2>1. thread \in [Conns -> States] /\ hello \in [Conns -> Roles \cup {"other", None}]
    BY DEF Served, Typed
  <2>2. CASE Clients(c)
    <3>1. CASE NameRole(c)
      <4>1. thread[c] \notin Busy /\ thread' = thread
        BY <3>1, RoleFacts DEF NameRole, Served, Owned
      <4>2. \A d \in Conns : d # c => hello'[d] = hello[d]
        BY <2>1, <3>1 DEF NameRole
      <4> QED
        BY <4>1, <4>2 DEF Busy
    <3>2. CASE Connect(c) \/ SendWord(c) \/ Leave(c)
      BY <2>1, <3>2 DEF Connect, SendWord, Leave
    <3> QED
      BY <2>2, <3>1, <3>2 DEF Clients
  <2>3. CASE Listener(c) \/ Free(c)
    BY <2>1, <2>3 DEF Listener, Refuse, Serve, Free, Close, sockets
  <2>4. CASE Control(c)
    BY <2>1, <2>4 DEF Control, StartCtrl, ReadCommand, EndCtrl, Restore, Goto, sockets
  <2> QED
    BY <2>2, <2>3, <2>4 DEF Elsewhere, Control
<1>3. ReceiverKnown'
  BY <1>1, <1>2, ReceiverKept DEF Streams, Reads
<1>4. Filling'
  BY <1>1, <1>2, TransmitterKept DEF Streams
<1>5. SocketsTyped'
  <2>1. SocketsTyped /\ Block \in Nat \ {0}
    BY RoleFacts DEF Streams
  <2>2. CASE Clients(c)
    <3>1. CASE SendWord(c)
      <4>1. inbox[c] < Block
        BY <2>1, <3>1 DEF SendWord
      <4>2. inbox' = [inbox EXCEPT ![c] = inbox[c] + 1] /\ client' = client
        BY <3>1 DEF SendWord
      <4>3. inbox[c] + 1 \in 0 .. Block
        BY <2>1, <4>1 DEF SocketsTyped
      <4> QED
        BY <2>1, <4>2, <4>3 DEF SocketsTyped
    <3>2. CASE Connect(c) \/ NameRole(c) \/ Leave(c)
      BY <2>1, <3>2 DEF Connect, NameRole, Leave, SocketsTyped
    <3> QED
      BY <2>2, <3>1, <3>2 DEF Clients
  <2>3. CASE Listener(c) \/ Free(c)
    BY <2>1, <2>3 DEF Listener, Refuse, Serve, Free, Close, sockets, SocketsTyped
  <2>4. CASE Control(c)
    <3>1. CASE ReadCommand(c)
      <4>1. inbox' = [inbox EXCEPT ![c] = inbox[c] - 1] /\ client' = client /\ inbox[c] > 0
        BY <3>1 DEF ReadCommand
      <4>2. inbox[c] - 1 \in 0 .. Block
        BY <2>1, <4>1 DEF SocketsTyped
      <4> QED
        BY <2>1, <4>1, <4>2 DEF SocketsTyped
    <3>2. CASE StartCtrl(c) \/ EndCtrl(c) \/ Restore(c)
      BY <2>1, <3>2 DEF StartCtrl, EndCtrl, Restore, sockets, SocketsTyped
    <3> QED
      BY <2>4, <3>1, <3>2 DEF Control
  <2> QED
    BY <2>2, <2>3, <2>4 DEF Elsewhere
<1> QED
  BY <1>3, <1>4, <1>5 DEF Streams

LEMMA ReceiverSteps ==
  ASSUME Served, Streams, NEW c \in Conns, Receive(c) \/ SendRx(c) \/ SendFails(c)
  PROVE  Streams'
<1>1. ReceiverKnown'
  BY ReceiveKeeps, CopyKeeps DEF Receive, Streams
<1>2. Filling'
  <2>1. /\ UNCHANGED transmitter /\ hello' = hello /\ hello[c] = RX_DATA
        /\ \A d \in Conns : d # c => thread'[d] = thread[d]
    BY DEF Receive, StartRx, CheckRx, WaitRx, CopyRx, SendRx, SendFails, Serves, Goto, sockets,
           Served, Typed
  <2> QED
    BY <2>1, RoleFacts, TransmitterKept DEF Streams
<1>3. SocketsTyped'
  BY DEF Receive, StartRx, CheckRx, WaitRx, CopyRx, SendRx, SendFails, sockets,
         Streams, SocketsTyped
<1> QED
  BY <1>1, <1>2, <1>3 DEF Streams

LEMMA TransmitterSteps ==
  ASSUME Served, Streams, NEW c \in Conns, Transmit(c)
  PROVE  Streams'
<1>1. Filling'
  BY TransmitKeeps DEF Streams
<1>2. ReceiverKnown'
  <2>1. /\ UNCHANGED receiver /\ hello' = hello /\ hello[c] = TX_DATA
        /\ \A d \in Conns : d # c => thread'[d] = thread[d]
    BY DEF Transmit, StartTx, WaitTx, FillTx, RecvTx, EndTx, Serves, Goto, sockets,
           Served, Typed
  <2> QED
    BY <2>1, RoleFacts, ReceiverKept DEF Streams, Reads
<1>3. SocketsTyped'
  BY RoleFacts DEF Transmit, StartTx, WaitTx, FillTx, RecvTx, EndTx, sockets,
         Streams, SocketsTyped
<1> QED
  BY <1>1, <1>2, <1>3 DEF Streams

LEMMA RadioSteps ==
  ASSUME Served, Streams, Sample \/ Drain
  PROVE  Streams'
<1>1. CASE Sample
  <2>1. UNCHANGED <<transmitter, sockets, thread>>
    BY <1>1 DEF Sample
  <2>2. Filling' /\ SocketsTyped'
    BY <2>1, TransmitterKept DEF Streams, sockets, SocketsTyped
  <2> QED
    BY <1>1, <2>2, SampleKeeps DEF Streams
<1>2. CASE Drain
  <2>1. UNCHANGED <<receiver, sockets, thread>>
    BY <1>2 DEF Drain
  <2>2. ReceiverKnown' /\ SocketsTyped'
    BY <2>1, ReceiverKept DEF Streams, sockets, SocketsTyped, Reads
  <2> QED
    BY <1>2, <2>2, DrainKeeps DEF Streams
<1> QED
  BY <1>1, <1>2

LEMMA ProcessSteps ==
  ASSUME Streams, Accept \/ Die \/ Restart \/ UNCHANGED vars
  PROVE  Streams'
<1>1. CASE Accept
  <2>1. UNCHANGED <<receiver, transmitter, sockets>>
        /\ thread' = [thread EXCEPT ![line'] = "accepted"]
    BY <1>1 DEF Accept
  <2>2. \A d \in Conns : thread'[d] \in {"check", "wait", "copy", "send", "fill", "recv"}
            => thread'[d] = thread[d] /\ hello'[d] = hello[d]
    BY <2>1 DEF sockets
  <2>3. SocketsTyped'
    BY <2>1 DEF Streams, sockets, SocketsTyped
  <2> QED
    BY <2>1, <2>2, <2>3, ReceiverKept, TransmitterKept DEF Streams, Reads
<1>2. CASE Die
  <2>1. /\ client' = [d \in Conns |-> "away"] /\ inbox' = [d \in Conns |-> 0]
        /\ thread' = [d \in Conns |-> "none"]
        /\ rx_fifo' = Neglected /\ block' = <<>> /\ lost' = TRUE /\ torn' = FALSE
        /\ tx_fifo' = <<>> /\ short' = FALSE /\ spilled' = spilled
    BY <1>2 DEF Die
  <2>2. ReceiverKnown'
    BY <2>1, RestTyped DEF ReceiverKnown, Copying, Reads
  <2>3. Filling'
    <3>1. tx_fifo' \in Seq(BOOLEAN) /\ Len(tx_fifo') = 0 /\ DOMAIN tx_fifo' = {} /\ 0 <= Depth
      BY <2>1, RoleFacts DEF Depth
    <3> QED
      BY <2>1, <3>1 DEF Streams, Filling, NothingSpilled, NothingRepeated
  <2>4. SocketsTyped'
    BY <2>1, RoleFacts DEF SocketsTyped
  <2> QED
    BY <2>2, <2>3, <2>4 DEF Streams
<1>3. CASE Restart \/ UNCHANGED vars
  <2>1. UNCHANGED <<receiver, transmitter, sockets, thread>>
    BY <1>3 DEF Restart, vars, receiver, transmitter, sockets
  <2>2. SocketsTyped'
    BY <2>1 DEF Streams, sockets, SocketsTyped
  <2> QED
    BY <2>1, <2>2, ReceiverKept, TransmitterKept DEF Streams, sockets, Reads
<1> QED
  BY <1>1, <1>2, <1>3

LEMMA InitStreams == Init => Streams
<1> SUFFICES ASSUME Init PROVE Streams
  OBVIOUS
<1>1. /\ \A c \in Conns : thread[c] = "none"
      /\ client = [c \in Conns |-> "away"] /\ inbox = [c \in Conns |-> 0]
      /\ rx_fifo = Neglected /\ block = <<>> /\ lost = TRUE /\ torn = FALSE
      /\ tx_fifo = <<>> /\ short = FALSE /\ spilled = FALSE
  BY DEF Init
<1>2. Block \in Nat /\ Depth \in Nat
  BY RoleFacts DEF Depth
<1>3. ReceiverTyped
  <2>1. block \in Seq(BOOLEAN) /\ Len(block) = 0
    BY <1>1
  <2>2. rx_fifo \in Seq(BOOLEAN) /\ Len(rx_fifo) = Depth
    BY <1>1, NeglectedTyped
  <2>3. Len(block) <= Block /\ Len(rx_fifo) <= Depth
    BY <1>2, <2>1, <2>2
  <2>4. lost \in BOOLEAN /\ torn \in BOOLEAN
    BY <1>1
  <2> QED
    BY <2>1, <2>2, <2>3, <2>4 DEF ReceiverTyped
<1>4. Copying
  BY <1>1 DEF Copying, Reads
<1>5. Filling
  <2>1. tx_fifo \in Seq(BOOLEAN) /\ Len(tx_fifo) = 0 /\ DOMAIN tx_fifo = {}
    BY <1>1
  <2>2. Len(tx_fifo) <= Depth
    BY <1>2, <2>1
  <2>3. \A c \in Conns : thread[c] \notin {"fill", "recv"}
    BY <1>1
  <2>4. short \in BOOLEAN /\ NothingSpilled /\ NothingRepeated
    BY <1>1, <2>1 DEF NothingSpilled, NothingRepeated
  <2> QED
    BY <2>1, <2>2, <2>3, <2>4 DEF Filling
<1>6. SocketsTyped
  BY <1>1, <1>2 DEF SocketsTyped
<1> QED
  BY <1>3, <1>4, <1>5, <1>6 DEF Streams, ReceiverKnown

LEMMA NextStreams == Served /\ Streams /\ [Next]_vars => Streams'
<1> SUFFICES ASSUME Served, Streams, [Next]_vars PROVE Streams'
  OBVIOUS
<1>1. ASSUME NEW c \in Conns, Clients(c) \/ Listener(c) PROVE Streams'
  BY <1>1, ElsewhereKeeps DEF Elsewhere
<1>2. ASSUME NEW c \in Conns, Handler(c) \/ SendRx(c) \/ SendFails(c) PROVE Streams'
  BY <1>2, ElsewhereKeeps, ReceiverSteps, TransmitterSteps DEF Elsewhere, Handler
<1>3. CASE Sample \/ Drain
  BY <1>3, RadioSteps
<1>4. CASE Accept \/ Die \/ Restart \/ UNCHANGED vars
  BY <1>4, ProcessSteps
<1> QED
  BY <1>1, <1>2, <1>3, <1>4 DEF Next

\* What Streams says of a block that is about to be sent.
LEMMA StreamsSuffice == Served /\ Streams => StreamsWhole
<1> SUFFICES ASSUME Served, Streams PROVE StreamsWhole
  OBVIOUS
<1>1. BlocksContiguous
  <2> SUFFICES ASSUME NEW c \in Conns, Serves(c, RX_DATA, "send"), ~torn,
                      NEW i \in 2 .. Block
               PROVE  ~block[i]
    BY DEF BlocksContiguous
  <2>1. Reads(c) /\ thread[c] = "send"
    BY DEF Serves, Reads
  <2>2. Len(block) = Block /\ Gapless /\ Block \in Nat \ {0}
    BY <2>1, RoleFacts DEF Streams, ReceiverKnown, Copying
  <2>3. i \in 1 .. Len(block) /\ ~StartsBlock(i)
    BY <2>2 DEF StartsBlock
  <2> QED
    BY <2>2, <2>3 DEF Gapless
<1>2. TypeOK
  <2>1. /\ up \in BOOLEAN /\ line \in Conns \cup {None} /\ gpio \in {0, 1}
        /\ hello \in [Conns -> Roles \cup {"other", None}]
        /\ sock_thread \in [Roles -> Conns \cup {None}]
        /\ settings \in [Ctrl -> [freq : {0, 1}, sync : {0, 1}, rate : 0 .. 5]]
    BY DEF Served, Typed, Params
  <2>2. thread \in [Conns -> {"none", "queued", "accepted", "orphan", "start", "serve",
                              "restore", "free", "check", "wait", "copy", "send",
                              "fill", "recv"}]
    BY DEF Served, Typed, States, Busy
  <2>3. Len(rx_fifo) <= Depth /\ Len(tx_fifo) <= Depth
    BY DEF Streams, ReceiverKnown, ReceiverTyped, Filling
  <2> QED
    BY <2>1, <2>2, <2>3 DEF TypeOK, Streams, SocketsTyped
<1>3. NothingSpilled /\ NothingRepeated
  BY DEF Streams, Filling
<1> QED
  BY <1>1, <1>2, <1>3 DEF StreamsWhole

\* For every size of the blocks: the code's looks at the fill levels keep blocks
\* without a gap inside, and nothing is repeated or spilled on the way to the radio.
THEOREM WholeTheorem == Spec => []StreamsWhole
<1>1. Init => Streams
  BY InitStreams
<1>2. Served /\ Streams /\ [Next]_vars => Streams'
  BY NextStreams
<1>3. Served /\ Streams => StreamsWhole
  BY StreamsSuffice
<1> QED
  BY <1>1, <1>2, <1>3, ServedTheorem, PTL DEF Spec
=============================================================================
