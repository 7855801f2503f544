-------------------------- MODULE RequestService --------------------------
(***************************************************************************)
(* What the server of the Final Project promises its peers, without its    *)
(* threads, its queue and its registry: a connection is accepted, answered *)
(* at most once, and then closed; servants are remembered for good; and an *)
(* answer is right when it is given, at one moment between the acceptance  *)
(* and the end of the connection.                                          *)
(***************************************************************************)
CONSTANTS Conns, Sends, Servants, Cities, Nobody

VARIABLES
    conn,           \* "idle", "open" or "closed"
    registered,     \* the servants that declared themselves
    servant,        \* "starting", "listening" or "gone"
    known,          \* the servants registered when a connection was accepted
    reply           \* what each peer was answered, and who was asked for it

serviceVars == <<conn, registered, servant, known, reply>>

Init ==
    /\ conn = [c \in Conns |-> "idle"]
    /\ registered = {}
    /\ servant = [s \in Servants |-> "starting"]
    /\ known = [c \in Conns |-> {}]
    /\ reply = [c \in Conns |-> Nobody]

Client(c) == Sends[c].type = "CLIENT_REQUEST"

\* r answers the request of c and takes account of all that c may expect.  The
\* answer of a servant that died while it was asked may be anything.
Right(c, r) ==
    LET city == Sends[c].city
        asked == {r.asked[i].servant : i \in DOMAIN r.asked}
        Declared(s) == city \in Cities[s]
    IN  /\ r.to = Sends[c]
        /\ \A i \in DOMAIN r.asked :
              LET s == r.asked[i].servant
              IN  \/ r.asked[i].got = [by |-> s, to |-> Sends[c]]
                  \/ servant[s] = "gone"
        /\ city = "ALL" => r.type = "RESPONSE" /\ known[c] \subseteq asked
        /\ city # "ALL" /\ r.type = "RESPONSE" => \A s \in asked : Declared(s)
        /\ r.type = "NO_CITY_RESPONSE" => \A s \in known[c] : ~ Declared(s)

Accept(c) ==
    /\ conn[c] = "idle"
    /\ conn' = [conn EXCEPT ![c] = "open"]
    /\ known' = [known EXCEPT ![c] = registered]
    /\ UNCHANGED <<registered, servant, reply>>

Answer(c) ==
    /\ Client(c) /\ conn[c] = "open" /\ reply[c] = Nobody
    /\ reply'[c] # Nobody /\ Right(c, reply'[c])
    /\ \A d \in Conns \ {c} : reply'[d] = reply[d]
    /\ UNCHANGED <<conn, registered, servant, known>>

Close(c) ==
    /\ Client(c) /\ conn[c] = "open" /\ reply[c] # Nobody
    /\ conn' = [conn EXCEPT ![c] = "closed"]
    /\ UNCHANGED <<registered, servant, known, reply>>

\* A declaration is registered and its connection closed.
Register(c) ==
    /\ Sends[c].type = "SERVANT_DECLARATION" /\ conn[c] = "open"
    /\ registered' = registered \union {Sends[c].servant}
    /\ conn' = [conn EXCEPT ![c] = "closed"]
    /\ UNCHANGED <<servant, known, reply>>

\* A servant begins to listen, or stops.
ServantMoves(s) ==
    /\ \/ servant[s] = "starting" /\ servant' = [servant EXCEPT ![s] = "listening"]
       \/ servant[s] = "listening" /\ servant' = [servant EXCEPT ![s] = "gone"]
    /\ UNCHANGED <<conn, registered, known, reply>>

Next ==
    \/ \E c \in Conns : Accept(c) \/ Answer(c) \/ Close(c) \/ Register(c)
    \/ \E s \in Servants : ServantMoves(s)

Service == Init /\ [][Next]_serviceVars
=============================================================================
