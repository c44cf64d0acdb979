---------------------------- MODULE StompDataBase ----------------------------
(***************************************************************************)
(* The singleton StompDataBase of the server: users and passwords, the     *)
(* users that are logged in, the channels and the subscriptions of every   *)
(* connection, the messages, and the one read-write lock over them.        *)
(*                                                                         *)
(* Every method that holds the lock is one step here: the lock is taken at *)
(* its first line and released at its last.  The exception is isValidID,   *)
(* which can throw between the two and then never releases the read lock   *)
(* (leakReadLock).                                                         *)
(***************************************************************************)
EXTENDS Integers, Sequences

CONSTANTS
  MaxConnections,   \* bound: how many connections the server ever accepts
  User, Password,
  Channel,          \* channel names, as they appear in 'destination' headers
  SubId,            \* subscription ids that the clients choose
  Null              \* Java's null

Conn == 0 .. MaxConnections - 1

ASSUME DataBaseAssumption ==
  /\ MaxConnections \in Nat
  /\ SubId \subseteq Int
  /\ Null \notin User \cup Password \cup Channel \cup SubId
  /\ Null \notin [SubId -> Channel \cup {Null}]

VARIABLES
  usersPasswords,        \* usersPasswords[u]: the password of u, or Null
  channels,              \* channels[ch]: connections ch is broadcast to
  subscriptionsDetails,  \* per connection: Null, or a map from id to channel
  messages,              \* messages[i]: content stored under message id i
  connectedUsers,        \* user names that count as logged in
  idToUser,              \* idToUser[c]: the user of connection c, or Null
  leakedReaders,         \* dead threads that still hold the read lock
  waitingWriters         \* threads queued for the write lock

dbVars == <<usersPasswords, channels, subscriptionsDetails, messages,
            connectedUsers, idToUser>>
lockVars == <<leakedReaders, waitingWriters>>

(* messages[i] for i = 1 .. messageIDCounter: the content is abstracted to  *)
(* where it comes from, the n-th frame of a connection.                     *)
Content == [from : Conn, nth : Nat]

DbTypeOK ==
  /\ usersPasswords \in [User -> Password \cup {Null}]
  /\ channels \in [Channel -> SUBSET Conn]
  /\ subscriptionsDetails
        \in [Conn -> [SubId -> Channel \cup {Null}] \cup {Null}]
  /\ messages \in Seq(Content)
  /\ connectedUsers \subseteq User
  /\ idToUser \in [Conn -> User \cup {Null}]
  /\ leakedReaders \subseteq Conn
  /\ waitingWriters \subseteq Conn

(* An absent channel and one with an empty set behave alike: getSubscribers *)
(* answers null for the one, and nothing is sent in either case.            *)
DbInit ==
  /\ usersPasswords = [u \in User |-> Null]
  /\ channels = [ch \in Channel |-> {}]
  /\ subscriptionsDetails = [c \in Conn |-> Null]
  /\ messages = <<>>
  /\ connectedUsers = {}
  /\ idToUser = [c \in Conn |-> Null]
  /\ leakedReaders = {}
  /\ waitingWriters = {}

-----------------------------------------------------------------------------
(* The lock.  A live thread holds it within a single step only, so it is    *)
(* busy exactly when a dead thread holds it; and the (non-fair)             *)
(* ReentrantReadWriteLock makes a reader wait behind a queued writer.       *)
CanWrite == leakedReaders = {}
CanRead == waitingWriters = {}

queueForWriteLock(c) ==
  /\ leakedReaders # {}
  /\ c \notin waitingWriters
  /\ waitingWriters' = waitingWriters \cup {c}
  /\ UNCHANGED <<dbVars, leakedReaders>>

(* isValidID on a connection that has no map of subscriptions yet: the      *)
(* NullPointerException is thrown between lock() and unlock().              *)
leakReadLock(c) ==
  /\ leakedReaders' = leakedReaders \cup {c}
  /\ UNCHANGED <<dbVars, waitingWriters>>

-----------------------------------------------------------------------------
(* What the readers compute.                                                *)
NoDetails == [i \in SubId |-> Null]

Details(c) ==
  IF subscriptionsDetails[c] = Null THEN NoDetails ELSE subscriptionsDetails[c]

SubscribedChannels(c) == {Details(c)[i] : i \in SubId} \ {Null}

(* The answers that getSubscriptionIDForChannel may give: the id that the   *)
(* search of the map meets first, or -1 for "not found", which a client may *)
(* have chosen as an id, too.                                               *)
getSubscriptionIDForChannel(ch, c) ==
  IF ch \in SubscribedChannels(c)
  THEN {i \in SubId : Details(c)[i] = ch}
  ELSE {-1}

(* Faulty variant: takes the first id for "not found".                      *)
FaultyIsSubscribers(subID) == subID > 1

(* What isSubscribersForChannel makes of that answer.                       *)
isSubscribersForChannel(subID) == subID # -1

isValidID(i, c) == Details(c)[i] # Null

-----------------------------------------------------------------------------
(* The writers.                                                             *)
addOrUpdateUser(u, p, c) ==
  /\ CanWrite
  /\ usersPasswords' = [usersPasswords EXCEPT ![u] = p]
  /\ connectedUsers' = connectedUsers \cup {u}
  /\ idToUser' = [idToUser EXCEPT ![c] = u]
  /\ UNCHANGED <<channels, subscriptionsDetails, messages, lockVars>>

setNewConnected(u, c) ==
  /\ CanWrite
  /\ connectedUsers' = connectedUsers \cup {u}
  /\ idToUser' = [idToUser EXCEPT ![c] = u]
  /\ UNCHANGED <<usersPasswords, channels, subscriptionsDetails, messages,
                 lockVars>>

(* Faulty variant: disconnect forgets the sets of the channels.             *)
FaultyChannelsWithout(c) == channels

ChannelsWithout(c) ==
  [ch \in Channel |-> IF ch \in SubscribedChannels(c)
                      THEN channels[ch] \ {c} ELSE channels[ch]]

(* Faulty variants: the connection's subscriptions are kept, or its user    *)
(* stays in connectedUsers.                                                 *)
FaultyDisconnectKeepsDetails(c) ==
  /\ CanWrite
  /\ idToUser' = [idToUser EXCEPT ![c] = Null]
  /\ connectedUsers' = connectedUsers \ {idToUser[c]}
  /\ channels' = ChannelsWithout(c)
  /\ UNCHANGED <<subscriptionsDetails, usersPasswords, messages, lockVars>>

FaultyDisconnectKeepsUser(c) ==
  /\ CanWrite
  /\ idToUser' = [idToUser EXCEPT ![c] = Null]
  /\ channels' = ChannelsWithout(c)
  /\ subscriptionsDetails' = [subscriptionsDetails EXCEPT ![c] = Null]
  /\ UNCHANGED <<connectedUsers, usersPasswords, messages, lockVars>>

dbDisconnect(c) ==
  /\ CanWrite
  /\ idToUser' = [idToUser EXCEPT ![c] = Null]
  /\ connectedUsers' = connectedUsers \ {idToUser[c]}
  /\ channels' = ChannelsWithout(c)
  /\ subscriptionsDetails' = [subscriptionsDetails EXCEPT ![c] = Null]
  /\ UNCHANGED <<usersPasswords, messages, lockVars>>

addChannelSubscription(ch, c, i) ==
  /\ CanWrite
  /\ channels' = [channels EXCEPT ![ch] = @ \cup {c}]
  /\ subscriptionsDetails' =
        [subscriptionsDetails EXCEPT ![c] = [Details(c) EXCEPT ![i] = ch]]
  /\ UNCHANGED <<usersPasswords, messages, connectedUsers, idToUser, lockVars>>

(* Faulty variant: the id stays in the connection's map.                    *)
FaultyRemoveChannelSubscription(ch, c, i) ==
  /\ CanWrite
  /\ channels' = [channels EXCEPT ![ch] = @ \ {c}]
  /\ subscriptionsDetails' = [subscriptionsDetails EXCEPT ![c] = Details(c)]
  /\ UNCHANGED <<usersPasswords, messages, connectedUsers, idToUser, lockVars>>

removeChannelSubscription(ch, c, i) ==
  /\ CanWrite
  /\ channels' = [channels EXCEPT ![ch] = @ \ {c}]
  /\ subscriptionsDetails' =
        [subscriptionsDetails EXCEPT ![c] = [Details(c) EXCEPT ![i] = Null]]
  /\ UNCHANGED <<usersPasswords, messages, connectedUsers, idToUser, lockVars>>

(* incrementAndGet and put: the new id is Len(messages').                   *)
addMessage(content) ==
  /\ CanWrite
  /\ messages' = Append(messages, content)
  /\ UNCHANGED <<usersPasswords, channels, subscriptionsDetails,
                 connectedUsers, idToUser, lockVars>>
=============================================================================
