-------------------------- MODULE Providers_proofs --------------------------
(***************************************************************************)
(* Theorems about what the providers share.                                *)
(*                                                                         *)
(* The identifiers of cmpiutil.c, for names of any length: what is put     *)
(* into an identifier is what is taken out of it again, as long as the     *)
(* name of the device has no slash.  From this it follows for every        *)
(* database which providers find an object again, whatever system it       *)
(* belongs to by then.                                                     *)
(*                                                                         *)
(* A client's view of a pool that changes, for any pool and any changes:   *)
(* an enumeration misses nothing that stays; the path of an instance leads *)
(* to that instance, and still to its object after moves; the associations *)
(* tell which objects are related, however often they have moved; the      *)
(* types.                                                                  *)
(*                                                                         *)
(* The use count of the xapi library: without generator threads, providers *)
(* of any number keep the count exact, and the libraries up while somebody *)
(* uses them.                                                              *)
(***************************************************************************)
EXTENDS CimView, XenLibrary, SequenceTheorems, FiniteSetTheorems, WellFoundedInduction, TLAPS

-----------------------------------------------------------------------------
(* The separators                                                          *)

\* The first separator is where there is one and none before it.
LEMMA FirstAtIs ==
    ASSUME NEW n \in Name, NEW t, NEW k \in 1..Len(n),
           n[k] = t, \A j \in 1..(k - 1) : n[j] # t
    PROVE  Has(n, t) /\ FirstAt(n, t) = k
<1> DEFINE P(i) == n[i] = t /\ \A j \in 1..(i - 1) : n[j] # t
<1>1. DOMAIN n = 1..Len(n) /\ Len(n) \in Nat
  BY LenProperties DEF Name
<1>2. k \in DOMAIN n /\ P(k)
  BY <1>1
<1>3. ASSUME NEW i \in DOMAIN n, P(i) PROVE i = k
  <2>1. i \in Nat /\ k \in Nat /\ i >= 1 /\ k >= 1
    BY <1>1
  <2>2. ~(k \in 1..(i - 1)) /\ ~(i \in 1..(k - 1))
    BY <1>2, <1>3
  <2> QED
    BY <2>1, <2>2
<1>4. Has(n, t)
  BY <1>2 DEF Has
<1>5. (CHOOSE i \in DOMAIN n : P(i)) = k
  <2> HIDE DEF P
  <2> QED
    BY <1>2, <1>3
<1> QED
  BY <1>4, <1>5 DEF FirstAt

\* The last separator is where there is one and none after it.
LEMMA LastAtIs ==
    ASSUME NEW n \in Name, NEW t, NEW k \in 1..Len(n),
           n[k] = t, \A j \in (k + 1)..Len(n) : n[j] # t
    PROVE  Has(n, t) /\ LastAt(n, t) = k
<1> DEFINE P(i) == n[i] = t /\ \A j \in (i + 1)..Len(n) : n[j] # t
<1>1. DOMAIN n = 1..Len(n) /\ Len(n) \in Nat
  BY LenProperties DEF Name
<1>2. k \in DOMAIN n /\ P(k)
  BY <1>1
<1>3. ASSUME NEW i \in DOMAIN n, P(i) PROVE i = k
  <2>1. i \in Nat /\ k \in Nat /\ i <= Len(n) /\ k <= Len(n)
    BY <1>1
  <2>2. ~(k \in (i + 1)..Len(n)) /\ ~(i \in (k + 1)..Len(n))
    BY <1>2, <1>3
  <2> QED
    BY <1>1, <2>1, <2>2
<1>4. Has(n, t)
  BY <1>2 DEF Has
<1>5. (CHOOSE i \in DOMAIN n : P(i)) = k
  <2> HIDE DEF P
  <2> QED
    BY <1>2, <1>3
<1> QED
  BY <1>4, <1>5 DEF LastAt

\* The rest of a name from a place in it, or from just behind it.
LEMMA FromIs ==
    ASSUME NEW n \in Name, NEW k \in 1..(Len(n) + 1)
    PROVE  /\ From(n, k) \in Name
           /\ Len(From(n, k)) = Len(n) - k + 1
           /\ \A i \in 1..(Len(n) - k + 1) : From(n, k)[i] = n[k + i - 1]
<1>1. Len(n) \in Nat
  BY LenProperties DEF Name
<1>2. \A i \in k..Len(n) : n[i] \in Token
  BY <1>1, ElementOfSeq DEF Name
<1>3. k \in Int /\ Len(n) \in Int
  BY <1>1
<1>4. /\ SubSeq(n, k, Len(n)) \in Seq(Token)
      /\ Len(SubSeq(n, k, Len(n))) = IF k <= Len(n) THEN Len(n) - k + 1 ELSE 0
      /\ \A i \in 1..(Len(n) - k + 1) : SubSeq(n, k, Len(n))[i] = n[k + i - 1]
  BY <1>2, <1>3, SubSeqProperties
<1> QED
  BY <1>1, <1>4 DEF From, Name

-----------------------------------------------------------------------------
(* What an identifier looks like                                           *)

\* The tokens of the identifier of a device.
LEMMA DeviceInstanceID ==
    ASSUME NEW system \in Name, NEW device \in Name
    PROVE  LET id == NewDeviceInstanceID(system, device)
               n == Len(system)
               m == Len(device)
           IN  /\ id \in Name
               /\ Len(id) = n + m + 3
               /\ id[1] = "Xen" /\ id[2] = Colon /\ id[n + 3] = Slash
               /\ \A i \in 1..n : id[i + 2] = system[i]
               /\ \A i \in 1..m : id[i + n + 3] = device[i]
<1> DEFINE n == Len(system)
           m == Len(device)
           prefix == <<"Xen", Colon>>
           head == prefix \o system
           stem == head \o <<Slash>>
           id == stem \o device
<1>1. n \in Nat /\ m \in Nat
  BY LenProperties DEF Name
<1>2. /\ prefix \in Seq(Token) /\ Len(prefix) = 2
      /\ prefix[1] = "Xen" /\ prefix[2] = Colon
  <2>1. "Xen" \in Token /\ Colon \in Token
    BY DEF Token
  <2> QED
    BY <2>1
<1>3. <<Slash>> \in Seq(Token) /\ Len(<<Slash>>) = 1 /\ <<Slash>>[1] = Slash
  <2>1. Slash \in Token
    BY DEF Token
  <2> QED
    BY <2>1
<1> HIDE DEF prefix
<1>a. system \in Seq(Token) /\ device \in Seq(Token)
  BY DEF Name
<1>4. /\ head \in Seq(Token) /\ Len(head) = 2 + n
      /\ \A i \in 1..(2 + n) : head[i] = IF i <= 2 THEN prefix[i] ELSE system[i - 2]
  <2>1. /\ head \in Seq(Token) /\ Len(head) = Len(prefix) + n
        /\ \A i \in 1..(Len(prefix) + n) :
              head[i] = IF i <= Len(prefix) THEN prefix[i] ELSE system[i - Len(prefix)]
    BY <1>2, <1>a, ConcatProperties
  <2> QED
    BY <1>2, <2>1
<1> HIDE DEF head
<1>5. /\ stem \in Seq(Token) /\ Len(stem) = 3 + n
      /\ \A i \in 1..(3 + n) : stem[i] = IF i <= 2 + n THEN head[i]
                                         ELSE <<Slash>>[i - (2 + n)]
  <2>1. /\ stem \in Seq(Token) /\ Len(stem) = Len(head) + Len(<<Slash>>)
        /\ \A i \in 1..(Len(head) + Len(<<Slash>>)) :
              stem[i] = IF i <= Len(head) THEN head[i] ELSE <<Slash>>[i - Len(head)]
    BY <1>3, <1>4, ConcatProperties
  <2>2. Len(head) + Len(<<Slash>>) = 3 + n
    BY <1>1, <1>3, <1>4
  <2> QED
    BY <1>4, <2>1, <2>2
<1> HIDE DEF stem
<1>6. /\ id \in Seq(Token) /\ Len(id) = 3 + n + m
      /\ \A i \in 1..(3 + n + m) : id[i] = IF i <= 3 + n THEN stem[i] ELSE device[i - (3 + n)]
  <2>1. /\ id \in Seq(Token) /\ Len(id) = Len(stem) + m
        /\ \A i \in 1..(Len(stem) + m) :
              id[i] = IF i <= Len(stem) THEN stem[i] ELSE device[i - Len(stem)]
    <3>1. stem \in Seq(Token)
      BY <1>5
    <3> QED
      BY <3>1, <1>a, ConcatProperties
  <2> QED
    BY <1>5, <2>1
<1>7. NewDeviceInstanceID(system, device) = id
  BY DEF NewDeviceInstanceID, id, stem, head, prefix
<1> HIDE DEF id, n, m
<1>8. id[1] = "Xen" /\ id[2] = Colon
  BY <1>1, <1>2, <1>4, <1>5, <1>6
<1>9. id[n + 3] = Slash
  <2>1. id[n + 3] = stem[n + 3] /\ stem[n + 3] = <<Slash>>[1]
    BY <1>1, <1>5, <1>6
  <2> QED
    BY <2>1, <1>3
<1>10. ASSUME NEW i \in 1..n PROVE id[i + 2] = system[i]
  <2>1. id[i + 2] = stem[i + 2]
    BY <1>1, <1>6
  <2>2. stem[i + 2] = head[i + 2]
    BY <1>1, <1>5
  <2>3. head[i + 2] = system[i]
    BY <1>1, <1>4
  <2> QED
    BY <2>1, <2>2, <2>3
<1>11. ASSUME NEW i \in 1..m PROVE id[i + n + 3] = device[i]
  BY <1>1, <1>6
<1>12. id \in Name /\ Len(id) = n + m + 3
  BY <1>1, <1>6 DEF Name
<1> QED
  BY <1>7, <1>8, <1>9, <1>10, <1>11, <1>12 DEF n, m

\* The colon that is looked for is the one behind "Xen", whatever the names hold.
LEMMA ColonOfDevice ==
    ASSUME NEW system \in Name, NEW device \in Name
    PROVE  LET id == NewDeviceInstanceID(system, device)
           IN  Has(id, Colon) /\ FirstAt(id, Colon) = 2
<1> DEFINE id == NewDeviceInstanceID(system, device)
<1>1. Len(system) \in Nat /\ Len(device) \in Nat
  BY LenProperties DEF Name
<1>2. id \in Name /\ Len(id) = Len(system) + Len(device) + 3
      /\ id[1] = "Xen" /\ id[2] = Colon
  BY DeviceInstanceID
<1> HIDE DEF id
<1>3. 2 \in 1..Len(id) /\ \A j \in 1..(2 - 1) : id[j] # Colon
  BY <1>1, <1>2 DEF Colon
<1>4. Has(id, Colon) /\ FirstAt(id, Colon) = 2
  BY <1>2, <1>3, FirstAtIs
<1> QED
  BY <1>4 DEF id

-----------------------------------------------------------------------------
(* What is put in is taken out                                             *)

\* DeviceRecovered: _CMPIStrncpyDeviceNameFromID takes out of an identifier the
\* name of the device that _CMPICreateNewDeviceInstanceID has put into it, if
\* that has no slash; the name of the system may be any.
THEOREM DeviceRecovered ==
    ASSUME NEW system \in Name, NEW device \in Name, ~Has(device, Slash)
    PROVE  DeviceNameFromID(NewDeviceInstanceID(system, device)) = device
<1> DEFINE id == NewDeviceInstanceID(system, device)
           n == Len(system)
           m == Len(device)
<1>1. n \in Nat /\ m \in Nat /\ DOMAIN device = 1..m
  BY LenProperties DEF Name
<1>2. /\ id \in Name /\ Len(id) = n + m + 3 /\ id[n + 3] = Slash
      /\ \A i \in 1..m : id[i + n + 3] = device[i]
  BY DeviceInstanceID
<1> HIDE DEF id, n, m
<1>3. ASSUME NEW j \in (n + 3 + 1)..Len(id) PROVE id[j] # Slash
  <2>1. j - n - 3 \in 1..m
    BY <1>1, <1>2
  <2>2. id[(j - n - 3) + n + 3] = device[j - n - 3]
    BY <1>2, <2>1
  <2>3. (j - n - 3) + n + 3 = j
    BY <1>1
  <2>4. device[j - n - 3] # Slash
    BY <1>1, <2>1 DEF Has
  <2> QED
    BY <2>2, <2>3, <2>4
<1>4. n + 3 \in 1..Len(id)
  BY <1>1, <1>2
<1>5. Has(id, Slash) /\ LastAt(id, Slash) = n + 3
  BY <1>2, <1>3, <1>4, LastAtIs
<1>6. n + 4 \in 1..(Len(id) + 1) /\ Len(id) - (n + 4) + 1 = m
  BY <1>1, <1>2
<1>7. /\ From(id, n + 4) \in Name
      /\ Len(From(id, n + 4)) = m
      /\ \A i \in 1..m : From(id, n + 4)[i] = id[n + 4 + i - 1]
  BY <1>2, <1>6, FromIs
<1>8. ASSUME NEW i \in 1..m PROVE From(id, n + 4)[i] = device[i]
  <2>1. n + 4 + i - 1 = i + n + 3
    BY <1>1
  <2> QED
    BY <1>2, <1>7, <2>1
<1>9. From(id, n + 4) = device
  BY <1>7, <1>8, SeqEqual DEF Name, m
<1>10. n + 3 + 1 = n + 4
  BY <1>1
<1> QED
  BY <1>5, <1>9, <1>10 DEF DeviceNameFromID, id

\* SystemRecovered: _CMPIStrncpySystemNameFromID takes out of an identifier the
\* name of the system that was put into it, if that of the device has no slash.
THEOREM SystemRecovered ==
    ASSUME NEW system \in Name, NEW device \in Name, ~Has(device, Slash)
    PROVE  SystemNameFromID(NewDeviceInstanceID(system, device)) = system
<1> DEFINE id == NewDeviceInstanceID(system, device)
           n == Len(system)
           m == Len(device)
           begin == From(id, 3)
<1>1. n \in Nat /\ m \in Nat /\ DOMAIN device = 1..m
  BY LenProperties DEF Name
<1>2. /\ id \in Name /\ Len(id) = n + m + 3 /\ id[n + 3] = Slash
      /\ \A i \in 1..n : id[i + 2] = system[i]
      /\ \A i \in 1..m : id[i + n + 3] = device[i]
  BY DeviceInstanceID
<1>3. Has(id, Colon) /\ FirstAt(id, Colon) = 2
  BY ColonOfDevice
<1> HIDE DEF id, n, m
<1>4. 3 \in 1..(Len(id) + 1) /\ Len(id) - 3 + 1 = n + m + 1
  BY <1>1, <1>2
<1>5. /\ begin \in Name
      /\ Len(begin) = n + m + 1
      /\ \A i \in 1..(n + m + 1) : begin[i] = id[3 + i - 1]
  BY <1>2, <1>4, FromIs
<1> HIDE DEF begin
<1>6. ASSUME NEW i \in 1..(n + m + 1) PROVE begin[i] = id[i + 2]
  <2>1. 3 + i - 1 = i + 2
    BY <1>1
  <2> QED
    BY <1>5, <2>1
<1>7. n + 1 \in 1..Len(begin) /\ begin[n + 1] = Slash
  <2>1. n + 1 \in 1..(n + m + 1) /\ n + 1 + 2 = n + 3
    BY <1>1
  <2> QED
    BY <1>2, <1>5, <1>6, <2>1
<1>8. ASSUME NEW j \in (n + 1 + 1)..Len(begin) PROVE begin[j] # Slash
  <2>1. j \in 1..(n + m + 1) /\ j - n - 1 \in 1..m /\ j + 2 = (j - n - 1) + n + 3
    BY <1>1, <1>5
  <2>2. begin[j] = id[j + 2]
    BY <1>6, <2>1
  <2>3. id[(j - n - 1) + n + 3] = device[j - n - 1]
    BY <1>2, <2>1
  <2>4. device[j - n - 1] # Slash
    BY <1>1, <2>1 DEF Has
  <2> QED
    BY <2>1, <2>2, <2>3, <2>4
<1>9. Has(begin, Slash) /\ LastAt(begin, Slash) = n + 1
  BY <1>5, <1>7, <1>8, LastAtIs
<1>10. \A i \in 1..n : begin[i] \in Token /\ begin[i] = system[i]
  <2>1. ASSUME NEW i \in 1..n PROVE begin[i] = system[i] /\ system[i] \in Token
    <3>1. i \in 1..(n + m + 1)
      BY <1>1
    <3>2. system[i] \in Token
      BY ElementOfSeq DEF Name, n
    <3> QED
      BY <1>2, <1>6, <3>1, <3>2
  <2> QED
    BY <2>1
<1>11. /\ SubSeq(begin, 1, n) \in Seq(Token)
       /\ Len(SubSeq(begin, 1, n)) = n
       /\ \A i \in 1..n : SubSeq(begin, 1, n)[i] = begin[i]
  <2>1. /\ SubSeq(begin, 1, n) \in Seq(Token)
        /\ Len(SubSeq(begin, 1, n)) = IF 1 <= n THEN n - 1 + 1 ELSE 0
        /\ \A i \in 1..(n - 1 + 1) : SubSeq(begin, 1, n)[i] = begin[1 + i - 1]
    BY <1>1, <1>10, SubSeqProperties
  <2>2. n - 1 + 1 = n /\ (~(1 <= n) => n = 0)
    BY <1>1
  <2>3. \A i \in 1..n : 1 + i - 1 = i
    BY <1>1
  <2> QED
    BY <2>1, <2>2, <2>3
<1>12. SubSeq(begin, 1, n) = system
  <2>1. \A i \in 1..Len(SubSeq(begin, 1, n)) : SubSeq(begin, 1, n)[i] = system[i]
    BY <1>10, <1>11
  <2> QED
    BY <1>11, <2>1, SeqEqual DEF Name, n
<1>13. n + 1 - 1 = n /\ FirstAt(id, Colon) + 1 = 3
  BY <1>1, <1>3
<1>14. SystemNameFromID(id) = SubSeq(begin, 1, LastAt(begin, Slash) - 1)
  BY <1>3, <1>9, <1>13 DEF SystemNameFromID, begin
<1>15. LastAt(begin, Slash) - 1 = n
  BY <1>1, <1>9
<1> QED
  BY <1>12, <1>14, <1>15 DEF id

\* DevicesDiffer: two devices have one identifier only if they are one device of
\* one system.
THEOREM DevicesDiffer ==
    ASSUME NEW s1 \in Name, NEW s2 \in Name, NEW d1 \in Name, NEW d2 \in Name,
           ~Has(d1, Slash), ~Has(d2, Slash),
           NewDeviceInstanceID(s1, d1) = NewDeviceInstanceID(s2, d2)
    PROVE  s1 = s2 /\ d1 = d2
<1>1. /\ DeviceNameFromID(NewDeviceInstanceID(s1, d1)) = d1
      /\ DeviceNameFromID(NewDeviceInstanceID(s2, d2)) = d2
  BY DeviceRecovered
<1>2. /\ SystemNameFromID(NewDeviceInstanceID(s1, d1)) = s1
      /\ SystemNameFromID(NewDeviceInstanceID(s2, d2)) = s2
  BY SystemRecovered
<1> QED
  BY <1>1, <1>2

-----------------------------------------------------------------------------
(* Looking up what was listed                                              *)

\* FoundWhereverItIs: in every database, the path of a device, a disk image, a
\* pool of storage or of connections leads to what an enumeration reads for it,
\* whatever system the path was made with: moves do not make a path useless.
THEOREM FoundWhereverItIs ==
    ASSUME NEW base, NEW class, NEW system \in Name, NEW o \in Name, ~Has(o, Slash)
    PROVE  LET id == NewDeviceInstanceID(system, o)
               e  == Entry(o, NoPart)
           IN  /\ DiskFind(base, class, id) = DiskNext(base, class, e)
               /\ class \notin LANEndpoints =>
                     NetworkPortFind(base, class, id) = NetworkPortNext(base, e)
               /\ ConsoleFind(base, id) = ConsoleNext(base, e)
               /\ HostProcessorFind(base, id) = HostProcessorNext(base, e)
               /\ HostNetworkPortFind(base, id) = HostNetworkPortNext(base, e)
               /\ DiskImageFind(base, id) = DiskImageNext(base, e)
               /\ StoragePoolFind(base, "Xen_StoragePool", id) = StoragePoolNext(base, e)
               /\ VirtualSwitchFind(base, "Xen_NetworkConnectionPool", id)
                     = VirtualSwitchNext(base, e)
<1> DEFINE id == NewDeviceInstanceID(system, o)
           e  == Entry(o, NoPart)
<1>1. DeviceNameFromID(id) = o
  BY DeviceRecovered
<1>2. e.obj = o
  BY DEF Entry
<1> HIDE DEF id, e
<1>3. DiskFind(base, class, id) = DiskNext(base, class, e)
  BY <1>1, <1>2 DEF DiskFind, DiskNext
<1>4. class \notin LANEndpoints => NetworkPortFind(base, class, id) = NetworkPortNext(base, e)
  BY <1>1, <1>2 DEF NetworkPortFind, NetworkPortNext
<1>5. ConsoleFind(base, id) = ConsoleNext(base, e)
  BY <1>1, <1>2 DEF ConsoleFind, ConsoleNext
<1>6. HostProcessorFind(base, id) = HostProcessorNext(base, e)
  BY <1>1, <1>2 DEF HostProcessorFind, HostProcessorNext
<1>7. HostNetworkPortFind(base, id) = HostNetworkPortNext(base, e)
  BY <1>1, <1>2 DEF HostNetworkPortFind, HostNetworkPortNext
<1>8. DiskImageFind(base, id) = DiskImageNext(base, e)
  BY <1>1, <1>2 DEF DiskImageFind, DiskImageNext
<1>9. StoragePoolFind(base, "Xen_StoragePool", id) = StoragePoolNext(base, e)
  BY <1>1, <1>2 DEF StoragePoolFind, StoragePoolNext
<1>10. VirtualSwitchFind(base, "Xen_NetworkConnectionPool", id) = VirtualSwitchNext(base, e)
  BY <1>1, <1>2 DEF VirtualSwitchFind, VirtualSwitchNext
<1> QED
  BY <1>3, <1>4, <1>5, <1>6, <1>7, <1>8, <1>9, <1>10 DEF id, e

\* FoundUnderItsMachine: what is known by its machine and a name in it, the
\* key-value pairs and the memory of a suspended machine, is found by the path
\* an enumeration makes of it.
THEOREM FoundUnderItsMachine ==
    ASSUME NEW base, NEW v \in Name, NEW k \in Name, ~Has(k, Slash)
    PROVE  LET id == NewDeviceInstanceID(v, k)
               e  == Entry(k, v)
           IN  /\ Entry(v, k) \in KVPWalk(base, v, TRUE)
                      => KVPFind(base, id) = KVPNext(base, Entry(v, k))
               /\ e \in MemoryStateWalk(base, v)
                      => MemoryStateFind(base, id) = MemoryStateNext(base, e)
<1> DEFINE id == NewDeviceInstanceID(v, k)
           e  == Entry(k, v)
<1>1. DeviceNameFromID(id) = k
  BY DeviceRecovered
<1>2. SystemNameFromID(id) = v
  BY SystemRecovered
<1> HIDE DEF id
<1>3. ASSUME Entry(v, k) \in KVPWalk(base, v, TRUE)
      PROVE  KVPFind(base, id) = KVPNext(base, Entry(v, k))
  <2>1. v \in DOMAIN base.vm /\ base.vm[v].host \in base.host
    BY <1>3 DEF KVPWalk
  <2>2. k \in base.vm[v].keys
    BY <1>3, <2>1 DEF KVPWalk, Entry
  <2>3. {u \in {v} \cap DOMAIN base.vm :
           base.vm[u].host \in base.host /\ k \in base.vm[u].keys} = {v}
    BY <2>1, <2>2
  <2>4. KVPFind(base, id) = {Resource(v, k, NoProperties) : u \in {v}}
    BY <1>1, <1>2, <2>3 DEF KVPFind
  <2>5. KVPNext(base, Entry(v, k)) = {Resource(v, k, NoProperties)}
    BY DEF KVPNext, Entry
  <2> QED
    BY <2>4, <2>5
<1>4. ASSUME e \in MemoryStateWalk(base, v)
      PROVE  MemoryStateFind(base, id) = MemoryStateNext(base, e)
  <2>1. v \in DOMAIN base.vm
    BY <1>4 DEF MemoryStateWalk
  <2>2. {v} \cap DOMAIN base.vm = {v}
    BY <2>1
  <2>3. MemoryStateFind(base, id) = UNION {ReadAs(base.vdi, k, u, Fitting) : u \in {v}}
    BY <1>1, <1>2, <2>2 DEF MemoryStateFind
  <2>4. MemoryStateNext(base, e) = ReadAs(base.vdi, k, v, Fitting)
    BY DEF MemoryStateNext, Entry
  <2> QED
    BY <2>3, <2>4
<1> QED
  BY <1>3, <1>4 DEF id

-----------------------------------------------------------------------------
(* Which provider serves a class                                           *)

\* The classes whose entries have a part that tells them apart.
Parted == MemoryStateClasses \cup ProcessorClasses \cup KVPClasses \cup CapabilitiesSettings

\* Each class is in the table of one provider only (ProxyHelper.c), and its calls go to
\* the functions of that provider.
USE DEF Served, Parted, WalkingClasses, WalkRefs, KeyProperty, ListEnum, ListWalk, RecordGetNext,
        RecordGetFromId, SetProperties, DiskClasses, DiskMetrics, MemoryStateClasses,
        ProcessorClasses, NetworkPortClasses, LANEndpoints, NetworkMetrics, ConsoleClasses,
        KVPClasses, ComputerSystemClasses, SystemSettings, MachineSettings, HostClasses,
        HostMetrics, HostProcessorClasses, HostNetworkPortClasses, HostNetworkMetrics,
        VirtualSwitchClasses, StoragePoolClasses, DiskImageClasses, HostPoolClasses,
        CapabilitiesSettings, ServiceClasses, Services, ServiceCapabilities,
        MetricServiceClasses, VirtualizationCapabilities

\* The calls for DiskClasses.
LEMMA DiskClassesServed ==
  ASSUME NEW d, NEW class \in DiskClasses
  PROVE  /\ class \in Served /\ class \notin Parted /\ class \notin WalkingClasses
         /\ KeyProperty(class) = DiskKey(class)
         /\ ListEnum(d, class) = DiskList(d)
         /\ \A x, ok : ListWalk(d, class, x, ok) = {}
         /\ \A x : /\ RecordGetNext(d, class, x) = DiskNext(d, class, x)
                   /\ RecordGetFromId(d, class, x) = DiskFind(d, class, x)
                   /\ SetProperties(d, class, x) = DiskProperties(d, class, x)
  BY ZenonT(60)

\* The calls for MemoryStateClasses.
LEMMA MemoryStateClassesServed ==
  ASSUME NEW d, NEW class \in MemoryStateClasses
  PROVE  /\ class \in Served /\ class \in Parted /\ class \in WalkingClasses
         /\ KeyProperty(class) = MemoryStateKey
         /\ ListEnum(d, class) = {}
         /\ WalkRefs(d, class) = DOMAIN d.vm
         /\ \A x, ok : ListWalk(d, class, x, ok) = MemoryStateWalk(d, x)
         /\ \A x : /\ RecordGetNext(d, class, x) = MemoryStateNext(d, x)
                   /\ RecordGetFromId(d, class, x) = MemoryStateFind(d, x)
                   /\ SetProperties(d, class, x) = MemoryStateProperties(d, x)
  BY ZenonT(60)

\* The calls for ProcessorClasses.
LEMMA ProcessorClassesServed ==
  ASSUME NEW d, NEW class \in ProcessorClasses
  PROVE  /\ class \in Served /\ class \in Parted /\ class \in WalkingClasses
         /\ KeyProperty(class) = ProcessorKey
         /\ ListEnum(d, class) = {}
         /\ WalkRefs(d, class) = DOMAIN d.vm
         /\ \A x, ok : ListWalk(d, class, x, ok) = ProcessorWalk(d, x)
         /\ \A x : /\ RecordGetNext(d, class, x) = ProcessorNext(d, x)
                   /\ RecordGetFromId(d, class, x) = ProcessorFind(d, x)
                   /\ SetProperties(d, class, x) = ProcessorProperties(d, x)
  BY ZenonT(60)

\* The calls for NetworkPortClasses.
LEMMA NetworkPortClassesServed ==
  ASSUME NEW d, NEW class \in NetworkPortClasses
  PROVE  /\ class \in Served /\ class \notin Parted /\ class \notin WalkingClasses
         /\ KeyProperty(class) = NetworkPortKey(class)
         /\ ListEnum(d, class) = NetworkPortList(d)
         /\ \A x, ok : ListWalk(d, class, x, ok) = {}
         /\ \A x : /\ RecordGetNext(d, class, x) = NetworkPortNext(d, x)
                   /\ RecordGetFromId(d, class, x) = NetworkPortFind(d, class, x)
                   /\ SetProperties(d, class, x) = NetworkPortProperties(d, class, x)
  BY ZenonT(60)

\* The calls for ConsoleClasses.
LEMMA ConsoleClassesServed ==
  ASSUME NEW d, NEW class \in ConsoleClasses
  PROVE  /\ class \in Served /\ class \notin Parted /\ class \notin WalkingClasses
         /\ KeyProperty(class) = ConsoleKey(class)
         /\ ListEnum(d, class) = ConsoleList(d)
         /\ \A x, ok : ListWalk(d, class, x, ok) = {}
         /\ \A x : /\ RecordGetNext(d, class, x) = ConsoleNext(d, x)
                   /\ RecordGetFromId(d, class, x) = ConsoleFind(d, x)
                   /\ SetProperties(d, class, x) = ConsoleProperties(d, class, x)
  BY ZenonT(60)

\* The calls for KVPClasses.
LEMMA KVPClassesServed ==
  ASSUME NEW d, NEW class \in KVPClasses
  PROVE  /\ class \in Served /\ class \in Parted /\ class \in WalkingClasses
         /\ KeyProperty(class) = KVPKey
         /\ ListEnum(d, class) = {}
         /\ WalkRefs(d, class) = DOMAIN d.vm
         /\ \A x, ok : ListWalk(d, class, x, ok) = KVPWalk(d, x, ok)
         /\ \A x : /\ RecordGetNext(d, class, x) = KVPNext(d, x)
                   /\ RecordGetFromId(d, class, x) = KVPFind(d, x)
                   /\ SetProperties(d, class, x) = KVPProperties(x)
  BY ZenonT(60)

\* The calls for ComputerSystemClasses.
LEMMA ComputerSystemClassesServed ==
  ASSUME NEW d, NEW class \in ComputerSystemClasses
  PROVE  /\ class \in Served /\ class \notin Parted /\ class \notin WalkingClasses
         /\ KeyProperty(class) = ComputerSystemKey(class)
         /\ ListEnum(d, class) = ComputerSystemList(d)
         /\ \A x, ok : ListWalk(d, class, x, ok) = {}
         /\ \A x : /\ RecordGetNext(d, class, x) = ComputerSystemNext(d, class, x)
                   /\ RecordGetFromId(d, class, x) = ComputerSystemFind(d, class, x)
                   /\ SetProperties(d, class, x) = ComputerSystemProperties(d, class, x)
  BY ZenonT(60)

\* The calls for HostClasses.
LEMMA HostClassesServed ==
  ASSUME NEW d, NEW class \in HostClasses
  PROVE  /\ class \in Served /\ class \notin Parted /\ class \notin WalkingClasses
         /\ KeyProperty(class) = HostKey(class)
         /\ ListEnum(d, class) = HostList(d)
         /\ \A x, ok : ListWalk(d, class, x, ok) = {}
         /\ \A x : /\ RecordGetNext(d, class, x) = HostNext(d, x)
                   /\ RecordGetFromId(d, class, x) = HostFind(d, class, x)
                   /\ SetProperties(d, class, x) = HostProperties(class, x)
  BY ZenonT(60)

\* The calls for HostProcessorClasses.
LEMMA HostProcessorClassesServed ==
  ASSUME NEW d, NEW class \in HostProcessorClasses
  PROVE  /\ class \in Served /\ class \notin Parted /\ class \notin WalkingClasses
         /\ KeyProperty(class) = HostProcessorKey
         /\ ListEnum(d, class) = HostProcessorList(d)
         /\ \A x, ok : ListWalk(d, class, x, ok) = {}
         /\ \A x : /\ RecordGetNext(d, class, x) = HostProcessorNext(d, x)
                   /\ RecordGetFromId(d, class, x) = HostProcessorFind(d, x)
                   /\ SetProperties(d, class, x) = HostProcessorProperties(d, x)
  BY ZenonT(60)

\* The calls for HostNetworkPortClasses.
LEMMA HostNetworkPortClassesServed ==
  ASSUME NEW d, NEW class \in HostNetworkPortClasses
  PROVE  /\ class \in Served /\ class \notin Parted /\ class \in WalkingClasses
         /\ KeyProperty(class) = HostNetworkPortKey(class)
         /\ ListEnum(d, class) = {}
         /\ WalkRefs(d, class) = DOMAIN d.pif
         /\ \A x, ok : ListWalk(d, class, x, ok) = HostNetworkPortWalk(d, x)
         /\ \A x : /\ RecordGetNext(d, class, x) = HostNetworkPortNext(d, x)
                   /\ RecordGetFromId(d, class, x) = HostNetworkPortFind(d, x)
                   /\ SetProperties(d, class, x) = HostNetworkPortProperties(d, class, x)
  BY ZenonT(60)

\* The calls for VirtualSwitchClasses.
LEMMA VirtualSwitchClassesServed ==
  ASSUME NEW d, NEW class \in VirtualSwitchClasses
  PROVE  /\ class \in Served /\ class \notin Parted /\ class \notin WalkingClasses
         /\ KeyProperty(class) = VirtualSwitchKey(class)
         /\ ListEnum(d, class) = VirtualSwitchList(d)
         /\ \A x, ok : ListWalk(d, class, x, ok) = {}
         /\ \A x : /\ RecordGetNext(d, class, x) = VirtualSwitchNext(d, x)
                   /\ RecordGetFromId(d, class, x) = VirtualSwitchFind(d, class, x)
                   /\ SetProperties(d, class, x) = VirtualSwitchProperties(d, class, x)
  BY ZenonT(60)

\* The calls for StoragePoolClasses.
LEMMA StoragePoolClassesServed ==
  ASSUME NEW d, NEW class \in StoragePoolClasses
  PROVE  /\ class \in Served /\ class \notin Parted /\ class \notin WalkingClasses
         /\ KeyProperty(class) = StoragePoolKey
         /\ ListEnum(d, class) = StoragePoolList(d)
         /\ \A x, ok : ListWalk(d, class, x, ok) = {}
         /\ \A x : /\ RecordGetNext(d, class, x) = StoragePoolNext(d, x)
                   /\ RecordGetFromId(d, class, x) = StoragePoolFind(d, class, x)
                   /\ SetProperties(d, class, x) = StoragePoolProperties(d, class, x)
  BY ZenonT(60)

\* The calls for DiskImageClasses.
LEMMA DiskImageClassesServed ==
  ASSUME NEW d, NEW class \in DiskImageClasses
  PROVE  /\ class \in Served /\ class \notin Parted /\ class \notin WalkingClasses
         /\ KeyProperty(class) = DiskImageKey
         /\ ListEnum(d, class) = DiskImageList(d)
         /\ \A x, ok : ListWalk(d, class, x, ok) = {}
         /\ \A x : /\ RecordGetNext(d, class, x) = DiskImageNext(d, x)
                   /\ RecordGetFromId(d, class, x) = DiskImageFind(d, x)
                   /\ SetProperties(d, class, x) = DiskImageProperties(d, x)
  BY ZenonT(60)

\* The calls for HostPoolClasses.
LEMMA HostPoolClassesServed ==
  ASSUME NEW d, NEW class \in HostPoolClasses
  PROVE  /\ class \in Served /\ class \notin Parted /\ class \notin WalkingClasses
         /\ KeyProperty(class) = HostPoolKey
         /\ ListEnum(d, class) = HostPoolList(d)
         /\ \A x, ok : ListWalk(d, class, x, ok) = {}
         /\ \A x : /\ RecordGetNext(d, class, x) = HostPoolNext(d, x)
                   /\ RecordGetFromId(d, class, x) = HostPoolFind(d, x)
                   /\ SetProperties(d, class, x) = HostPoolProperties(x)
  BY ZenonT(60)

\* The calls for CapabilitiesSettings.
LEMMA CapabilitiesSettingsServed ==
  ASSUME NEW d, NEW class \in CapabilitiesSettings
  PROVE  /\ class \in Served /\ class \in Parted /\ class \notin WalkingClasses
         /\ KeyProperty(class) = CapabilitiesKey
         /\ ListEnum(d, class) = CapabilitiesList(d, class)
         /\ \A x, ok : ListWalk(d, class, x, ok) = {}
         /\ \A x : /\ RecordGetNext(d, class, x) = CapabilitiesNext(d, class, x)
                   /\ RecordGetFromId(d, class, x) = CapabilitiesFind(d, class, x)
                   /\ SetProperties(d, class, x) = CapabilitiesProperties(x)
  BY ZenonT(60)

\* The calls for ServiceClasses.
LEMMA ServiceClassesServed ==
  ASSUME NEW d, NEW class \in ServiceClasses
  PROVE  /\ class \in Served /\ class \notin Parted /\ class \notin WalkingClasses
         /\ KeyProperty(class) = ServiceKey(class)
         /\ ListEnum(d, class) = ServiceList
         /\ \A x, ok : ListWalk(d, class, x, ok) = {}
         /\ \A x : /\ RecordGetNext(d, class, x) = ServiceNext(x)
                   /\ RecordGetFromId(d, class, x) = ServiceFind(x)
                   /\ SetProperties(d, class, x) = ServiceProperties(d, class)
  BY ZenonT(60)

\* The calls for MetricServiceClasses.
LEMMA MetricServiceClassesServed ==
  ASSUME NEW d, NEW class \in MetricServiceClasses
  PROVE  /\ class \in Served /\ class \notin Parted /\ class \notin WalkingClasses
         /\ KeyProperty(class) = MetricServiceKey
         /\ ListEnum(d, class) = ServiceList
         /\ \A x, ok : ListWalk(d, class, x, ok) = {}
         /\ \A x : /\ RecordGetNext(d, class, x) = ServiceNext(x)
                   /\ RecordGetFromId(d, class, x) = ServiceFind(x)
                   /\ SetProperties(d, class, x) = MetricServiceProperties
  BY ZenonT(60)

\* The calls for VirtualizationCapabilities.
LEMMA VirtualizationCapabilitiesServed ==
  ASSUME NEW d, NEW class \in VirtualizationCapabilities
  PROVE  /\ class \in Served /\ class \notin Parted /\ class \notin WalkingClasses
         /\ KeyProperty(class) = VirtualizationKey
         /\ ListEnum(d, class) = VirtualizationList
         /\ \A x, ok : ListWalk(d, class, x, ok) = {}
         /\ \A x : /\ RecordGetNext(d, class, x) = VirtualizationNext(x)
                   /\ RecordGetFromId(d, class, x) = VirtualizationFind(x)
                   /\ SetProperties(d, class, x) = VirtualizationProperties(x)
  BY ZenonT(60)

HIDE DEF Served, Parted, WalkingClasses, WalkRefs, KeyProperty, ListEnum, ListWalk, RecordGetNext,
        RecordGetFromId, SetProperties, DiskClasses, DiskMetrics, MemoryStateClasses,
        ProcessorClasses, NetworkPortClasses, LANEndpoints, NetworkMetrics, ConsoleClasses,
        KVPClasses, ComputerSystemClasses, SystemSettings, MachineSettings, HostClasses,
        HostMetrics, HostProcessorClasses, HostNetworkPortClasses, HostNetworkMetrics,
        VirtualSwitchClasses, StoragePoolClasses, DiskImageClasses, HostPoolClasses,
        CapabilitiesSettings, ServiceClasses, Services, ServiceCapabilities,
        MetricServiceClasses, VirtualizationCapabilities

-----------------------------------------------------------------------------
(* What an enumeration reads                                               *)

\* An entry of a class: it has a part of its own only if the class tells them apart.
Shaped(class, e) == e = Entry(e.obj, e.of) /\ (class \notin Parted => e.of = NoPart)

\* What is read for an entry goes by the name of the entry.
LEMMA NextNames ==
  ASSUME NEW d, NEW class \in Served, NEW e, Shaped(class, e),
         NEW r \in RecordGetNext(d, class, e)
  PROVE  Named(r) = e
<1>. USE DEF Shaped, Named, Entry, Resource, ReadAs, Read, ReadName
<1>1. CASE class \in DiskClasses
  <2>1. r \in DiskNext(d, class, e) /\ class \notin Parted
    BY <1>1, DiskClassesServed
  <2>. QED  BY <2>1 DEF DiskNext
<1>2. CASE class \in MemoryStateClasses
  <2>1. r \in MemoryStateNext(d, e)
    BY <1>2, MemoryStateClassesServed
  <2>. QED  BY <2>1 DEF MemoryStateNext
<1>3. CASE class \in ProcessorClasses
  <2>1. r \in ProcessorNext(d, e)
    BY <1>3, ProcessorClassesServed
  <2>. QED  BY <2>1 DEF ProcessorNext
<1>4. CASE class \in NetworkPortClasses
  <2>1. r \in NetworkPortNext(d, e) /\ class \notin Parted
    BY <1>4, NetworkPortClassesServed
  <2>. QED  BY <2>1 DEF NetworkPortNext
<1>5. CASE class \in ConsoleClasses
  <2>1. r \in ConsoleNext(d, e) /\ class \notin Parted
    BY <1>5, ConsoleClassesServed
  <2>. QED  BY <2>1 DEF ConsoleNext
<1>6. CASE class \in KVPClasses
  <2>1. r \in KVPNext(d, e)
    BY <1>6, KVPClassesServed
  <2>. QED  BY <2>1 DEF KVPNext
<1>7. CASE class \in ComputerSystemClasses
  <2>1. r \in ComputerSystemNext(d, class, e) /\ class \notin Parted
    BY <1>7, ComputerSystemClassesServed
  <2>. QED  BY <2>1 DEF ComputerSystemNext
<1>8. CASE class \in HostClasses
  <2>1. r \in HostNext(d, e) /\ class \notin Parted
    BY <1>8, HostClassesServed
  <2>. QED  BY <2>1 DEF HostNext
<1>9. CASE class \in HostProcessorClasses
  <2>1. r \in HostProcessorNext(d, e) /\ class \notin Parted
    BY <1>9, HostProcessorClassesServed
  <2>. QED  BY <2>1 DEF HostProcessorNext
<1>10. CASE class \in HostNetworkPortClasses
  <2>1. r \in HostNetworkPortNext(d, e) /\ class \notin Parted
    BY <1>10, HostNetworkPortClassesServed
  <2>. QED  BY <2>1 DEF HostNetworkPortNext
<1>11. CASE class \in VirtualSwitchClasses
  <2>1. r \in VirtualSwitchNext(d, e) /\ class \notin Parted
    BY <1>11, VirtualSwitchClassesServed
  <2>. QED  BY <2>1 DEF VirtualSwitchNext, ReadNetwork
<1>12. CASE class \in StoragePoolClasses
  <2>1. r \in StoragePoolNext(d, e) /\ class \notin Parted
    BY <1>12, StoragePoolClassesServed
  <2>. QED  BY <2>1 DEF StoragePoolNext
<1>13. CASE class \in DiskImageClasses
  <2>1. r \in DiskImageNext(d, e) /\ class \notin Parted
    BY <1>13, DiskImageClassesServed
  <2>. QED  BY <2>1 DEF DiskImageNext
<1>14. CASE class \in HostPoolClasses
  <2>1. r \in HostPoolNext(d, e) /\ class \notin Parted
    BY <1>14, HostPoolClassesServed
  <2>. QED  BY <2>1 DEF HostPoolNext
<1>15. CASE class \in CapabilitiesSettings
  <2>1. r \in CapabilitiesNext(d, class, e)
    BY <1>15, CapabilitiesSettingsServed
  <2>. QED  BY <2>1 DEF CapabilitiesNext
<1>16. CASE class \in ServiceClasses
  <2>1. r \in ServiceNext(e) /\ class \notin Parted
    BY <1>16, ServiceClassesServed
  <2>. QED  BY <2>1 DEF ServiceNext
<1>17. CASE class \in MetricServiceClasses
  <2>1. r \in ServiceNext(e) /\ class \notin Parted
    BY <1>17, MetricServiceClassesServed
  <2>. QED  BY <2>1 DEF ServiceNext
<1>18. CASE class \in VirtualizationCapabilities
  <2>1. r \in VirtualizationNext(e) /\ class \notin Parted
    BY <1>18, VirtualizationCapabilitiesServed
  <2>. QED  BY <2>1 DEF VirtualizationNext
<1>. QED  BY <1>1, <1>2, <1>3, <1>4, <1>5, <1>6, <1>7, <1>8, <1>9, <1>10, <1>11, <1>12, <1>13,
             <1>14, <1>15, <1>16, <1>17, <1>18 DEF Served

\* What is listed are entries of the class.
LEMMA ListShaped ==
  ASSUME NEW d, NEW class \in Served
  PROVE  /\ \A e \in ListEnum(d, class) : Shaped(class, e)
         /\ \A o, ok : \A e \in ListWalk(d, class, o, ok) : Shaped(class, e)
<1>. USE DEF Shaped, Entry, Entries
<1>1. CASE class \in DiskClasses
  <2>1. /\ ListEnum(d, class) = DiskList(d)
        /\ \A o, ok : ListWalk(d, class, o, ok) = {}
    BY <1>1, DiskClassesServed
  <2>2. class \notin Parted
    BY <1>1, DiskClassesServed
  <2>. QED  BY <2>1, <2>2 DEF DiskList
<1>2. CASE class \in MemoryStateClasses
  <2>1. /\ ListEnum(d, class) = {}
        /\ \A o, ok : ListWalk(d, class, o, ok) = MemoryStateWalk(d, o)
    BY <1>2, MemoryStateClassesServed
  <2>2. class \in Parted
    BY <1>2, MemoryStateClassesServed
  <2>. QED  BY <2>1, <2>2 DEF MemoryStateWalk
<1>3. CASE class \in ProcessorClasses
  <2>1. /\ ListEnum(d, class) = {}
        /\ \A o, ok : ListWalk(d, class, o, ok) = ProcessorWalk(d, o)
    BY <1>3, ProcessorClassesServed
  <2>2. class \in Parted
    BY <1>3, ProcessorClassesServed
  <2>. QED  BY <2>1, <2>2 DEF ProcessorWalk
<1>4. CASE class \in NetworkPortClasses
  <2>1. /\ ListEnum(d, class) = NetworkPortList(d)
        /\ \A o, ok : ListWalk(d, class, o, ok) = {}
    BY <1>4, NetworkPortClassesServed
  <2>2. class \notin Parted
    BY <1>4, NetworkPortClassesServed
  <2>. QED  BY <2>1, <2>2 DEF NetworkPortList
<1>5. CASE class \in ConsoleClasses
  <2>1. /\ ListEnum(d, class) = ConsoleList(d)
        /\ \A o, ok : ListWalk(d, class, o, ok) = {}
    BY <1>5, ConsoleClassesServed
  <2>2. class \notin Parted
    BY <1>5, ConsoleClassesServed
  <2>. QED  BY <2>1, <2>2 DEF ConsoleList
<1>6. CASE class \in KVPClasses
  <2>1. /\ ListEnum(d, class) = {}
        /\ \A o, ok : ListWalk(d, class, o, ok) = KVPWalk(d, o, ok)
    BY <1>6, KVPClassesServed
  <2>2. class \in Parted
    BY <1>6, KVPClassesServed
  <2>. QED  BY <2>1, <2>2 DEF KVPWalk
<1>7. CASE class \in ComputerSystemClasses
  <2>1. /\ ListEnum(d, class) = ComputerSystemList(d)
        /\ \A o, ok : ListWalk(d, class, o, ok) = {}
    BY <1>7, ComputerSystemClassesServed
  <2>2. class \notin Parted
    BY <1>7, ComputerSystemClassesServed
  <2>. QED  BY <2>1, <2>2 DEF ComputerSystemList
<1>8. CASE class \in HostClasses
  <2>1. /\ ListEnum(d, class) = HostList(d)
        /\ \A o, ok : ListWalk(d, class, o, ok) = {}
    BY <1>8, HostClassesServed
  <2>2. class \notin Parted
    BY <1>8, HostClassesServed
  <2>. QED  BY <2>1, <2>2 DEF HostList
<1>9. CASE class \in HostProcessorClasses
  <2>1. /\ ListEnum(d, class) = HostProcessorList(d)
        /\ \A o, ok : ListWalk(d, class, o, ok) = {}
    BY <1>9, HostProcessorClassesServed
  <2>2. class \notin Parted
    BY <1>9, HostProcessorClassesServed
  <2>. QED  BY <2>1, <2>2 DEF HostProcessorList
<1>10. CASE class \in HostNetworkPortClasses
  <2>1. /\ ListEnum(d, class) = {}
        /\ \A o, ok : ListWalk(d, class, o, ok) = HostNetworkPortWalk(d, o)
    BY <1>10, HostNetworkPortClassesServed
  <2>2. class \notin Parted
    BY <1>10, HostNetworkPortClassesServed
  <2>. QED  BY <2>1, <2>2 DEF HostNetworkPortWalk
<1>11. CASE class \in VirtualSwitchClasses
  <2>1. /\ ListEnum(d, class) = VirtualSwitchList(d)
        /\ \A o, ok : ListWalk(d, class, o, ok) = {}
    BY <1>11, VirtualSwitchClassesServed
  <2>2. class \notin Parted
    BY <1>11, VirtualSwitchClassesServed
  <2>. QED  BY <2>1, <2>2 DEF VirtualSwitchList
<1>12. CASE class \in StoragePoolClasses
  <2>1. /\ ListEnum(d, class) = StoragePoolList(d)
        /\ \A o, ok : ListWalk(d, class, o, ok) = {}
    BY <1>12, StoragePoolClassesServed
  <2>2. class \notin Parted
    BY <1>12, StoragePoolClassesServed
  <2>. QED  BY <2>1, <2>2 DEF StoragePoolList
<1>13. CASE class \in DiskImageClasses
  <2>1. /\ ListEnum(d, class) = DiskImageList(d)
        /\ \A o, ok : ListWalk(d, class, o, ok) = {}
    BY <1>13, DiskImageClassesServed
  <2>2. class \notin Parted
    BY <1>13, DiskImageClassesServed
  <2>. QED  BY <2>1, <2>2 DEF DiskImageList
<1>14. CASE class \in HostPoolClasses
  <2>1. /\ ListEnum(d, class) = HostPoolList(d)
        /\ \A o, ok : ListWalk(d, class, o, ok) = {}
    BY <1>14, HostPoolClassesServed
  <2>2. class \notin Parted
    BY <1>14, HostPoolClassesServed
  <2>. QED  BY <2>1, <2>2 DEF HostPoolList
<1>15. CASE class \in CapabilitiesSettings
  <2>1. /\ ListEnum(d, class) = CapabilitiesList(d, class)
        /\ \A o, ok : ListWalk(d, class, o, ok) = {}
    BY <1>15, CapabilitiesSettingsServed
  <2>2. class \in Parted
    BY <1>15, CapabilitiesSettingsServed
  <2>. QED  BY <2>1, <2>2 DEF CapabilitiesList
<1>16. CASE class \in ServiceClasses
  <2>1. /\ ListEnum(d, class) = ServiceList
        /\ \A o, ok : ListWalk(d, class, o, ok) = {}
    BY <1>16, ServiceClassesServed
  <2>2. class \notin Parted
    BY <1>16, ServiceClassesServed
  <2>. QED  BY <2>1, <2>2 DEF ServiceList
<1>17. CASE class \in MetricServiceClasses
  <2>1. /\ ListEnum(d, class) = ServiceList
        /\ \A o, ok : ListWalk(d, class, o, ok) = {}
    BY <1>17, MetricServiceClassesServed
  <2>2. class \notin Parted
    BY <1>17, MetricServiceClassesServed
  <2>. QED  BY <2>1, <2>2 DEF ServiceList
<1>18. CASE class \in VirtualizationCapabilities
  <2>1. /\ ListEnum(d, class) = VirtualizationList
        /\ \A o, ok : ListWalk(d, class, o, ok) = {}
    BY <1>18, VirtualizationCapabilitiesServed
  <2>2. class \notin Parted
    BY <1>18, VirtualizationCapabilitiesServed
  <2>. QED  BY <2>1, <2>2 DEF VirtualizationList
<1>. QED  BY <1>1, <1>2, <1>3, <1>4, <1>5, <1>6, <1>7, <1>8, <1>9, <1>10, <1>11, <1>12, <1>13,
             <1>14, <1>15, <1>16, <1>17, <1>18 DEF Served

\* What is there has been read for its own entry.
LEMMA ThereReads ==
  ASSUME NEW d, NEW class \in Served, NEW e \in There(d, class)
  PROVE  /\ e \in AllEntries(d, class) /\ Shaped(class, e)
         /\ \E r \in RecordGetNext(d, class, e) :
               Named(r) = e /\ SetProperties(d, class, r) # {}
<1>1. PICK i \in EnumerateClass(d, class) : e = Named(i)
  BY DEF There
<1>0. PICK a \in AllEntries(d, class) :
         i \in UNION {{Instance(class, r, p) : p \in SetProperties(d, class, r)} :
                         r \in RecordGetNext(d, class, a)}
  BY <1>1 DEF EnumerateClass
<1>2. PICK r \in RecordGetNext(d, class, a) :
         \E p \in SetProperties(d, class, r) : i = Instance(class, r, p)
  BY <1>0
<1>3. Named(i) = Named(r)
  BY <1>2 DEF Named, Instance
<1>4. Shaped(class, a)
  <2>1. CASE a \in ListEnum(d, class)
    BY <2>1, ListShaped
  <2>2. CASE a \notin ListEnum(d, class)
    <3>1. PICK o \in WalkRefs(d, class) : a \in ListWalk(d, class, o, TRUE)
      BY <2>2 DEF AllEntries
    <3>. QED  BY <3>1, ListShaped
  <2>. QED  BY <2>1, <2>2
<1>. QED  BY <1>1, <1>2, <1>3, <1>4, NextNames

\* The object whose turn in a loop of list_enum lists an entry.
Origin(class, e) == IF class \in HostNetworkPortClasses THEN e.obj ELSE e.of

\* Where nothing is left out, what is there is listed when it is its turn, whatever the
\* state of the session.
LEMMA OriginListed ==
  ASSUME NEW d, NEW class \in WalkingClasses, class \notin Truncated, NEW e \in There(d, class)
  PROVE  /\ Origin(class, e) \in WalkRefs(d, class)
         /\ \A ok : e \in ListWalk(d, class, Origin(class, e), ok)
<1>1. CASE class \in MemoryStateClasses
  <2>1. /\ class \in Served /\ WalkRefs(d, class) = DOMAIN d.vm /\ ListEnum(d, class) = {}
        /\ \A o, ok : ListWalk(d, class, o, ok) = MemoryStateWalk(d, o)
    BY <1>1, MemoryStateClassesServed
  <2>2. PICK o \in DOMAIN d.vm : e \in MemoryStateWalk(d, o)
    <3>1. e \in AllEntries(d, class)
      BY <2>1, ThereReads
    <3>2. PICK o \in WalkRefs(d, class) : e \in ListWalk(d, class, o, TRUE)
      BY <2>1, <3>1 DEF AllEntries
    <3>. QED  BY <2>1, <3>2
  <2>3. class \notin HostNetworkPortClasses
    BY <1>1 DEF MemoryStateClasses, HostNetworkPortClasses, HostNetworkMetrics
  <2>4. Origin(class, e) = o
    BY <2>2, <2>3 DEF Origin, MemoryStateWalk, Entry
  <2>. QED  BY <2>1, <2>2, <2>4
<1>2. CASE class \in HostNetworkPortClasses
  <2>1. /\ class \in Served /\ WalkRefs(d, class) = DOMAIN d.pif /\ ListEnum(d, class) = {}
        /\ \A o, ok : ListWalk(d, class, o, ok) = HostNetworkPortWalk(d, o)
    BY <1>2, HostNetworkPortClassesServed
  <2>2. PICK o \in DOMAIN d.pif : e \in HostNetworkPortWalk(d, o)
    <3>1. e \in AllEntries(d, class)
      BY <2>1, ThereReads
    <3>2. PICK o \in WalkRefs(d, class) : e \in ListWalk(d, class, o, TRUE)
      BY <2>1, <3>1 DEF AllEntries
    <3>. QED  BY <2>1, <3>2
  <2>3. Origin(class, e) = o
    BY <1>2, <2>2 DEF Origin, HostNetworkPortWalk, Entry
  <2>. QED  BY <2>1, <2>2, <2>3
<1>. QED  BY <1>1, <1>2 DEF WalkingClasses, Truncated

\* A resource of a VBD or a VDI holds the record that the pool had from the start.
Genuine(class, r) ==
    /\ class \in DiskClasses => r.rec = Pool.vbd[r.obj]
    /\ class \in DiskImageClasses => r.rec = Pool.vdi[r.obj]

\* Every database the pool comes to: the records keep their types, and those of devices,
\* disk images and processors are never changed.  No device is left without its machine.
Settled(d) ==
    /\ DOMAIN d = DOMAIN Pool
    /\ DOMAIN d.vm \subseteq DOMAIN Pool.vm /\ d.vm \in [DOMAIN d.vm -> VmRecord]
    /\ \A o \in DOMAIN d.vbd : o \in DOMAIN Pool.vbd /\ d.vbd[o] = Pool.vbd[o]
    /\ \A o \in DOMAIN d.vbd : d.vbd[o].vm \in DOMAIN d.vm
    /\ \A o \in DOMAIN d.vif : o \in DOMAIN Pool.vif /\ d.vif[o] = Pool.vif[o]
    /\ \A o \in DOMAIN d.con : o \in DOMAIN Pool.con /\ d.con[o] = Pool.con[o]
    /\ \A o \in DOMAIN d.vif : d.vif[o].vm \in DOMAIN d.vm
    /\ \A o \in DOMAIN d.con : d.con[o].vm \in DOMAIN d.vm
    /\ \A o \in DOMAIN d.cpu : o \in DOMAIN Pool.cpu /\ d.cpu[o] = Pool.cpu[o]
    /\ DOMAIN d.pif \subseteq DOMAIN Pool.pif /\ d.pif \in [DOMAIN d.pif -> PifRecord]
    /\ d.sr \in [DOMAIN Pool.sr -> SrRecord]
    /\ d.vdi = Pool.vdi /\ d.net = Pool.net /\ d.pool = Pool.pool /\ d.local = Pool.local
    /\ d.host \subseteq Pool.host /\ d.local \in d.host

\* What is read in a settled pool is genuine.
LEMMA NextGenuine ==
  ASSUME NEW d, Settled(d), NEW class \in Served, NEW e, NEW r \in RecordGetNext(d, class, e)
  PROVE  Genuine(class, r)
<1>1. CASE class \in DiskClasses
  <2>1. r \in DiskNext(d, class, e)
    BY <1>1, DiskClassesServed
  <2>2. r.rec = Pool.vbd[r.obj]
    BY <2>1 DEF DiskNext, ReadAs, Read, Resource, Settled
  <2>3. class \notin DiskImageClasses
    BY <1>1 DEF DiskClasses, DiskMetrics, DiskImageClasses
  <2>. QED  BY <2>2, <2>3 DEF Genuine
<1>2. CASE class \in DiskImageClasses
  <2>1. r \in DiskImageNext(d, e)
    BY <1>2, DiskImageClassesServed
  <2>2. r.rec = Pool.vdi[r.obj]
    BY <2>1 DEF DiskImageNext, ReadAs, Read, Resource, Settled
  <2>3. class \notin DiskClasses
    BY <1>2 DEF DiskClasses, DiskMetrics, DiskImageClasses
  <2>. QED  BY <2>2, <2>3 DEF Genuine
<1>. QED  BY <1>1, <1>2 DEF Genuine

\* A resource that was read earlier makes an instance as long as its object is there.
LEMMA StillMade ==
  ASSUME NEW d, Settled(d), NEW class \in Served,
         NEW r, Genuine(class, r), Named(r) \in There(d, class)
  PROVE  SetProperties(d, class, r) # {}
<1>1. PICK q \in RecordGetNext(d, class, Named(r)) :
          Named(q) = Named(r) /\ SetProperties(d, class, q) # {}
  BY ThereReads
<1>2. q.obj = r.obj
  BY <1>1 DEF Named, Entry
<1>3. Genuine(class, q)
  BY NextGenuine
<1>4. CASE class \in DiskClasses
  <2>1. /\ SetProperties(d, class, q) = DiskProperties(d, class, q)
        /\ SetProperties(d, class, r) = DiskProperties(d, class, r)
    BY <1>4, DiskClassesServed
  <2>2. q.rec = r.rec
    BY <1>2, <1>3, <1>4 DEF Genuine
  <2>3. DiskProperties(d, class, r) = DiskProperties(d, class, q)
    BY <1>2, <2>2, Zenon DEF DiskProperties
  <2>. QED  BY <1>1, <2>1, <2>3
<1>5. CASE class \in DiskImageClasses
  <2>1. /\ SetProperties(d, class, q) = DiskImageProperties(d, q)
        /\ SetProperties(d, class, r) = DiskImageProperties(d, r)
    BY <1>5, DiskImageClassesServed
  <2>2. q.rec = r.rec
    BY <1>2, <1>3, <1>5 DEF Genuine
  <2>3. DiskImageProperties(d, r) = DiskImageProperties(d, q)
    BY <1>2, <2>2, Zenon DEF DiskImageProperties
  <2>. QED  BY <1>1, <2>1, <2>3
<1>6. CASE class \in ServiceClasses
  BY <1>1, <1>6, ServiceClassesServed
<1>7. CASE class \in MemoryStateClasses
  <2>1. SetProperties(d, class, r) = MemoryStateProperties(d, r)
    BY <1>7, MemoryStateClassesServed
  <2>. QED  BY <2>1 DEF MemoryStateProperties
<1>8. CASE class \in NetworkPortClasses
  <2>1. SetProperties(d, class, r) = NetworkPortProperties(d, class, r)
    BY <1>8, NetworkPortClassesServed
  <2>. QED  BY <2>1 DEF NetworkPortProperties
<1>9. CASE class \in ConsoleClasses
  <2>1. SetProperties(d, class, r) = ConsoleProperties(d, class, r)
    BY <1>9, ConsoleClassesServed
  <2>. QED  BY <2>1 DEF ConsoleProperties
<1>10. CASE class \in ComputerSystemClasses
  <2>1. SetProperties(d, class, r) = ComputerSystemProperties(d, class, r)
    BY <1>10, ComputerSystemClassesServed
  <2>. QED  BY <2>1 DEF ComputerSystemProperties
<1>11. CASE class \in HostClasses
  <2>1. SetProperties(d, class, r) = HostProperties(class, r)
    BY <1>11, HostClassesServed
  <2>. QED  BY <2>1 DEF HostProperties
<1>12. CASE class \in HostProcessorClasses
  <2>1. SetProperties(d, class, r) = HostProcessorProperties(d, r)
    BY <1>12, HostProcessorClassesServed
  <2>. QED  BY <2>1 DEF HostProcessorProperties
<1>13. CASE class \in HostNetworkPortClasses
  <2>1. SetProperties(d, class, r) = HostNetworkPortProperties(d, class, r)
    BY <1>13, HostNetworkPortClassesServed
  <2>. QED  BY <2>1 DEF HostNetworkPortProperties
<1>14. CASE class \in VirtualSwitchClasses
  <2>1. SetProperties(d, class, r) = VirtualSwitchProperties(d, class, r)
    BY <1>14, VirtualSwitchClassesServed
  <2>. QED  BY <2>1 DEF VirtualSwitchProperties
<1>15. CASE class \in StoragePoolClasses
  <2>1. SetProperties(d, class, r) = StoragePoolProperties(d, class, r)
    BY <1>15, StoragePoolClassesServed
  <2>. QED  BY <2>1 DEF StoragePoolProperties
<1>16. CASE class \in HostPoolClasses
  <2>1. SetProperties(d, class, r) = HostPoolProperties(r)
    BY <1>16, HostPoolClassesServed
  <2>. QED  BY <2>1 DEF HostPoolProperties
<1>17. CASE class \in CapabilitiesSettings
  <2>1. SetProperties(d, class, r) = CapabilitiesProperties(r)
    BY <1>17, CapabilitiesSettingsServed
  <2>. QED  BY <2>1 DEF CapabilitiesProperties
<1>18. CASE class \in MetricServiceClasses
  <2>1. SetProperties(d, class, r) = MetricServiceProperties
    BY <1>18, MetricServiceClassesServed
  <2>. QED  BY <2>1 DEF MetricServiceProperties
<1>19. CASE class \in VirtualizationCapabilities
  <2>1. SetProperties(d, class, r) = VirtualizationProperties(r)
    BY <1>19, VirtualizationCapabilitiesServed
  <2>. QED  BY <2>1 DEF VirtualizationProperties
<1>20. CASE class \in KVPClasses
  <2>1. SetProperties(d, class, r) = KVPProperties(r)
    BY <1>20, KVPClassesServed
  <2>. QED  BY <2>1 DEF KVPProperties
<1>21. CASE class \in ProcessorClasses
  <2>1. \A x : SetProperties(d, class, x) = ProcessorProperties(d, x)
    BY <1>21, ProcessorClassesServed
  <2>. QED  BY <1>1, <1>2, <2>1 DEF ProcessorProperties
<1>. QED  BY <1>4, <1>5, <1>6, <1>7, <1>8, <1>9, <1>10, <1>11, <1>12, <1>13, <1>14, <1>15, <1>16,
             <1>17, <1>18, <1>19, <1>20, <1>21 DEF Served

-----------------------------------------------------------------------------
(* An enumeration while the pool changes                                   *)

Enumerating == {"listing", "reading", "filling"}
Returned == {Named(i) : i \in result}

\* What was there all the time is there now; and it has been returned, or is still in the
\* list, or is in hand, or the turn of its object in the loop of list_enum is to come.
Kept(e) ==
    \/ e \in request.list \cup Returned
    \/ request.phase = "filling" /\ e = Named(request.res)
    \/ request.phase = "listing" /\ Origin(request.class, e) \in request.refs
Viewing ==
    /\ Settled(db)
    /\ request.phase \in Enumerating =>
         /\ request.class \in Served
         /\ \A e \in request.list : Shaped(request.class, e)
         /\ steady \subseteq There(db, request.class)
         /\ request.class \notin Truncated => \A e \in steady : Kept(e)
    /\ request.phase = "listing" => request.class \in WalkingClasses
    /\ request.phase = "filling" => Genuine(request.class, request.res)

\* At the start the pool is as it was given.
LEMMA PoolSettled == Settled(Pool)
<1>1. /\ \A o \in DOMAIN Pool.vbd : Pool.vbd[o].vm \in DOMAIN Pool.vm
      /\ \A o \in DOMAIN Pool.vif : Pool.vif[o].vm \in DOMAIN Pool.vm
      /\ \A o \in DOMAIN Pool.con : Pool.con[o].vm \in DOMAIN Pool.vm
  BY TablesAssumption
<1>. QED  BY <1>1, TablesAssumption, PoolAssumption DEF Settled

\* And nobody asks.
LEMMA InitViewing == Init => Viewing
  BY PoolSettled DEF Init, Viewing, Idle, Enumerating

\* With a machine go its devices.
LEMMA GoneSettled ==
  ASSUME Settled(db), NEW v \in DOMAIN db.vm, db' = VmGone(db, v)
  PROVE  Settled(db')
<1>1. {"vm", "vbd", "vif", "con", "vdi", "sr", "pif", "cpu", "net", "host", "pool", "local"}
         \subseteq DOMAIN db
  BY TablesAssumption DEF Settled
<1>2. /\ DOMAIN db' = DOMAIN db
      /\ db'.vm = Drop(db.vm, {v}) /\ db'.vbd = Drop(db.vbd, DevicesOf(db.vbd, v))
      /\ db'.vif = Drop(db.vif, DevicesOf(db.vif, v))
      /\ db'.con = Drop(db.con, DevicesOf(db.con, v))
      /\ db'.vdi = db.vdi /\ db'.sr = db.sr /\ db'.pif = db.pif /\ db'.cpu = db.cpu
      /\ db'.net = db.net /\ db'.host = db.host /\ db'.pool = db.pool /\ db'.local = db.local
  BY <1>1 DEF VmGone
<1>3. DOMAIN db'.vm \subseteq DOMAIN Pool.vm /\ db'.vm \in [DOMAIN db'.vm -> VmRecord]
  BY <1>2 DEF Settled, Drop
<1>4. /\ \A o \in DOMAIN db'.vbd : o \in DOMAIN Pool.vbd /\ db'.vbd[o] = Pool.vbd[o]
      /\ \A o \in DOMAIN db'.vbd : db'.vbd[o].vm \in DOMAIN db'.vm
  BY <1>2 DEF Settled, Drop, DevicesOf
<1>5. /\ \A o \in DOMAIN db'.vif : o \in DOMAIN Pool.vif /\ db'.vif[o] = Pool.vif[o]
      /\ \A o \in DOMAIN db'.con : o \in DOMAIN Pool.con /\ db'.con[o] = Pool.con[o]
      /\ \A o \in DOMAIN db'.vif : db'.vif[o].vm \in DOMAIN db'.vm
      /\ \A o \in DOMAIN db'.con : db'.con[o].vm \in DOMAIN db'.vm
  BY <1>2 DEF Settled, Drop, DevicesOf
<1>. QED  BY <1>2, <1>3, <1>4, <1>5 DEF Settled

\* No change of another client breaks what is said of the pool.
LEMMA ChangesSettled ==
  ASSUME Settled(db), OtherClients
  PROVE  Settled(db')
<1>0. {"vm", "vbd", "vif", "con", "vdi", "sr", "pif", "cpu", "net", "host", "pool", "local"}
         \subseteq DOMAIN db
  BY TablesAssumption DEF Settled
<1>. USE <1>0 DEF Change
<1>1. CASE DestroyVm
  BY <1>1, GoneSettled DEF DestroyVm
<1>2. CASE ConvertToTemplate
  BY <1>2 DEF ConvertToTemplate, Settled, VmRecord, Templates
<1>3. CASE Stop
  BY <1>3 DEF Stop, Settled, VmRecord
<1>4. CASE Suspend
  <2>1. PICK v \in DOMAIN db.vm, s \in DOMAIN db.vdi :
           db' = [db EXCEPT !.vm[v].suspend = s, !.vm[v].host = NoObject]
    BY <1>4 DEF Suspend
  <2>2. db' = [db EXCEPT !.vm = [db.vm EXCEPT ![v] =
                 [db.vm[v] EXCEPT !.suspend = s, !.host = NoObject]]]
    BY <2>1
  <2>3. s \in DOMAIN Pool.vdi /\ db.vm[v] \in VmRecord
    BY DEF Settled
  <2>4. [db.vm[v] EXCEPT !.suspend = s, !.host = NoObject] \in VmRecord
    BY <2>3 DEF VmRecord
  <2>. QED  BY <2>2, <2>4 DEF Settled
<1>5. CASE Migrate
  BY <1>5 DEF Migrate, Settled, VmRecord
<1>6. CASE RemoveDevice
  <2>1. CASE \E o \in DOMAIN db.vbd : db' = [db EXCEPT !.vbd = Drop(db.vbd, {o})]
    BY <2>1 DEF Drop, Settled
  <2>2. CASE \E o \in DOMAIN db.vif : db' = [db EXCEPT !.vif = Drop(db.vif, {o})]
    BY <2>2 DEF Drop, Settled
  <2>. QED  BY <1>6, <2>1, <2>2 DEF RemoveDevice
<1>7. CASE Reconnect
  BY <1>7 DEF Reconnect, Settled, SrRecord
<1>8. CASE Bond
  <2>1. PICK p \in DOMAIN db.pif : db' = [db EXCEPT !.pif[p].slave = TRUE]
    BY <1>8 DEF Bond
  <2>2. db.pif[p] \in PifRecord
    BY DEF Settled
  <2>3. [db.pif[p] EXCEPT !.slave = TRUE] \in PifRecord
    BY <2>2 DEF PifRecord
  <2>. QED  BY <2>1, <2>3 DEF Settled
<1>9. CASE Eject
  BY <1>9 DEF Eject, Settled
<1>10. CASE Collect
  <2>1. PICK h \in Pool.host : db' = [db EXCEPT
           !.cpu = Drop(db.cpu, {p \in DOMAIN db.cpu : db.cpu[p].host = h}),
           !.pif = Drop(db.pif, {p \in DOMAIN db.pif : db.pif[p].host = h}),
           !.sr = [s \in DOMAIN db.sr |-> [db.sr[s] EXCEPT !.hosts = @ \ {h}]]]
    BY <1>10 DEF Collect
  <2> DEFINE cpus == Drop(db.cpu, {p \in DOMAIN db.cpu : db.cpu[p].host = h})
             pifs == Drop(db.pif, {p \in DOMAIN db.pif : db.pif[p].host = h})
             srs  == [s \in DOMAIN db.sr |-> [db.sr[s] EXCEPT !.hosts = @ \ {h}]]
  <2>7. db' = [db EXCEPT !.cpu = cpus, !.pif = pifs, !.sr = srs]
    BY <2>1
  <2> HIDE DEF cpus, pifs, srs
  <2>2. /\ DOMAIN db' = DOMAIN db /\ db'.cpu = cpus /\ db'.pif = pifs /\ db'.sr = srs
        /\ db'.vm = db.vm /\ db'.vbd = db.vbd /\ db'.vif = db.vif /\ db'.con = db.con
        /\ db'.vdi = db.vdi /\ db'.net = db.net /\ db'.host = db.host /\ db'.pool = db.pool
        /\ db'.local = db.local
    BY <2>7
  <2>3. ASSUME NEW s \in DOMAIN Pool.sr
        PROVE  [db.sr[s] EXCEPT !.hosts = @ \ {h}] \in SrRecord
    BY DEF Settled, SrRecord
  <2>4. db'.sr \in [DOMAIN Pool.sr -> SrRecord]
    BY <2>2, <2>3 DEF Settled, srs
  <2>5. DOMAIN db'.pif \subseteq DOMAIN Pool.pif /\ db'.pif \in [DOMAIN db'.pif -> PifRecord]
    BY <2>2 DEF Settled, Drop, pifs
  <2>6. \A o \in DOMAIN db'.cpu : o \in DOMAIN Pool.cpu /\ db'.cpu[o] = Pool.cpu[o]
    BY <2>2 DEF Settled, Drop, cpus
  <2>. QED  BY <2>2, <2>4, <2>5, <2>6 DEF Settled
<1>. QED  BY <1>1, <1>2, <1>3, <1>4, <1>5, <1>6, <1>7, <1>8, <1>9, <1>10 DEF OtherClients

\* After a change what was there all the time is still there.
LEMMA ChangesKeep ==
  ASSUME Viewing, OtherClients
  PROVE  Viewing'
<1>1. /\ steady' = IF request = Idle THEN steady ELSE steady \cap There(db', request.class)
      /\ UNCHANGED <<request, result, held>>
  BY DEF OtherClients, DestroyVm, ConvertToTemplate, Stop, Suspend, Migrate, RemoveDevice,
         Reconnect, Bond, Eject, Collect, Change
<1>2. Settled(db')
  BY ChangesSettled DEF Viewing
<1>3. request.phase \in Enumerating => steady' = steady \cap There(db', request.class)
  BY <1>1 DEF Idle, Enumerating
<1>4. \A e : Kept(e) => Kept(e)'
  BY <1>1 DEF Kept, Returned
<1>. QED  BY <1>1, <1>2, <1>3, <1>4 DEF Viewing

\* An enumeration begins with all that is there in its list, or in the loop to come.
LEMMA BeginKeeps ==
  ASSUME Viewing, NEW class \in Classes, Begin(class)
  PROVE  Viewing'
<1>1. class \in Served
  BY ClassAssumption
<1>2. UNCHANGED db /\ steady' = There(db, class) /\ Settled(db)'
  BY DEF Begin, Viewing
<1>3. CASE class \in WalkingClasses
  <2>1. request' = Walking(class, WalkRefs(db, class), {}, TRUE)
    BY <1>3 DEF Begin
  <2>2. ASSUME NEW e \in There(db, class), class \notin Truncated
        PROVE  Origin(class, e) \in WalkRefs(db, class)
    BY <1>3, <2>2, OriginListed
  <2>3. CASE WalkRefs(db, class) = {}
    <3>1. request' = Reading(class, {})
      BY <2>1, <2>3 DEF Walking
    <3>. QED  BY <1>1, <1>2, <2>2, <2>3, <3>1 DEF Viewing, Reading, Enumerating
  <2>4. CASE WalkRefs(db, class) # {}
    <3>1. /\ request'.phase = "listing" /\ request'.class = class
          /\ request'.refs = WalkRefs(db, class) /\ request'.list = {}
      BY <2>1, <2>4 DEF Walking
    <3>2. class \notin Truncated => \A e \in steady' : Kept(e)'
      BY <1>2, <2>2, <3>1 DEF Kept
    <3>. QED  BY <1>1, <1>2, <1>3, <3>1, <3>2 DEF Viewing
  <2>. QED  BY <2>3, <2>4
<1>4. CASE class \notin WalkingClasses
  <2>1. request' = Reading(class, ListEnum(db, class))
    BY <1>4 DEF Begin
  <2>2. /\ request'.phase = "reading" /\ request'.class = class
        /\ request'.list = ListEnum(db, class)
    BY <2>1 DEF Reading
  <2>3. \A e \in There(db, class) : e \in ListEnum(db, class)
    <3>1. \A o : ListWalk(db, class, o, TRUE) = {}
      BY <1>4 DEF WalkingClasses, ListWalk
    <3>2. UNION {ListWalk(db, class, o, TRUE) : o \in WalkRefs(db, class)} = {}
      BY <3>1
    <3>3. AllEntries(db, class) = ListEnum(db, class)
      BY <3>2 DEF AllEntries
    <3>. QED  BY <1>1, <3>3, ThereReads
  <2>4. \A e \in steady' : Kept(e)'
    BY <1>2, <2>2, <2>3 DEF Kept
  <2>5. \A e \in request'.list : Shaped(class, e)
    BY <1>1, <2>2, ListShaped
  <2>. QED  BY <1>1, <1>2, <2>2, <2>4, <2>5 DEF Viewing
<1>. QED  BY <1>3, <1>4

\* The turn of an object lists what is there of it.
LEMMA WalkTurnKeeps ==
  ASSUME Viewing, WalkTurn
  PROVE  Viewing'
<1> DEFINE class == request.class
<1>1. /\ request.phase = "listing" /\ UNCHANGED <<db, result, steady>>
      /\ class \in WalkingClasses /\ class \in Served /\ Settled(db)
      /\ steady \subseteq There(db, class) /\ \A e \in request.list : Shaped(class, e)
  BY DEF WalkTurn, Viewing, Enumerating
<1>2. PICK v \in request.refs :
         LET list == request.list \cup ListWalk(db, request.class, v, request.ok)
             rest == IF WalkEnds(db, request.class, v) THEN {} ELSE request.refs \ {v}
             ok   == WalkOk(db, request.class, v, request.ok)
         IN  request' = Walking(request.class, rest, list, ok)
  BY DEF WalkTurn
<1> DEFINE list == request.list \cup ListWalk(db, class, v, request.ok)
           rest == IF WalkEnds(db, class, v) THEN {} ELSE request.refs \ {v}
<1>3. request' = Walking(class, rest, list, WalkOk(db, class, v, request.ok))
  BY <1>2
<1>4. \A e \in list : Shaped(class, e)
  BY <1>1, ListShaped
<1>5. ASSUME class \notin Truncated, NEW e \in steady
      PROVE  e \in list \cup Returned \/ Origin(class, e) \in rest
  <2>1. Kept(e)
    BY <1>1, <1>5 DEF Viewing, Enumerating
  <2>2. ~WalkEnds(db, class, v)
    BY <1>5 DEF WalkEnds, Truncated
  <2>3. e \in ListWalk(db, class, Origin(class, e), request.ok)
    BY <1>1, <1>5, OriginListed
  <2>. QED  BY <1>1, <2>1, <2>2, <2>3 DEF Kept
<1>6. Returned' = Returned
  BY <1>1 DEF Returned
<1> HIDE DEF list, rest, class
<1>7. CASE rest = {}
  <2>1. request' = Reading(class, list)
    BY <1>3, <1>7 DEF Walking
  <2>2. request'.phase = "reading" /\ request'.class = class /\ request'.list = list
    BY <2>1 DEF Reading
  <2>3. class \notin Truncated => \A e \in steady' : Kept(e)'
    BY <1>1, <1>5, <1>6, <1>7, <2>2 DEF Kept
  <2>. QED  BY <1>1, <1>4, <2>2, <2>3 DEF Viewing
<1>8. CASE rest # {}
  <2>1. /\ request'.phase = "listing" /\ request'.class = class /\ request'.list = list
        /\ request'.refs = rest
    BY <1>3, <1>8 DEF Walking
  <2>2. class \notin Truncated => \A e \in steady' : Kept(e)'
    BY <1>1, <1>5, <1>6, <2>1 DEF Kept
  <2>. QED  BY <1>1, <1>4, <2>1, <2>2 DEF Viewing
<1>. QED  BY <1>7, <1>8

\* What is passed over is not there any more, and what is read is in hand.
LEMMA GetNextKeeps ==
  ASSUME Viewing, GetNext
  PROVE  Viewing'
<1> DEFINE class == request.class
<1>1. /\ request.phase = "reading" /\ UNCHANGED <<db, result, steady>>
      /\ class \in Served /\ Settled(db)
      /\ steady \subseteq There(db, class) /\ \A e \in request.list : Shaped(class, e)
      /\ class \notin Truncated => \A e \in steady : e \in request.list \cup Returned
  BY DEF GetNext, Viewing, Enumerating, Kept
<1>2. PICK e \in request.list :
         \/ /\ RecordGetNext(db, class, e) = {}
            /\ request' = Reading(class, request.list \ {e})
         \/ \E r \in RecordGetNext(db, class, e) :
               request' = Filling(class, request.list \ {e}, r)
  BY DEF GetNext
<1>3. Returned' = Returned
  BY <1>1 DEF Returned
<1> HIDE DEF class
<1>4. CASE /\ RecordGetNext(db, class, e) = {}
           /\ request' = Reading(class, request.list \ {e})
  <2>1. /\ request'.phase = "reading" /\ request'.class = class
        /\ request'.list = request.list \ {e}
    BY <1>4 DEF Reading
  <2>2. e \notin steady
    BY <1>1, <1>4, ThereReads
  <2>3. class \notin Truncated => \A a \in steady' : Kept(a)'
    BY <1>1, <1>3, <2>1, <2>2 DEF Kept
  <2>. QED  BY <1>1, <2>1, <2>3 DEF Viewing
<1>5. CASE \E r \in RecordGetNext(db, class, e) :
              request' = Filling(class, request.list \ {e}, r)
  <2>1. PICK r \in RecordGetNext(db, class, e) :
               request' = Filling(class, request.list \ {e}, r)
    BY <1>5
  <2>2. /\ request'.phase = "filling" /\ request'.class = class
        /\ request'.list = request.list \ {e} /\ request'.res = r
    BY <2>1 DEF Filling
  <2>3. Named(r) = e /\ Genuine(class, r)
    BY <1>1, NextNames, NextGenuine
  <2>4. class \notin Truncated => \A a \in steady' : Kept(a)'
    BY <1>1, <1>3, <2>2, <2>3 DEF Kept
  <2>. QED  BY <1>1, <2>2, <2>3, <2>4 DEF Viewing
<1>. QED  BY <1>2, <1>4, <1>5

\* What is in hand and still there is returned.
LEMMA FillInKeeps ==
  ASSUME Viewing, FillIn
  PROVE  Viewing'
<1> DEFINE class == request.class
           r == request.res
           made == SetProperties(db, class, r)
<1>1. /\ request.phase = "filling" /\ UNCHANGED <<db, steady>>
      /\ class \in Served /\ Settled(db) /\ Genuine(class, r)
      /\ steady \subseteq There(db, class) /\ \A e \in request.list : Shaped(class, e)
      /\ class \notin Truncated =>
            \A e \in steady : e \in request.list \cup Returned \/ e = Named(r)
  BY DEF FillIn, Viewing, Enumerating, Kept
<1>2. \/ Dies
      \/ /\ request' = Reading(class, request.list)
         /\ result' = result \cup {Instance(class, r, p) : p \in made}
  BY DEF FillIn
<1>3. class \notin Truncated /\ Named(r) \in steady => made # {}
  BY <1>1, StillMade
<1> HIDE DEF class, made
<1>4. CASE Dies
  <2>1. request' = [phase |-> "dead", class |-> class]
    BY <1>4 DEF Dies, class
  <2>. QED  BY <1>1, <2>1 DEF Viewing, Enumerating
<1>5. CASE /\ request' = Reading(class, request.list)
           /\ result' = result \cup {Instance(class, r, p) : p \in made}
  <2>1. request'.phase = "reading" /\ request'.class = class /\ request'.list = request.list
    BY <1>5 DEF Reading
  <2>2. Returned \subseteq Returned'
    BY <1>5 DEF Returned
  <2>3. made # {} => Named(r) \in Returned'
    <3>1. SUFFICES ASSUME NEW p \in made PROVE Named(r) \in Returned'
      OBVIOUS
    <3>2. Instance(class, r, p) \in result'
      BY <1>5
    <3>3. Named(Instance(class, r, p)) = Named(r)
      BY DEF Named, Instance
    <3>. QED  BY <3>2, <3>3 DEF Returned
  <2>4. class \notin Truncated => \A e \in steady' : Kept(e)'
    BY <1>1, <1>3, <2>1, <2>2, <2>3 DEF Kept
  <2>. QED  BY <1>1, <2>1, <2>4 DEF Viewing
<1>. QED  BY <1>2, <1>4, <1>5

\* The other steps do not enumerate.
LEMMA OthersKeep ==
  ASSUME Viewing,
         \/ End \/ Restart \/ Get \/ GetFillIn \/ Received
         \/ \E class \in PathClasses : Keep(class)
  PROVE  Viewing'
<1>1. Settled(db)'
  BY DEF Viewing, End, Restart, Get, GetFillIn, Received, Keep
<1>2. CASE End \/ Restart \/ Received
  BY <1>1, <1>2 DEF Viewing, End, Restart, Received, Idle, Enumerating
<1>3. CASE Get
  BY <1>1, <1>3 DEF Viewing, Get, Answered, Enumerating
<1>4. CASE GetFillIn
  <2>1. request'.phase \in {"dead", "answered"}
    BY <1>4 DEF GetFillIn, Dies, Answered
  <2>. QED  BY <1>1, <1>4, <2>1 DEF Viewing, GetFillIn, Enumerating
<1>5. CASE \E class \in PathClasses : Keep(class)
  BY <1>1, <1>5 DEF Viewing, Keep, Idle, Enumerating
<1>. QED  BY <1>2, <1>3, <1>4, <1>5

\* Every step of the provider and of the other clients keeps what is said of an enumeration.
LEMMA NextViewing == Viewing /\ [Next]_vars => Viewing'
<1>. SUFFICES ASSUME Viewing, [Next]_vars PROVE Viewing'
  OBVIOUS
<1>1. CASE UNCHANGED vars
  BY <1>1 DEF vars, Viewing, Kept, Returned
<1>2. CASE Next
  BY <1>2, ChangesKeep, BeginKeeps, WalkTurnKeeps, GetNextKeeps, FillInKeeps, OthersKeep DEF Next
<1>. QED  BY <1>1, <1>2

\* EnumerationComplete: for any pool and any changes of other clients, an enumeration returns
\* every object of its class that was there from its beginning to its end: what is listed
\* later, read later and filled in later still is lost only if it goes.
THEOREM NothingMissed == Spec => []EnumerationComplete
<1>1. Viewing => EnumerationComplete
  BY DEF Viewing, EnumerationComplete, EnumerationEnds, Enumerating, Kept, Returned
<1>. QED  BY InitViewing, NextViewing, <1>1, PTL DEF Spec

-----------------------------------------------------------------------------
(* Paths lead back                                                         *)

\* The identifier of a system gives its name back, if that has no slash.
LEMMA SystemOfSystem ==
    ASSUME NEW system \in Name, ~Has(system, Slash)
    PROVE  SystemNameFromID(NewSystemInstanceID(system)) = system
<1> DEFINE prefix == <<"Xen", Colon>>
           id == prefix \o system
           n == Len(system)
<1>1. n \in Nat /\ DOMAIN system = 1..n /\ system \in Seq(Token)
  BY LenProperties DEF Name
<1>2. /\ prefix \in Seq(Token) /\ Len(prefix) = 2
      /\ prefix[1] = "Xen" /\ prefix[2] = Colon
  <2>1. "Xen" \in Token /\ Colon \in Token
    BY DEF Token
  <2> QED
    BY <2>1
<1> HIDE DEF prefix
<1>3. /\ id \in Seq(Token) /\ Len(id) = 2 + n
      /\ \A i \in 1..(2 + n) : id[i] = IF i <= 2 THEN prefix[i] ELSE system[i - 2]
  <2>1. /\ id \in Seq(Token) /\ Len(id) = Len(prefix) + n
        /\ \A i \in 1..(Len(prefix) + n) :
              id[i] = IF i <= Len(prefix) THEN prefix[i] ELSE system[i - Len(prefix)]
    BY <1>1, <1>2, ConcatProperties
  <2> QED
    BY <1>2, <2>1
<1> HIDE DEF id, n
<1>4. id \in Name /\ 2 \in 1..Len(id) /\ id[2] = Colon /\ \A j \in 1..(2 - 1) : id[j] # Colon
  BY <1>1, <1>2, <1>3 DEF Name, Colon
<1>5. Has(id, Colon) /\ FirstAt(id, Colon) = 2
  BY <1>4, FirstAtIs
<1>6. 3 \in 1..(Len(id) + 1) /\ Len(id) - 3 + 1 = n
  BY <1>1, <1>3
<1>7. /\ From(id, 3) \in Name /\ Len(From(id, 3)) = n
      /\ \A i \in 1..n : From(id, 3)[i] = id[3 + i - 1]
  BY <1>4, <1>6, FromIs
<1>8. \A i \in 1..n : From(id, 3)[i] = system[i]
  <2>1. SUFFICES ASSUME NEW i \in 1..n PROVE id[3 + i - 1] = system[i]
    BY <1>7
  <2>2. 3 + i - 1 \in 1..(2 + n) /\ ~(3 + i - 1 <= 2) /\ (3 + i - 1) - 2 = i
    BY <1>1
  <2> QED
    BY <1>3, <2>2
<1>9. From(id, 3) = system
  BY <1>7, <1>8, SeqEqual DEF Name, n
<1>10. FirstAt(id, Colon) + 1 = 3
  BY <1>5
<1>11. SystemNameFromID(id) = system
  BY <1>5, <1>9, <1>10 DEF SystemNameFromID
<1> QED
  BY <1>11 DEF NewSystemInstanceID, id, prefix

\* The names without a slash.
Plain == {n \in Name : ~Has(n, Slash)}

\* What is put into an identifier of such names is taken out of it again.
LEMMA Taken ==
  ASSUME NEW s \in Name, NEW o \in Plain
  PROVE  /\ DeviceNameFromID(NewDeviceInstanceID(s, o)) = o
         /\ SystemNameFromID(NewDeviceInstanceID(s, o)) = s
         /\ SystemNameFromID(NewSystemInstanceID(o)) = o
  BY DeviceRecovered, SystemRecovered, SystemOfSystem DEF Plain

\* Such are the names of xapi's objects, of VCPUs and of settings.
LEMMA PlainNames ==
  /\ DOMAIN Pool.vm \subseteq Plain /\ DOMAIN Pool.vbd \subseteq Plain
  /\ DOMAIN Pool.vif \subseteq Plain /\ DOMAIN Pool.con \subseteq Plain
  /\ DOMAIN Pool.vdi \subseteq Plain /\ DOMAIN Pool.sr \subseteq Plain
  /\ DOMAIN Pool.pif \subseteq Plain /\ DOMAIN Pool.cpu \subseteq Plain
  /\ Pool.net \subseteq Plain /\ Pool.host \subseteq Plain /\ Pool.pool \subseteq Plain
  /\ VcpuNames(MaxVcpus) \subseteq Plain
  /\ \A c \in CapabilitiesSettings : SettingNames(c) \subseteq Plain
<1>1. Uuids \subseteq Plain /\ VcpuNames(MaxVcpus) \subseteq Plain
  BY NamesAssumption DEF Plain
<1>2. \A c \in CapabilitiesSettings : SettingNames(c) \subseteq Plain
  BY NamesAssumption DEF Plain
<1>3. \A S \in {DOMAIN Pool.vm, DOMAIN Pool.vbd, DOMAIN Pool.vif, DOMAIN Pool.con,
                DOMAIN Pool.vdi, DOMAIN Pool.sr, DOMAIN Pool.pif, DOMAIN Pool.cpu,
                Pool.net, Pool.host, Pool.pool} : S \subseteq Uuids
  BY DEF Uuids
<1>. QED  BY <1>1, <1>2, <1>3

\* An identifier leads to an entry: in whatever database it is looked up, as long as the
\* entry is there, what is found is what an enumeration reads.
Leads(class, id, e) ==
    \A d : Settled(d) /\ e \in There(d, class) =>
             RecordGetFromId(d, class, id) = RecordGetNext(d, class, e)

\* Instance properties p are made of resource r, which is read in database d.
MadeOf(d, class, r, p) ==
    /\ Settled(d) /\ Named(r) \in AllEntries(d, class)
    /\ r \in RecordGetNext(d, class, Named(r)) /\ p \in SetProperties(d, class, r)
    /\ KeyProperty(class) \in DOMAIN p

-----------------------------------------------------------------------------
(* The path of each instance leads back to what it was made of             *)

\* Disks and drives, whatever machine has them.
LEMMA DiskLeads ==
  ASSUME NEW d, NEW class \in DiskClasses, NEW r, NEW p, MadeOf(d, class, r, p)
  PROVE  Leads(class, p[KeyProperty(class)], Named(r))
<1>1. /\ r \in DiskNext(d, class, Named(r)) /\ p \in DiskProperties(d, class, r)
      /\ KeyProperty(class) = DiskKey(class) /\ Settled(d)
  BY DiskClassesServed DEF MadeOf
<1>2. r.obj \in DOMAIN d.vbd /\ r.rec = d.vbd[r.obj]
  BY <1>1 DEF DiskNext, ReadAs, Read, Resource, Named, Entry
<1>3. r.obj \in Plain /\ r.rec.vm \in Name
  BY <1>1, <1>2, PlainNames, TablesAssumption DEF Settled, Plain
<1>4. p[DiskKey(class)] = NewDeviceInstanceID(r.rec.vm, r.obj)
  <2>1. CASE class \in {"Xen_Disk", "Xen_DiskDrive"}
    <3>1. p = DiskDevice(r.rec.vm, r.obj)
      BY <1>1, <2>1, Zenon DEF DiskProperties
    <3>. QED  BY <2>1, <3>1 DEF DiskKey, DiskDevice
  <2>2. CASE class = "Xen_DiskSettingData"
    <3>1. p = DiskSettingData(r.rec.vm, r.obj)
      BY <1>1, <2>2, Zenon DEF DiskProperties
    <3>. QED  BY <2>2, <3>1 DEF DiskKey, DiskSettingData
  <2>3. CASE class \notin {"Xen_Disk", "Xen_DiskDrive", "Xen_DiskSettingData"}
    <3>1. p = DiskMetric(r.rec.vm, r.obj)
      BY <1>1, <2>3, Zenon DEF DiskProperties
    <3>. QED  BY <2>3, <3>1 DEF DiskKey, DiskMetric
  <2>. QED  BY <2>1, <2>2, <2>3
<1>5. DeviceNameFromID(p[DiskKey(class)]) = r.obj
  BY <1>3, <1>4, Taken
<1>6. ASSUME NEW b
      PROVE  DiskFind(b, class, p[DiskKey(class)]) = DiskNext(b, class, Named(r))
  BY <1>5 DEF DiskFind, DiskNext, Named, Entry
<1>7. ASSUME NEW b
      PROVE  RecordGetFromId(b, class, p[DiskKey(class)]) = RecordGetNext(b, class, Named(r))
  BY <1>6, DiskClassesServed
<1>. QED  BY <1>1, <1>7 DEF Leads

\* Memory states: by the machine and the image it was suspended to.
LEMMA MemoryStateLeads ==
  ASSUME NEW d, NEW class \in MemoryStateClasses, NEW r, NEW p, MadeOf(d, class, r, p)
  PROVE  Leads(class, p[KeyProperty(class)], Named(r))
<1>1. /\ r \in MemoryStateNext(d, Named(r)) /\ p \in MemoryStateProperties(d, r)
      /\ KeyProperty(class) = "DeviceID" /\ Settled(d) /\ ListEnum(d, class) = {}
      /\ WalkRefs(d, class) = DOMAIN d.vm
      /\ \A x, ok : ListWalk(d, class, x, ok) = MemoryStateWalk(d, x)
  BY MemoryStateClassesServed DEF MadeOf, MemoryStateKey
<1>2. r.obj \in DOMAIN d.vdi /\ r.of \in DOMAIN d.vm
  <2>1. r.obj \in DOMAIN d.vdi
    BY <1>1 DEF MemoryStateNext, ReadAs, Read, Resource, Named, Entry
  <2>2. PICK v \in DOMAIN d.vm : Named(r) \in MemoryStateWalk(d, v)
    BY <1>1 DEF MadeOf, AllEntries
  <2>3. r.of = v
    BY <2>2 DEF MemoryStateWalk, Named, Entry
  <2>. QED  BY <2>1, <2>3
<1>3. r.obj \in Plain /\ r.of \in Name
  BY <1>1, <1>2, PlainNames DEF Settled, Plain
<1> DEFINE id == p["DeviceID"]
<1>4. id = NewDeviceInstanceID(r.of, r.obj)
  BY <1>1, <1>2 DEF MemoryStateProperties
<1> HIDE DEF id
<1>5. DeviceNameFromID(id) = r.obj /\ SystemNameFromID(id) = r.of
  BY <1>3, <1>4, Taken
<1>6. ASSUME NEW b, Settled(b), Named(r) \in There(b, class)
      PROVE  MemoryStateFind(b, id) = MemoryStateNext(b, Named(r))
  <2>1. class \in WalkingClasses /\ class \notin Truncated /\ WalkRefs(b, class) = DOMAIN b.vm
    BY MemoryStateClassesServed
       DEF Truncated, MemoryStateClasses, ProcessorClasses, KVPClasses
  <2>2. Origin(class, Named(r)) \in DOMAIN b.vm
    BY <1>6, <2>1, OriginListed
  <2>3. Origin(class, Named(r)) = r.of
    BY DEF Origin, Named, Entry, MemoryStateClasses, HostNetworkPortClasses, HostNetworkMetrics
  <2>4. {r.of} \cap DOMAIN b.vm = {r.of}
    BY <2>2, <2>3
  <2>5. MemoryStateFind(b, id) = UNION {ReadAs(b.vdi, r.obj, v, Fitting) : v \in {r.of}}
    BY <1>5, <2>4 DEF MemoryStateFind
  <2>6. MemoryStateNext(b, Named(r)) = ReadAs(b.vdi, r.obj, r.of, Fitting)
    BY DEF MemoryStateNext, Named, Entry
  <2>. QED  BY <2>5, <2>6
<1>7. ASSUME NEW b, Settled(b), Named(r) \in There(b, class)
      PROVE  RecordGetFromId(b, class, id) = RecordGetNext(b, class, Named(r))
  <2>1. RecordGetFromId(b, class, id) = MemoryStateFind(b, id)
    BY MemoryStateClassesServed
  <2>2. RecordGetNext(b, class, Named(r)) = MemoryStateNext(b, Named(r))
    BY MemoryStateClassesServed
  <2>. QED  BY <1>6, <1>7, <2>1, <2>2
<1>. QED  BY <1>1, <1>7 DEF Leads, id

\* Processors: by the machine and the number.
LEMMA ProcessorLeads ==
  ASSUME NEW d, NEW class \in ProcessorClasses, NEW r, NEW p, MadeOf(d, class, r, p)
  PROVE  Leads(class, p[KeyProperty(class)], Named(r))
<1>1. /\ r \in ProcessorNext(d, Named(r)) /\ p \in ProcessorProperties(d, r)
      /\ KeyProperty(class) = "DeviceID" /\ Settled(d) /\ ListEnum(d, class) = {}
      /\ WalkRefs(d, class) = DOMAIN d.vm
      /\ \A x, ok : ListWalk(d, class, x, ok) = ProcessorWalk(d, x)
  BY ProcessorClassesServed DEF MadeOf, ProcessorKey
<1>2. r.obj \in DOMAIN d.vm /\ r.of \in VcpuNames(MaxVcpus)
  <2>1. PICK v \in DOMAIN d.vm : Named(r) \in ProcessorWalk(d, v)
    BY <1>1 DEF MadeOf, AllEntries
  <2>2. r.obj = v /\ r.of \in VcpuNames(d.vm[v].vcpus)
    BY <2>1 DEF ProcessorWalk, Named, Entry
  <2>3. d.vm[v].vcpus \in 0..MaxVcpus
    BY <1>1 DEF Settled, VmRecord
  <2>4. VcpuNames(d.vm[v].vcpus) \subseteq VcpuNames(MaxVcpus)
    <3>1. 0..(d.vm[v].vcpus - 1) \subseteq 0..(MaxVcpus - 1)
      BY <2>3 DEF MaxVcpus
    <3>. QED  BY <3>1 DEF VcpuNames
  <2>. QED  BY <2>2, <2>4
<1>3. r.of \in Plain /\ r.obj \in Name
  BY <1>1, <1>2, PlainNames DEF Settled, Plain
<1> DEFINE id == p["DeviceID"]
<1>4. id = NewDeviceInstanceID(r.obj, r.of)
  BY <1>1 DEF ProcessorProperties
<1> HIDE DEF id
<1>5. DeviceNameFromID(id) = r.of /\ SystemNameFromID(id) = r.obj
  BY <1>3, <1>4, Taken
<1>6. VcpuNames(MaxVcpus) \cap {r.of} = {r.of}
  BY <1>2
<1>7. ASSUME NEW b PROVE ProcessorFind(b, id) = ProcessorNext(b, Named(r))
  <2>1. ProcessorFind(b, id) = {Resource(r.obj, n, NoProperties) : n \in {r.of}}
    BY <1>5, <1>6 DEF ProcessorFind
  <2>2. ProcessorNext(b, Named(r)) = {Resource(r.obj, r.of, NoProperties)}
    BY DEF ProcessorNext, Named, Entry
  <2>. QED  BY <2>1, <2>2
<1>8. ASSUME NEW b PROVE RecordGetFromId(b, class, id) = RecordGetNext(b, class, Named(r))
  <2>1. RecordGetFromId(b, class, id) = ProcessorFind(b, id)
    BY ProcessorClassesServed
  <2>2. RecordGetNext(b, class, Named(r)) = ProcessorNext(b, Named(r))
    BY ProcessorClassesServed
  <2>. QED  BY <1>7, <2>1, <2>2
<1>. QED  BY <1>1, <1>8 DEF Leads, id

\* Key-value pairs without a slash in the key.
LEMMA KVPLeads ==
  ASSUME NEW d, NEW class \in KVPClasses, NEW r, NEW p, MadeOf(d, class, r, p), ~Has(r.of, Slash)
  PROVE  Leads(class, p[KeyProperty(class)], Named(r))
<1>1. /\ p \in KVPProperties(r)
      /\ KeyProperty(class) = "DeviceID" /\ Settled(d) /\ ListEnum(d, class) = {}
      /\ WalkRefs(d, class) = DOMAIN d.vm
      /\ \A x, ok : ListWalk(d, class, x, ok) = KVPWalk(d, x, ok)
  BY KVPClassesServed DEF MadeOf, KVPKey
<1>2. r.obj \in DOMAIN d.vm /\ r.of \in Keys
  <2>1. PICK v \in DOMAIN d.vm : Named(r) \in KVPWalk(d, v, TRUE)
    BY <1>1 DEF MadeOf, AllEntries
  <2>2. r.obj = v /\ r.of \in d.vm[v].keys
    BY <2>1 DEF KVPWalk, Named, Entry
  <2>3. d.vm[v].keys \subseteq Keys
    BY <1>1 DEF Settled, VmRecord
  <2>. QED  BY <2>2, <2>3
<1>3. r.of \in Plain /\ r.obj \in Name
  BY <1>1, <1>2, PlainNames, NamesAssumption DEF Settled, Plain
<1> DEFINE id == p["DeviceID"]
<1>4. id = NewDeviceInstanceID(r.obj, r.of)
  BY <1>1 DEF KVPProperties
<1> HIDE DEF id
<1>5. DeviceNameFromID(id) = r.of /\ SystemNameFromID(id) = r.obj
  BY <1>3, <1>4, Taken
<1>6. ASSUME NEW b, Settled(b), Named(r) \in There(b, class)
      PROVE  KVPFind(b, id) = KVPNext(b, Named(r))
  <2>1. /\ ListEnum(b, class) = {} /\ class \in Served
        /\ \A x, ok : ListWalk(b, class, x, ok) = KVPWalk(b, x, ok)
    BY KVPClassesServed
  <2>2. Named(r) \in AllEntries(b, class)
    BY <1>6, <2>1, ThereReads
  <2>3. PICK v : Named(r) \in KVPWalk(b, v, TRUE)
    BY <2>1, <2>2 DEF AllEntries
  <2>4. /\ r.obj \in DOMAIN b.vm /\ b.vm[r.obj].host \in b.host /\ r.of \in b.vm[r.obj].keys
    BY <2>3 DEF KVPWalk, Named, Entry
  <2>5. {u \in {r.obj} \cap DOMAIN b.vm :
           b.vm[u].host \in b.host /\ r.of \in b.vm[u].keys} = {r.obj}
    BY <2>4
  <2>6. KVPFind(b, id) = {Resource(r.obj, r.of, NoProperties) : u \in {r.obj}}
    BY <1>5, <2>5 DEF KVPFind
  <2>7. KVPNext(b, Named(r)) = {Resource(r.obj, r.of, NoProperties)}
    BY DEF KVPNext, Named, Entry
  <2>. QED  BY <2>6, <2>7
<1>7. ASSUME NEW b, Settled(b), Named(r) \in There(b, class)
      PROVE  RecordGetFromId(b, class, id) = RecordGetNext(b, class, Named(r))
  <2>1. RecordGetFromId(b, class, id) = KVPFind(b, id)
    BY KVPClassesServed
  <2>2. RecordGetNext(b, class, Named(r)) = KVPNext(b, Named(r))
    BY KVPClassesServed
  <2>. QED  BY <1>6, <1>7, <2>1, <2>2
<1>. QED  BY <1>1, <1>7 DEF Leads, id

\* The words in identifiers are such names.
LEMMA WordsPlain ==
  ASSUME NEW w \in Words
  PROVE  <<w>> \in Plain /\ <<w>> \in Name
<1>1. w \in Token
  BY DEF Token
<1>2. w # Slash
  BY DEF Words, Slash
<1>3. <<w>> \in Name
  BY <1>1 DEF Name
<1>4. DOMAIN <<w>> = {1} /\ <<w>>[1] = w
  OBVIOUS
<1>. QED  BY <1>2, <1>3, <1>4 DEF Plain, Has

\* Network ports, whatever machine or switch has them; endpoints go by their plain name.
LEMMA NetworkPortLeads ==
  ASSUME NEW d, NEW class \in NetworkPortClasses, NEW r, NEW p, MadeOf(d, class, r, p)
  PROVE  Leads(class, p[KeyProperty(class)], Named(r))
<1> DEFINE id == p[NetworkPortKey(class)]
<1>1. /\ r \in NetworkPortNext(d, Named(r)) /\ p \in NetworkPortProperties(d, class, r)
      /\ KeyProperty(class) = NetworkPortKey(class) /\ Settled(d)
      /\ NetworkPortKey(class) \in DOMAIN p
  BY NetworkPortClassesServed DEF MadeOf
<1>2. r.obj \in DOMAIN d.vif /\ r.rec = d.vif[r.obj]
  BY <1>1 DEF NetworkPortNext, ReadAs, Read, Resource, Named, Entry
<1>3. r.obj \in Plain /\ r.rec.vm \in Name /\ r.rec.net \in Name /\ r.rec.net \in d.net
  BY <1>1, <1>2, PlainNames, TablesAssumption DEF Settled, Plain
<1>4. CASE class \in LANEndpoints
  <2>1. class \notin {"Xen_NetworkPort", "Xen_VirtualSwitchPort"}
    BY <1>4 DEF LANEndpoints
  <2>2. NetworkPortKey(class) = "Name"
    BY <1>4, <2>1, Zenon DEF NetworkPortKey
  <2>8. p = LANEndpoint(d, class, r)
    BY <1>1, <1>4, <2>1, Zenon DEF NetworkPortProperties, LANEndpoints, NetworkMetrics
  <2>3. id = r.obj
    BY <2>2, <2>8 DEF LANEndpoint
  <2> HIDE DEF id
  <2>4. ASSUME NEW b PROVE NetworkPortFind(b, class, id) = NetworkPortNext(b, Named(r))
    BY <1>4, <2>3 DEF NetworkPortFind, NetworkPortNext, Named, Entry, PlainName
  <2>5. ASSUME NEW b PROVE RecordGetFromId(b, class, id) = RecordGetNext(b, class, Named(r))
    <3>1. RecordGetFromId(b, class, id) = NetworkPortFind(b, class, id)
      BY NetworkPortClassesServed
    <3>2. RecordGetNext(b, class, Named(r)) = NetworkPortNext(b, Named(r))
      BY NetworkPortClassesServed
    <3>. QED  BY <2>4, <3>1, <3>2
  <2>. QED  BY <1>1, <2>5 DEF Leads, id
<1>5. CASE class \notin LANEndpoints
  <2>0. /\ <<"NoHost">> \in Name /\ "DeviceID" \notin DOMAIN NoProperties
        /\ "InstanceID" \notin DOMAIN NoProperties
    BY WordsPlain DEF NoProperties, Words
  <2>1. \E s \in Name : id = NewDeviceInstanceID(s, r.obj)
    <3>1. CASE class \in {"Xen_NetworkPort", "Xen_VirtualSwitchPort"}
      <4>0. NetworkPortKey(class) = "DeviceID"
        BY <3>1, Zenon DEF NetworkPortKey, LANEndpoints
      <4>1. NetworkPortKey(class) = "DeviceID" /\ p = PortDevice(d, class, r)
        BY <1>1, <3>1, <4>0, Zenon DEF NetworkPortProperties, LANEndpoints, NetworkMetrics
      <4>2. r.rec.vm \in DOMAIN d.vm
        <5>1. SUFFICES ASSUME r.rec.vm \notin DOMAIN d.vm PROVE FALSE
          OBVIOUS
        <5>2. p = NoProperties
          BY <4>1, <5>1, Zenon DEF PortDevice
        <5>. QED  BY <1>1, <2>0, <4>1, <5>2
      <4>3. CASE class = "Xen_NetworkPort"
        <5>1. p = [DeviceID |-> NewDeviceInstanceID(r.rec.vm, r.obj), SystemName |-> r.rec.vm]
          BY <4>1, <4>2, <4>3, Zenon DEF PortDevice
        <5>. QED  BY <1>3, <4>1, <5>1
      <4>4. CASE class = "Xen_VirtualSwitchPort"
        <5>1. p = [DeviceID |-> NewDeviceInstanceID(r.rec.net, r.obj), SystemName |-> r.rec.net]
          BY <1>3, <4>1, <4>2, <4>4, Zenon DEF PortDevice
        <5>. QED  BY <1>3, <4>1, <5>1
      <4>. QED  BY <3>1, <4>3, <4>4
    <3>2. CASE class \notin {"Xen_NetworkPort", "Xen_VirtualSwitchPort"}
      <4>1. NetworkPortKey(class) = "InstanceID"
        BY <1>5, <3>2, Zenon DEF NetworkPortKey
      <4>2. CASE class \in NetworkMetrics
        <5>1. p = NetworkMetric(d, r)
          BY <1>1, <1>5, <3>2, <4>2, Zenon DEF NetworkPortProperties
        <5>. QED  BY <1>3, <2>0, <4>1, <5>1 DEF NetworkMetric
      <4>3. CASE class \notin NetworkMetrics
        <5>1. p = NetworkPortSettingData(d, r)
          BY <1>1, <1>5, <3>2, <4>3, Zenon DEF NetworkPortProperties
        <5>. QED  BY <1>1, <1>3, <2>0, <4>1, <5>1 DEF NetworkPortSettingData
      <4>. QED  BY <4>2, <4>3
    <3>. QED  BY <3>1, <3>2
  <2> HIDE DEF id
  <2>2. DeviceNameFromID(id) = r.obj
    BY <1>3, <2>1, Taken
  <2>3. ASSUME NEW b PROVE NetworkPortFind(b, class, id) = NetworkPortNext(b, Named(r))
    BY <1>5, <2>2 DEF NetworkPortFind, NetworkPortNext, Named, Entry
  <2>4. ASSUME NEW b PROVE RecordGetFromId(b, class, id) = RecordGetNext(b, class, Named(r))
    <3>1. RecordGetFromId(b, class, id) = NetworkPortFind(b, class, id)
      BY NetworkPortClassesServed
    <3>2. RecordGetNext(b, class, Named(r)) = NetworkPortNext(b, Named(r))
      BY NetworkPortClassesServed
    <3>. QED  BY <2>3, <3>1, <3>2
  <2>. QED  BY <1>1, <2>4 DEF Leads, id
<1>. QED  BY <1>4, <1>5

\* Consoles.
LEMMA ConsoleLeads ==
  ASSUME NEW d, NEW class \in ConsoleClasses, NEW r, NEW p, MadeOf(d, class, r, p)
  PROVE  Leads(class, p[KeyProperty(class)], Named(r))
<1> DEFINE id == p[ConsoleKey(class)]
<1>1. /\ r \in ConsoleNext(d, Named(r)) /\ p \in ConsoleProperties(d, class, r)
      /\ KeyProperty(class) = ConsoleKey(class) /\ Settled(d)
  BY ConsoleClassesServed DEF MadeOf
<1>2. r.obj \in DOMAIN d.con /\ r.rec = d.con[r.obj]
  BY <1>1 DEF ConsoleNext, ReadAs, Read, Resource, Named, Entry
<1>3. r.obj \in Plain /\ r.rec.vm \in Name /\ <<"NoHost">> \in Name
  BY <1>1, <1>2, PlainNames, TablesAssumption, WordsPlain DEF Settled, Plain, Words
<1>4. \E s \in Name : id = NewDeviceInstanceID(s, r.obj)
  BY <1>1, <1>3 DEF ConsoleProperties, ConsoleKey, ConsoleSettingData
<1> HIDE DEF id
<1>5. DeviceNameFromID(id) = r.obj
  BY <1>3, <1>4, Taken
<1>6. ASSUME NEW b PROVE RecordGetFromId(b, class, id) = RecordGetNext(b, class, Named(r))
  <2>1. RecordGetFromId(b, class, id) = ConsoleFind(b, id)
    BY ConsoleClassesServed
  <2>2. RecordGetNext(b, class, Named(r)) = ConsoleNext(b, Named(r))
    BY ConsoleClassesServed
  <2>. QED  BY <1>5, <2>1, <2>2 DEF ConsoleFind, ConsoleNext, Named, Entry
<1>. QED  BY <1>1, <1>6 DEF Leads, id

\* Machines and what belongs to each one of them: looked up among all of them, it is the
\* one that was listed.
LEMMA ComputerSystemLeads ==
  ASSUME NEW d, NEW class \in ComputerSystemClasses, NEW r, NEW p, MadeOf(d, class, r, p)
  PROVE  Leads(class, p[KeyProperty(class)], Named(r))
<1> DEFINE id == p[ComputerSystemKey(class)]
<1>1. /\ r \in ComputerSystemNext(d, class, Named(r)) /\ p \in ComputerSystemProperties(d, class, r)
      /\ KeyProperty(class) = ComputerSystemKey(class) /\ Settled(d)
  BY ComputerSystemClassesServed DEF MadeOf
<1>2. r.obj \in DOMAIN d.vm
  BY <1>1 DEF ComputerSystemNext, ReadAs, Read, Resource, Named, Entry
<1>3. r.obj \in Plain /\ r.obj \in Name
  BY <1>1, <1>2, PlainNames DEF Settled, Plain
<1>4. class = "Xen_ComputerSystem" => id = r.obj
  <2>1. SUFFICES ASSUME class = "Xen_ComputerSystem" PROVE id = r.obj
    OBVIOUS
  <2>2. ComputerSystemKey(class) = "Name" /\ p = ComputerSystem(d, r)
    BY <1>1, <2>1, Zenon DEF ComputerSystemKey, ComputerSystemProperties, SystemSettings
  <2>. QED  BY <2>2 DEF ComputerSystem
<1>5. class # "Xen_ComputerSystem" => SystemNameFromID(id) = r.obj
  <2>1. SUFFICES ASSUME class # "Xen_ComputerSystem" PROVE SystemNameFromID(id) = r.obj
    OBVIOUS
  <2>2. <<"Memory">> \in Plain /\ <<"Processor">> \in Plain
    BY WordsPlain DEF Words
  <2>3. CASE class = "Xen_ComputerSystemCapabilities"
    <3>1. ComputerSystemKey(class) = "InstanceID" /\ p = ComputerSystemCapabilities(r)
      BY <1>1, <2>3, Zenon DEF ComputerSystemKey, ComputerSystemProperties, SystemSettings
    <3>2. id = NewSystemInstanceID(r.obj)
      BY <3>1 DEF ComputerSystemCapabilities
    <3>. QED  BY <1>3, <3>2, Taken
  <2>4. CASE class \in SystemSettings
    <3>1. ComputerSystemKey(class) = "InstanceID" /\ p = VirtualSystemSettingData(r)
      BY <1>1, <2>4, Zenon DEF ComputerSystemKey, ComputerSystemProperties, SystemSettings
    <3>2. id = NewSystemInstanceID(r.obj)
      BY <3>1 DEF VirtualSystemSettingData
    <3>. QED  BY <1>3, <3>2, Taken
  <2>5. CASE class = "Xen_Memory"
    <3>1. ComputerSystemKey(class) = "DeviceID" /\ p = Memory(r)
      BY <1>1, <2>5, Zenon DEF ComputerSystemKey, ComputerSystemProperties, SystemSettings
    <3>2. id = NewDeviceInstanceID(r.obj, <<"Memory">>)
      BY <3>1 DEF Memory
    <3>. QED  BY <1>3, <2>2, <3>2, Taken
  <2>6. CASE class = "Xen_MemorySettingData"
    <3>1. ComputerSystemKey(class) = "InstanceID" /\ p = MemorySettingData(r)
      BY <1>1, <2>6, Zenon DEF ComputerSystemKey, ComputerSystemProperties, SystemSettings
    <3>2. id = NewDeviceInstanceID(r.obj, <<"Memory">>)
      BY <3>1 DEF MemorySettingData
    <3>. QED  BY <1>3, <2>2, <3>2, Taken
  <2>7. CASE class = "Xen_ProcessorSettingData"
    <3>1. ComputerSystemKey(class) = "InstanceID" /\ p = ProcessorSettingData(r)
      BY <1>1, <2>7, Zenon DEF ComputerSystemKey, ComputerSystemProperties, SystemSettings
    <3>2. id = NewDeviceInstanceID(r.obj, <<"Processor">>)
      BY <3>1 DEF ProcessorSettingData
    <3>. QED  BY <1>3, <2>2, <3>2, Taken
  <2>. QED  BY <2>1, <2>3, <2>4, <2>5, <2>6, <2>7 DEF ComputerSystemClasses, MachineSettings
<1> HIDE DEF id
<1>6. ASSUME NEW b, Settled(b), Named(r) \in There(b, class)
      PROVE  RecordGetFromId(b, class, id) = RecordGetNext(b, class, Named(r))
  <2>1. RecordGetFromId(b, class, id) = ComputerSystemFind(b, class, id)
    BY ComputerSystemClassesServed
  <2>2. RecordGetNext(b, class, Named(r)) = ComputerSystemNext(b, class, Named(r))
    BY ComputerSystemClassesServed
  <2>3. ComputerSystemFind(b, class, id) = ReadAs(b.vm, r.obj, NoPart, Fitting)
    BY <1>4, <1>5 DEF ComputerSystemFind, PlainName
  <2>4. RecordGetNext(b, class, Named(r)) # {}
    BY <1>6, ThereReads, ComputerSystemClassesServed
  <2>5. ComputerSystemNext(b, class, Named(r)) = ReadAs(b.vm, r.obj, NoPart, Fitting)
    BY <2>2, <2>4 DEF ComputerSystemNext, ReadAs, Read, Fitting, Named, Entry
  <2>. QED  BY <2>1, <2>2, <2>3, <2>5
<1>. QED  BY <1>1, <1>6 DEF Leads, id

\* Hosts and what belongs to each one of them.
LEMMA HostLeads ==
  ASSUME NEW d, NEW class \in HostClasses, NEW r, NEW p, MadeOf(d, class, r, p)
  PROVE  Leads(class, p[KeyProperty(class)], Named(r))
<1> DEFINE id == p[HostKey(class)]
<1>1. /\ r \in HostNext(d, Named(r)) /\ p \in HostProperties(class, r)
      /\ KeyProperty(class) = HostKey(class) /\ Settled(d)
  BY HostClassesServed DEF MadeOf
<1>2. r.obj \in d.host
  BY <1>1 DEF HostNext, ReadName, Resource, Named, Entry
<1>3. r.obj \in Plain /\ r.obj \in Name
  BY <1>1, <1>2, PlainNames DEF Settled, Plain
<1>4. class = "Xen_HostComputerSystem" => id = r.obj
  <2>1. SUFFICES ASSUME class = "Xen_HostComputerSystem" PROVE id = r.obj
    OBVIOUS
  <2>2. HostKey(class) = "Name" /\ p = HostSystem(r.obj)
    BY <1>1, <2>1, Zenon DEF HostKey, HostProperties
  <2>. QED  BY <2>2 DEF HostSystem
<1>5. class # "Xen_HostComputerSystem" => SystemNameFromID(id) = r.obj
  <2>1. SUFFICES ASSUME class # "Xen_HostComputerSystem" PROVE SystemNameFromID(id) = r.obj
    OBVIOUS
  <2>2. \A w \in Words : <<w>> \in Plain
    BY WordsPlain
  <2>3. CASE class = "Xen_HostMemory"
    <3>1. HostKey(class) = "DeviceID" /\ p = HostMemory(r.obj)
      BY <1>1, <2>3, Zenon DEF HostKey, HostProperties
    <3>2. id = NewDeviceInstanceID(r.obj, <<"Memory">>)
      BY <3>1 DEF HostMemory
    <3>. QED  BY <1>3, <2>2, <3>2, Taken DEF Words
  <2>4. CASE class = "Xen_ProcessorPool"
    <3>1. HostKey(class) = "InstanceID" /\ p = ProcessorPool(r.obj)
      BY <1>1, <2>4, Zenon DEF HostKey, HostProperties
    <3>2. id = NewDeviceInstanceID(r.obj, <<"ProcessorPool">>)
      BY <3>1 DEF ProcessorPool
    <3>. QED  BY <1>3, <2>2, <3>2, Taken DEF Words
  <2>5. CASE class = "Xen_ProcessorAllocationCapabilities"
    <3>1. HostKey(class) = "InstanceID" /\ p = ProcessorAllocationCapabilities(r.obj)
      BY <1>1, <2>5, Zenon DEF HostKey, HostProperties
    <3>2. id = NewDeviceInstanceID(r.obj, <<"ProcessorAllocationCapabilities">>)
      BY <3>1 DEF ProcessorAllocationCapabilities
    <3>. QED  BY <1>3, <2>2, <3>2, Taken DEF Words
  <2>6. CASE class = "Xen_HostComputerSystemCapabilities"
    <3>1. HostKey(class) = "InstanceID" /\ p = HostCapabilities(r.obj)
      BY <1>1, <2>6, Zenon DEF HostKey, HostProperties
    <3>2. id = NewSystemInstanceID(r.obj)
      BY <3>1 DEF HostCapabilities
    <3>. QED  BY <1>3, <3>2, Taken
  <2>7. CASE class \notin {"Xen_HostMemory", "Xen_ProcessorPool",
                           "Xen_ProcessorAllocationCapabilities",
                           "Xen_HostComputerSystemCapabilities"}
    <3>1. HostKey(class) = "InstanceID" /\ p = MemoryPool(r.obj)
      BY <1>1, <2>1, <2>7, Zenon DEF HostKey, HostProperties
    <3>2. id = NewDeviceInstanceID(r.obj, <<"MemoryPool">>)
      BY <3>1 DEF MemoryPool
    <3>. QED  BY <1>3, <2>2, <3>2, Taken DEF Words
  <2>. QED  BY <2>3, <2>4, <2>5, <2>6, <2>7
<1> HIDE DEF id
<1>6. ASSUME NEW b PROVE RecordGetFromId(b, class, id) = RecordGetNext(b, class, Named(r))
  <2>1. RecordGetFromId(b, class, id) = HostFind(b, class, id)
    BY HostClassesServed
  <2>2. RecordGetNext(b, class, Named(r)) = HostNext(b, Named(r))
    BY HostClassesServed
  <2>3. HostFind(b, class, id) = ReadName(b.host, r.obj)
    BY <1>4, <1>5 DEF HostFind, PlainName
  <2>4. HostNext(b, Named(r)) = ReadName(b.host, r.obj)
    BY DEF HostNext, Named, Entry
  <2>. QED  BY <2>1, <2>2, <2>3, <2>4
<1>. QED  BY <1>1, <1>6 DEF Leads, id

\* Processors of hosts: what the instance says of a host that has gone is no path.
LEMMA HostProcessorLeads ==
  ASSUME NEW d, NEW class \in HostProcessorClasses, NEW r, NEW p, MadeOf(d, class, r, p)
  PROVE  Leads(class, p[KeyProperty(class)], Named(r))
<1> DEFINE id == p["DeviceID"]
<1>1. /\ r \in HostProcessorNext(d, Named(r)) /\ p \in HostProcessorProperties(d, r)
      /\ KeyProperty(class) = "DeviceID" /\ Settled(d) /\ "DeviceID" \in DOMAIN p
  BY HostProcessorClassesServed DEF MadeOf, HostProcessorKey
<1>2. r.obj \in DOMAIN d.cpu /\ r.rec = d.cpu[r.obj]
  BY <1>1 DEF HostProcessorNext, ReadAs, Read, Resource, Named, Entry
<1>3. r.obj \in Plain /\ r.rec.host \in Name
  BY <1>1, <1>2, PlainNames, TablesAssumption DEF Settled, Plain
<1>4. id = NewDeviceInstanceID(r.rec.host, r.obj)
  BY <1>1 DEF HostProcessorProperties, OfHost, Crash
<1> HIDE DEF id
<1>5. DeviceNameFromID(id) = r.obj
  BY <1>3, <1>4, Taken
<1>6. ASSUME NEW b PROVE RecordGetFromId(b, class, id) = RecordGetNext(b, class, Named(r))
  <2>1. RecordGetFromId(b, class, id) = HostProcessorFind(b, id)
    BY HostProcessorClassesServed
  <2>2. RecordGetNext(b, class, Named(r)) = HostProcessorNext(b, Named(r))
    BY HostProcessorClassesServed
  <2>. QED  BY <1>5, <2>1, <2>2 DEF HostProcessorFind, HostProcessorNext, Named, Entry
<1>. QED  BY <1>1, <1>6 DEF Leads, id

\* Network ports of hosts.
LEMMA HostNetworkPortLeads ==
  ASSUME NEW d, NEW class \in HostNetworkPortClasses, NEW r, NEW p, MadeOf(d, class, r, p)
  PROVE  Leads(class, p[KeyProperty(class)], Named(r))
<1> DEFINE id == p[HostNetworkPortKey(class)]
<1>1. /\ r \in HostNetworkPortNext(d, Named(r)) /\ p \in HostNetworkPortProperties(d, class, r)
      /\ KeyProperty(class) = HostNetworkPortKey(class) /\ Settled(d)
      /\ HostNetworkPortKey(class) \in DOMAIN p
  BY HostNetworkPortClassesServed DEF MadeOf
<1>2. r.obj \in DOMAIN d.pif /\ r.rec = d.pif[r.obj]
  BY <1>1 DEF HostNetworkPortNext, ReadAs, Read, Resource, Named, Entry
<1>3. r.obj \in Plain /\ r.rec.host \in Name /\ <<"NoHost">> \in Name
  <2>1. r.rec.host \in Pool.host
    BY <1>1, <1>2 DEF Settled, PifRecord
  <2>. QED  BY <1>1, <1>2, <2>1, PlainNames, WordsPlain DEF Settled, Plain, Words
<1>4. \E s \in Name : id = NewDeviceInstanceID(s, r.obj)
  <2>0. HostName(d, r.rec.host) \in Name
    BY <1>3 DEF HostName
  <2>1. CASE class = "Xen_HostNetworkPort"
    <3>1. HostNetworkPortKey(class) = "DeviceID" /\ p = HostPort(d, r)
      BY <1>1, <2>1, Zenon DEF HostNetworkPortKey, HostNetworkPortProperties
    <3>. QED  BY <2>0, <3>1 DEF HostPort
  <2>2. CASE class = "Xen_HostNetworkPortSettingData"
    <3>1. HostNetworkPortKey(class) = "InstanceID" /\ p = HostPortSettingData(d, r)
      BY <1>1, <2>2, Zenon DEF HostNetworkPortKey, HostNetworkPortProperties
    <3>. QED  BY <2>0, <3>1 DEF HostPortSettingData
  <2>3. CASE class \notin {"Xen_HostNetworkPort", "Xen_HostNetworkPortSettingData"}
    <3>1. HostNetworkPortKey(class) = "InstanceID" /\ p = HostPortMetric(d, r)
      BY <1>1, <2>3, Zenon DEF HostNetworkPortKey, HostNetworkPortProperties
    <3>. QED  BY <1>1, <1>3, <3>1 DEF HostPortMetric, NoProperties
  <2>. QED  BY <2>1, <2>2, <2>3
<1> HIDE DEF id
<1>5. DeviceNameFromID(id) = r.obj
  BY <1>3, <1>4, Taken
<1>6. ASSUME NEW b PROVE RecordGetFromId(b, class, id) = RecordGetNext(b, class, Named(r))
  <2>1. RecordGetFromId(b, class, id) = HostNetworkPortFind(b, id)
    BY HostNetworkPortClassesServed
  <2>2. RecordGetNext(b, class, Named(r)) = HostNetworkPortNext(b, Named(r))
    BY HostNetworkPortClassesServed
  <2>. QED  BY <1>5, <2>1, <2>2 DEF HostNetworkPortFind, HostNetworkPortNext, Named, Entry
<1>. QED  BY <1>1, <1>6 DEF Leads, id

\* Networks: a pool of connections is looked up by the part after the host that its
\* identifier was made with, which may be another one by then.
LEMMA VirtualSwitchLeads ==
  ASSUME NEW d, NEW class \in VirtualSwitchClasses, NEW r, NEW p, MadeOf(d, class, r, p)
  PROVE  Leads(class, p[KeyProperty(class)], Named(r))
<1> DEFINE id == p[VirtualSwitchKey(class)]
<1>1. /\ r \in VirtualSwitchNext(d, Named(r)) /\ p \in VirtualSwitchProperties(d, class, r)
      /\ KeyProperty(class) = VirtualSwitchKey(class) /\ Settled(d)
      /\ VirtualSwitchKey(class) \in DOMAIN p
  BY VirtualSwitchClassesServed DEF MadeOf
<1>2. r.obj \in d.net
  BY <1>1 DEF VirtualSwitchNext, ReadNetwork, Resource, Named, Entry
<1>3. r.obj \in Plain /\ r.obj \in Name /\ \A w \in Words : <<w>> \in Plain /\ <<w>> \in Name
  BY <1>1, <1>2, PlainNames, WordsPlain DEF Settled, Plain
<1> DEFINE Known(b) == VirtualSwitchFind(b, class, id) = ReadNetwork(b, r.obj)
<1>4. ASSUME NEW b PROVE Known(b)
  <2>1. CASE class = "Xen_VirtualSwitch"
    <3>1. VirtualSwitchKey(class) = "Name" /\ p = VirtualSwitch(r.obj)
      BY <1>1, <2>1, Zenon DEF VirtualSwitchKey, VirtualSwitchProperties
    <3>2. id = r.obj
      BY <3>1 DEF VirtualSwitch
    <3>. QED  BY <2>1, <3>2, Zenon DEF VirtualSwitchFind, PlainName
  <2>2. CASE class = "Xen_NetworkConnectionPool"
    <3>1. VirtualSwitchKey(class) = "InstanceID" /\ p = NetworkConnectionPool(d, r)
      BY <1>1, <2>2, Zenon DEF VirtualSwitchKey, VirtualSwitchProperties
    <3>2. \E s \in Name : id = NewDeviceInstanceID(s, r.obj)
      <4> DEFINE first == CHOOSE o \in r.rec.pifs : TRUE
                 NamedAs(host) == [InstanceID |-> NewDeviceInstanceID(host, r.obj)]
      <4>1. \A s : "InstanceID" \in DOMAIN NamedAs(s)
                   /\ NamedAs(s).InstanceID = NewDeviceInstanceID(s, r.obj)
        OBVIOUS
      <4>2. p = IF r.rec.pifs = {} \/ first \notin DOMAIN d.pif
                  THEN NamedAs(<<"NoHost">>)
                  ELSE OfHost(d, d.pif[first].host, NamedAs(d.pif[first].host))
        BY <3>1 DEF NetworkConnectionPool
      <4>3. first \in DOMAIN d.pif => d.pif[first].host \in Name
        <5>1. first \in DOMAIN d.pif => d.pif[first].host \in Pool.host
          BY <1>1 DEF Settled, PifRecord
        <5>. QED  BY <5>1, PlainNames DEF Plain
      <4> HIDE DEF first, NamedAs
      <4>. QED  BY <1>1, <1>3, <3>1, <4>1, <4>2, <4>3 DEF OfHost, Crash, Words
    <3> HIDE DEF id
    <3>3. DeviceNameFromID(id) = r.obj
      BY <1>3, <3>2, Taken
    <3>. QED  BY <2>2, <3>3, Zenon DEF VirtualSwitchFind
  <2>3. CASE class = "Xen_VirtualSwitchSettingData"
    <3>1. VirtualSwitchKey(class) = "InstanceID" /\ p = VirtualSwitchSettingData(r.obj)
      BY <1>1, <2>3, Zenon DEF VirtualSwitchKey, VirtualSwitchProperties
    <3>2. id = NewSystemInstanceID(r.obj)
      BY <3>1 DEF VirtualSwitchSettingData
    <3>3. SystemNameFromID(id) = r.obj
      BY <1>3, <3>2, Taken
    <3>. QED  BY <2>3, <3>3, Zenon DEF VirtualSwitchFind
  <2>4. CASE class = "Xen_NetworkConnectionAllocationCapabilities"
    <3>1. VirtualSwitchKey(class) = "InstanceID" /\ p = ConnectionAllocationCapabilities(r.obj)
      BY <1>1, <2>4, Zenon DEF VirtualSwitchKey, VirtualSwitchProperties
    <3>2. id = NewDeviceInstanceID(r.obj, <<"NetworkConnectionAllocationCapabilities">>)
      BY <3>1 DEF ConnectionAllocationCapabilities
    <3>3. SystemNameFromID(id) = r.obj
      BY <1>3, <3>2, Taken DEF Words
    <3>. QED  BY <2>4, <3>3, Zenon DEF VirtualSwitchFind
  <2>. QED  BY <2>1, <2>2, <2>3, <2>4 DEF VirtualSwitchClasses
<1> HIDE DEF id
<1>5. ASSUME NEW b PROVE RecordGetFromId(b, class, id) = RecordGetNext(b, class, Named(r))
  <2>1. RecordGetFromId(b, class, id) = VirtualSwitchFind(b, class, id)
    BY VirtualSwitchClassesServed
  <2>2. RecordGetNext(b, class, Named(r)) = VirtualSwitchNext(b, Named(r))
    BY VirtualSwitchClassesServed
  <2>3. VirtualSwitchNext(b, Named(r)) = ReadNetwork(b, r.obj)
    BY DEF VirtualSwitchNext, Named, Entry
  <2>. QED  BY <1>4, <2>1, <2>2, <2>3
<1>. QED  BY <1>1, <1>5 DEF Leads, id

\* Storage repositories: a pool is looked up by the part after the host, or "Shared".
LEMMA StoragePoolLeads ==
  ASSUME NEW d, NEW class \in StoragePoolClasses, NEW r, NEW p, MadeOf(d, class, r, p)
  PROVE  Leads(class, p[KeyProperty(class)], Named(r))
<1> DEFINE id == p["InstanceID"]
<1>1. /\ r \in StoragePoolNext(d, Named(r)) /\ p \in StoragePoolProperties(d, class, r)
      /\ KeyProperty(class) = "InstanceID" /\ Settled(d) /\ "InstanceID" \in DOMAIN p
  BY StoragePoolClassesServed DEF MadeOf, StoragePoolKey
<1>2. r.obj \in DOMAIN d.sr /\ r.rec = d.sr[r.obj]
  BY <1>1 DEF StoragePoolNext, ReadAs, Read, Resource, Named, Entry
<1>3. /\ r.obj \in Plain /\ r.obj \in Name /\ \A w \in Words : <<w>> \in Plain /\ <<w>> \in Name
      /\ r.rec.hosts \subseteq Pool.host
  <2>1. r.obj \in DOMAIN Pool.sr /\ r.rec \in SrRecord
    BY <1>1, <1>2 DEF Settled
  <2>2. r.rec.hosts \subseteq Pool.host
    BY <2>1 DEF SrRecord
  <2>. QED  BY <2>1, <2>2, PlainNames, WordsPlain DEF Plain
<1> DEFINE Known(b) == StoragePoolFind(b, class, id) = ReadAs(b.sr, r.obj, NoPart, Fitting)
<1>4. ASSUME NEW b PROVE Known(b)
  <2>1. CASE class = "Xen_StoragePool"
    <3>1. p = StoragePool(d, r)
      BY <1>1, <2>1 DEF StoragePoolProperties
    <3>2. \E s \in Name : id = NewDeviceInstanceID(s, r.obj)
      <4> DEFINE host == StoragePoolHost(r)
                 NamedAs == [InstanceID |-> NewDeviceInstanceID(host, r.obj)]
      <4>1. NamedAs.InstanceID = NewDeviceInstanceID(host, r.obj)
        OBVIOUS
      <4>2. p = IF host = <<"Shared">> THEN NamedAs
                ELSE IF r.obj \in DOMAIN d.sr /\ host \in d.sr[r.obj].hosts
                       THEN OfHost(d, host, NamedAs)
                       ELSE [InstanceID |-> <<"garbage">>]
        BY <3>1 DEF StoragePool
      <4>3. host = <<"Shared">> \/ host \in r.rec.hosts
        <5>1. Cardinality(r.rec.hosts) = 1 => r.rec.hosts # {}
          BY FS_EmptySet
        <5>. QED  BY <5>1 DEF StoragePoolHost
      <4>4. host \in Name
        <5>1. CASE host = <<"Shared">>
          BY <1>3, <5>1 DEF Words
        <5>2. CASE host \in r.rec.hosts
          BY <1>3, <5>2, PlainNames DEF Plain
        <5>. QED  BY <4>3, <5>1, <5>2
      <4> HIDE DEF host, NamedAs
      <4>5. p = NamedAs
        BY <1>1, <1>2, <4>2, <4>3 DEF OfHost, Crash
      <4>. QED  BY <4>1, <4>4, <4>5
    <3> HIDE DEF id
    <3>3. DeviceNameFromID(id) = r.obj
      BY <1>3, <3>2, Taken
    <3>. QED  BY <2>1, <3>3 DEF StoragePoolFind
  <2>2. CASE class # "Xen_StoragePool"
    <3>1. p = StorageAllocationCapabilities(r)
      BY <1>1, <2>2 DEF StoragePoolProperties
    <3>2. id = NewDeviceInstanceID(r.obj, <<"StorageAllocationCapabilities">>)
      BY <3>1 DEF StorageAllocationCapabilities
    <3>3. SystemNameFromID(id) = r.obj
      BY <1>3, <3>2, Taken DEF Words
    <3> HIDE DEF id
    <3>. QED  BY <2>2, <3>3 DEF StoragePoolFind
  <2>. QED  BY <2>1, <2>2
<1> HIDE DEF id
<1>5. ASSUME NEW b PROVE RecordGetFromId(b, class, id) = RecordGetNext(b, class, Named(r))
  <2>1. RecordGetFromId(b, class, id) = StoragePoolFind(b, class, id)
    BY StoragePoolClassesServed
  <2>2. RecordGetNext(b, class, Named(r)) = StoragePoolNext(b, Named(r))
    BY StoragePoolClassesServed
  <2>3. StoragePoolNext(b, Named(r)) = ReadAs(b.sr, r.obj, NoPart, Fitting)
    BY DEF StoragePoolNext, Named, Entry
  <2>. QED  BY <1>4, <2>1, <2>2, <2>3
<1>. QED  BY <1>1, <1>5 DEF Leads, id

\* Disk images.
LEMMA DiskImageLeads ==
  ASSUME NEW d, NEW class \in DiskImageClasses, NEW r, NEW p, MadeOf(d, class, r, p)
  PROVE  Leads(class, p[KeyProperty(class)], Named(r))
<1> DEFINE id == p["DeviceID"]
<1>1. /\ r \in DiskImageNext(d, Named(r)) /\ p \in DiskImageProperties(d, r)
      /\ KeyProperty(class) = "DeviceID" /\ Settled(d)
  BY DiskImageClassesServed DEF MadeOf, DiskImageKey
<1>2. r.obj \in DOMAIN d.vdi /\ r.rec.sr \in DOMAIN d.sr
  BY <1>1 DEF DiskImageNext, DiskImageProperties, ReadAs, Read, Resource, Named, Entry
<1>3. r.obj \in Plain /\ r.rec.sr \in Name
  BY <1>1, <1>2, PlainNames DEF Settled, Plain
<1>4. id = NewDeviceInstanceID(r.rec.sr, r.obj)
  BY <1>1 DEF DiskImageProperties
<1> HIDE DEF id
<1>5. DeviceNameFromID(id) = r.obj
  BY <1>3, <1>4, Taken
<1>6. ASSUME NEW b PROVE RecordGetFromId(b, class, id) = RecordGetNext(b, class, Named(r))
  <2>1. RecordGetFromId(b, class, id) = DiskImageFind(b, id)
    BY DiskImageClassesServed
  <2>2. RecordGetNext(b, class, Named(r)) = DiskImageNext(b, Named(r))
    BY DiskImageClassesServed
  <2>. QED  BY <1>5, <2>1, <2>2 DEF DiskImageFind, DiskImageNext, Named, Entry
<1>. QED  BY <1>1, <1>6 DEF Leads, id

\* Pools of hosts.
LEMMA HostPoolLeads ==
  ASSUME NEW d, NEW class \in HostPoolClasses, NEW r, NEW p, MadeOf(d, class, r, p)
  PROVE  Leads(class, p[KeyProperty(class)], Named(r))
<1> DEFINE id == p["InstanceID"]
<1>1. /\ r \in HostPoolNext(d, Named(r)) /\ p \in HostPoolProperties(r)
      /\ KeyProperty(class) = "InstanceID" /\ Settled(d)
  BY HostPoolClassesServed DEF MadeOf, HostPoolKey
<1>2. r.obj \in Plain
  BY <1>1, PlainNames DEF HostPoolNext, ReadName, Resource, Named, Entry, Settled
<1>3. id = NewSystemInstanceID(r.obj)
  BY <1>1 DEF HostPoolProperties
<1> HIDE DEF id
<1>4. SystemNameFromID(id) = r.obj
  BY <1>2, <1>3, Taken DEF Plain
<1>5. ASSUME NEW b PROVE RecordGetFromId(b, class, id) = RecordGetNext(b, class, Named(r))
  <2>1. RecordGetFromId(b, class, id) = HostPoolFind(b, id)
    BY HostPoolClassesServed
  <2>2. RecordGetNext(b, class, Named(r)) = HostPoolNext(b, Named(r))
    BY HostPoolClassesServed
  <2>. QED  BY <1>4, <2>1, <2>2 DEF HostPoolFind, HostPoolNext, Named, Entry
<1>. QED  BY <1>1, <1>5 DEF Leads, id

\* The classes of which an instance may have a path that is not found again.
Misnamed == {"Xen_StorageCapabilitiesSettingData", "Xen_NetworkConnectionCapabilitiesSettingData"}

\* Settings of capabilities, but for those that are looked up by the whole identifier.
LEMMA CapabilitiesLeads ==
  ASSUME NEW d, NEW class \in CapabilitiesSettings, class \notin Misnamed,
         NEW r, NEW p, MadeOf(d, class, r, p)
  PROVE  Leads(class, p[KeyProperty(class)], Named(r))
<1> DEFINE id == p["InstanceID"]
<1>1. /\ r \in CapabilitiesNext(d, class, Named(r)) /\ p \in CapabilitiesProperties(r)
      /\ KeyProperty(class) = "InstanceID" /\ Settled(d)
      /\ Named(r) \in CapabilitiesList(d, class)
  <2>1. Named(r) \in ListEnum(d, class)
    <3>1. \A x, ok : ListWalk(d, class, x, ok) = {}
      BY CapabilitiesSettingsServed
    <3>. QED  BY <3>1 DEF MadeOf, AllEntries
  <2>. QED  BY <2>1, CapabilitiesSettingsServed DEF MadeOf, CapabilitiesKey
<1>2. r.obj \in d.host /\ r.of \in SettingNames(class)
  <2>1. SettingOwners(d, class) = d.host
    <3>1. class \in {"Xen_MemoryCapabilitiesSettingData", "Xen_ProcessorCapabilitiesSettingData"}
      BY DEF CapabilitiesSettings, Misnamed
    <3>. QED  BY <3>1, Zenon DEF SettingOwners
  <2>2. PICK o \in d.host, n \in SettingNames(class) : Named(r) = Entry(o, n)
    BY <1>1, <2>1 DEF CapabilitiesList
  <2>. QED  BY <2>2 DEF Named, Entry
<1>3. r.of \in Plain /\ r.obj \in Name
  BY <1>1, <1>2, PlainNames DEF Settled, Plain
<1>4. id = NewDeviceInstanceID(r.obj, r.of)
  BY <1>1 DEF CapabilitiesProperties
<1> HIDE DEF id
<1>5. DeviceNameFromID(id) = r.of /\ SystemNameFromID(id) = r.obj
  BY <1>3, <1>4, Taken
<1>6. ASSUME NEW b PROVE CapabilitiesFind(b, class, id) = CapabilitiesNext(b, class, Named(r))
  <2> DEFINE S == {r.obj} \cap SettingOwners(b, class)
  <2>1. OwnerName(class, id) = r.obj
    BY <1>5 DEF OwnerName, Misnamed
  <2>2. {r.of} \cap SettingNames(class) = {r.of}
    BY <1>2
  <2>3. CapabilitiesFind(b, class, id) = {Resource(o, n, NoProperties) : o \in S, n \in {r.of}}
    BY <1>5, <2>1, <2>2 DEF CapabilitiesFind
  <2>4. CapabilitiesNext(b, class, Named(r)) = {Resource(o, r.of, NoProperties) : o \in S}
    BY DEF CapabilitiesNext, Named, Entry
  <2> HIDE DEF S
  <2>5. {Resource(o, n, NoProperties) : o \in S, n \in {r.of}}
           = {Resource(o, r.of, NoProperties) : o \in S}
    OBVIOUS
  <2>. QED  BY <2>3, <2>4, <2>5
<1>7. ASSUME NEW b PROVE RecordGetFromId(b, class, id) = RecordGetNext(b, class, Named(r))
  <2>1. RecordGetFromId(b, class, id) = CapabilitiesFind(b, class, id)
    BY CapabilitiesSettingsServed
  <2>2. RecordGetNext(b, class, Named(r)) = CapabilitiesNext(b, class, Named(r))
    BY CapabilitiesSettingsServed
  <2>. QED  BY <1>6, <2>1, <2>2
<1>. QED  BY <1>1, <1>7 DEF Leads, id

\* Services and their capabilities: there is one of each class, whatever the path.
LEMMA ServiceLeads ==
  ASSUME NEW d, NEW class \in ServiceClasses \cup MetricServiceClasses, NEW r, NEW p,
         MadeOf(d, class, r, p)
  PROVE  Leads(class, p[KeyProperty(class)], Named(r))
<1>1. /\ ListEnum(d, class) = ServiceList /\ \A x, ok : ListWalk(d, class, x, ok) = {}
      /\ \A b, x : /\ RecordGetNext(b, class, x) = ServiceNext(x)
                   /\ RecordGetFromId(b, class, x) = ServiceFind(x)
  BY ServiceClassesServed, MetricServiceClassesServed
<1>2. Named(r) \in ServiceList
  BY <1>1 DEF MadeOf, AllEntries
<1>3. r.obj = <<"service">>
  BY <1>2 DEF ServiceList, Named, Entry
<1>4. \A x : ServiceFind(x) = ServiceNext(Named(r))
  BY <1>3 DEF ServiceFind, ServiceNext, Named, Entry
<1>. QED  BY <1>1, <1>4 DEF Leads

\* The capabilities of virtualization have different names.
LEMMA VirtualizationNames ==
  \A s, t \in ResourceTypes : VirtualizationName(s) = VirtualizationName(t) => s = t
<1> DEFINE W == {"Processor", "Memory", "Disk", "NetworkPort", "Xen_",
                 "VirtualizationCapability"}
<1>1. ASSUME NEW w \in W
      PROVE  VirtualizationName(<<w>>)[2] = w
  <2>1. <<"Xen_">> \in Seq(W) /\ <<w>> \in Seq(W) /\ <<"VirtualizationCapability">> \in Seq(W)
    OBVIOUS
  <2>2. /\ <<"Xen_">> \o <<w>> \in Seq(W) /\ Len(<<"Xen_">> \o <<w>>) = 2
        /\ (<<"Xen_">> \o <<w>>)[2] = w
    BY <2>1
  <2> HIDE DEF W
  <2>. QED  BY <2>1, <2>2, ConcatProperties DEF VirtualizationName
<1>2. \A t \in ResourceTypes : \E w \in W : t = <<w>>
  BY DEF ResourceTypes
<1> HIDE DEF W
<1>. QED  BY <1>1, <1>2

\* Capabilities of virtualization: by the whole identifier.
LEMMA VirtualizationLeads ==
  ASSUME NEW d, NEW class \in VirtualizationCapabilities, NEW r, NEW p, MadeOf(d, class, r, p)
  PROVE  Leads(class, p[KeyProperty(class)], Named(r))
<1>1. /\ ListEnum(d, class) = VirtualizationList /\ \A x, ok : ListWalk(d, class, x, ok) = {}
      /\ \A b, x : /\ RecordGetNext(b, class, x) = VirtualizationNext(x)
                   /\ RecordGetFromId(b, class, x) = VirtualizationFind(x)
      /\ KeyProperty(class) = "InstanceID" /\ p \in VirtualizationProperties(r)
  BY VirtualizationCapabilitiesServed DEF MadeOf, VirtualizationKey
<1>2. r.obj \in ResourceTypes
  BY <1>1 DEF MadeOf, AllEntries, VirtualizationList, Entries, Entry, Named
<1>3. p["InstanceID"] = VirtualizationName(r.obj)
  BY <1>1 DEF VirtualizationProperties
<1>4. {t \in ResourceTypes : VirtualizationName(t) = VirtualizationName(r.obj)} = {r.obj}
  BY <1>2, VirtualizationNames
<1>5. VirtualizationFind(VirtualizationName(r.obj)) = VirtualizationNext(Named(r))
  <2>1. VirtualizationFind(VirtualizationName(r.obj))
           = {Resource(t, NoPart, NoProperties) : t \in {r.obj}}
    BY <1>4 DEF VirtualizationFind
  <2>. QED  BY <2>1 DEF VirtualizationNext, Named, Entry
<1>. QED  BY <1>1, <1>3, <1>5 DEF Leads

\* So does the path of whatever is made in a settled pool, but for the two kinds of path
\* that Unfound names.
LEMMA MadeLeads ==
  ASSUME NEW d, NEW class \in Served, NEW r, NEW p, MadeOf(d, class, r, p),
         ~Unfound(Instance(class, r, p))
  PROVE  Leads(class, p[KeyProperty(class)], Named(r))
<1>1. class \in KVPClasses => ~Has(r.of, Slash)
  BY DEF Unfound, Instance
<1>2. class \notin Misnamed
  BY DEF Unfound, Instance, Misnamed
<1>. QED  BY <1>1, <1>2, DiskLeads, MemoryStateLeads, ProcessorLeads, NetworkPortLeads,
             ConsoleLeads, KVPLeads, ComputerSystemLeads, HostLeads, HostProcessorLeads,
             HostNetworkPortLeads, VirtualSwitchLeads, StoragePoolLeads, DiskImageLeads,
             HostPoolLeads, CapabilitiesLeads, ServiceLeads, VirtualizationLeads DEF Served

\* An instance of an enumeration and the resource that was read for it.
ReadFor(d, class, i, r) ==
    /\ Named(r) \in AllEntries(d, class) /\ r \in RecordGetNext(d, class, Named(r))
    /\ i.props \in SetProperties(d, class, r)
    /\ i.class = class /\ i.obj = r.obj /\ i.of = r.of

\* There is one for each instance.
LEMMA InstanceRead ==
  ASSUME NEW d, NEW class \in Served, NEW i \in EnumerateClass(d, class)
  PROVE  \E r : i = Instance(class, r, i.props) /\ ReadFor(d, class, i, r)
<1>1. PICK a \in AllEntries(d, class) :
         i \in UNION {{Instance(class, r, p) : p \in SetProperties(d, class, r)} :
                         r \in RecordGetNext(d, class, a)}
  BY DEF EnumerateClass
<1>2. PICK r \in RecordGetNext(d, class, a) :
         \E p \in SetProperties(d, class, r) : i = Instance(class, r, p)
  BY <1>1
<1>3. PICK p \in SetProperties(d, class, r) : i = Instance(class, r, p)
  BY <1>2
<1>4. Shaped(class, a)
  <2>1. CASE a \in ListEnum(d, class)
    BY <2>1, ListShaped
  <2>2. CASE a \notin ListEnum(d, class)
    <3>1. PICK o \in WalkRefs(d, class) : a \in ListWalk(d, class, o, TRUE)
      BY <2>2 DEF AllEntries
    <3>. QED  BY <3>1, ListShaped
  <2>. QED  BY <2>1, <2>2
<1>5. Named(r) = a
  BY <1>4, NextNames
<1>6. i.class = class /\ i.obj = r.obj /\ i.of = r.of /\ i.props = p
  BY <1>3 DEF Instance
<1>. QED  BY <1>3, <1>5, <1>6 DEF ReadFor

\* An instance with a path is made of what was read for its own entry.
LEMMA InstanceMade ==
  ASSUME NEW d, Settled(d), NEW class \in Served, NEW i \in EnumerateClass(d, class), HasPath(i)
  PROVE  \E r, p : i = Instance(class, r, p) /\ MadeOf(d, class, r, p) /\ Named(i) = Named(r)
<1>1. PICK r : i = Instance(class, r, i.props) /\ ReadFor(d, class, i, r)
  BY InstanceRead
<1>2. KeyProperty(class) \in DOMAIN i.props /\ Named(i) = Named(r)
  BY <1>1 DEF ReadFor, HasPath, Named
<1>3. MadeOf(d, class, r, i.props)
  BY <1>1, <1>2 DEF ReadFor, MadeOf
<1>. QED  BY <1>1, <1>2, <1>3

\* The path of an instance of an enumeration leads to its entry.
LEMMA PathLeads ==
  ASSUME NEW d, Settled(d), NEW class \in Served, NEW i \in EnumerateClass(d, class),
         HasPath(i), ~Unfound(i)
  PROVE  i.class = class /\ Leads(class, PathOf(i), Named(i))
<1>1. PICK r, p : i = Instance(class, r, p) /\ MadeOf(d, class, r, p) /\ Named(i) = Named(r)
  BY InstanceMade
<1>2. i.class = class /\ i.props = p
  BY <1>1 DEF Instance
<1>3. PathOf(i) = p[KeyProperty(class)]
  BY <1>2 DEF PathOf
<1>. QED  BY <1>1, <1>2, <1>3, MadeLeads

\* One resource is read for an entry.
LEMMA OneRead ==
  ASSUME NEW d, NEW class \in Served, NEW e,
         NEW x \in RecordGetNext(d, class, e), NEW y \in RecordGetNext(d, class, e)
  PROVE  x = y
<1>. USE DEF ReadAs, Read, ReadName, ReadNetwork
<1>1. CASE class \in DiskClasses
  <2>1. x \in DiskNext(d, class, e) /\ y \in DiskNext(d, class, e)
    BY <1>1, DiskClassesServed
  <2>. QED  BY <2>1 DEF DiskNext
<1>2. CASE class \in MemoryStateClasses
  <2>1. x \in MemoryStateNext(d, e) /\ y \in MemoryStateNext(d, e)
    BY <1>2, MemoryStateClassesServed
  <2>. QED  BY <2>1 DEF MemoryStateNext
<1>3. CASE class \in ProcessorClasses
  <2>1. x \in ProcessorNext(d, e) /\ y \in ProcessorNext(d, e)
    BY <1>3, ProcessorClassesServed
  <2>. QED  BY <2>1 DEF ProcessorNext
<1>4. CASE class \in NetworkPortClasses
  <2>1. x \in NetworkPortNext(d, e) /\ y \in NetworkPortNext(d, e)
    BY <1>4, NetworkPortClassesServed
  <2>. QED  BY <2>1 DEF NetworkPortNext
<1>5. CASE class \in ConsoleClasses
  <2>1. x \in ConsoleNext(d, e) /\ y \in ConsoleNext(d, e)
    BY <1>5, ConsoleClassesServed
  <2>. QED  BY <2>1 DEF ConsoleNext
<1>6. CASE class \in KVPClasses
  <2>1. x \in KVPNext(d, e) /\ y \in KVPNext(d, e)
    BY <1>6, KVPClassesServed
  <2>. QED  BY <2>1 DEF KVPNext
<1>7. CASE class \in ComputerSystemClasses
  <2>1. x \in ComputerSystemNext(d, class, e) /\ y \in ComputerSystemNext(d, class, e)
    BY <1>7, ComputerSystemClassesServed
  <2>. QED  BY <2>1 DEF ComputerSystemNext
<1>8. CASE class \in HostClasses
  <2>1. x \in HostNext(d, e) /\ y \in HostNext(d, e)
    BY <1>8, HostClassesServed
  <2>. QED  BY <2>1 DEF HostNext
<1>9. CASE class \in HostProcessorClasses
  <2>1. x \in HostProcessorNext(d, e) /\ y \in HostProcessorNext(d, e)
    BY <1>9, HostProcessorClassesServed
  <2>. QED  BY <2>1 DEF HostProcessorNext
<1>10. CASE class \in HostNetworkPortClasses
  <2>1. x \in HostNetworkPortNext(d, e) /\ y \in HostNetworkPortNext(d, e)
    BY <1>10, HostNetworkPortClassesServed
  <2>. QED  BY <2>1 DEF HostNetworkPortNext
<1>11. CASE class \in VirtualSwitchClasses
  <2>1. x \in VirtualSwitchNext(d, e) /\ y \in VirtualSwitchNext(d, e)
    BY <1>11, VirtualSwitchClassesServed
  <2>. QED  BY <2>1 DEF VirtualSwitchNext
<1>12. CASE class \in StoragePoolClasses
  <2>1. x \in StoragePoolNext(d, e) /\ y \in StoragePoolNext(d, e)
    BY <1>12, StoragePoolClassesServed
  <2>. QED  BY <2>1 DEF StoragePoolNext
<1>13. CASE class \in DiskImageClasses
  <2>1. x \in DiskImageNext(d, e) /\ y \in DiskImageNext(d, e)
    BY <1>13, DiskImageClassesServed
  <2>. QED  BY <2>1 DEF DiskImageNext
<1>14. CASE class \in HostPoolClasses
  <2>1. x \in HostPoolNext(d, e) /\ y \in HostPoolNext(d, e)
    BY <1>14, HostPoolClassesServed
  <2>. QED  BY <2>1 DEF HostPoolNext
<1>15. CASE class \in CapabilitiesSettings
  <2>1. x \in CapabilitiesNext(d, class, e) /\ y \in CapabilitiesNext(d, class, e)
    BY <1>15, CapabilitiesSettingsServed
  <2>. QED  BY <2>1 DEF CapabilitiesNext
<1>16. CASE class \in ServiceClasses
  <2>1. x \in ServiceNext(e) /\ y \in ServiceNext(e)
    BY <1>16, ServiceClassesServed
  <2>. QED  BY <2>1 DEF ServiceNext
<1>17. CASE class \in MetricServiceClasses
  <2>1. x \in ServiceNext(e) /\ y \in ServiceNext(e)
    BY <1>17, MetricServiceClassesServed
  <2>. QED  BY <2>1 DEF ServiceNext
<1>18. CASE class \in VirtualizationCapabilities
  <2>1. x \in VirtualizationNext(e) /\ y \in VirtualizationNext(e)
    BY <1>18, VirtualizationCapabilitiesServed
  <2>. QED  BY <2>1 DEF VirtualizationNext
<1>. QED  BY <1>1, <1>2, <1>3, <1>4, <1>5, <1>6, <1>7, <1>8, <1>9, <1>10, <1>11, <1>12, <1>13,
             <1>14, <1>15, <1>16, <1>17, <1>18 DEF Served

\* One instance is made of a resource.
LEMMA OneMade ==
  ASSUME NEW d, NEW class \in Served, NEW r,
         NEW x \in SetProperties(d, class, r), NEW y \in SetProperties(d, class, r)
  PROVE  x = y
<1>1. CASE class \in DiskClasses
  <2>1. x \in DiskProperties(d, class, r) /\ y \in DiskProperties(d, class, r)
    BY <1>1, DiskClassesServed
  <2>. QED  BY <2>1 DEF DiskProperties
<1>2. CASE class \in MemoryStateClasses
  <2>1. x \in MemoryStateProperties(d, r) /\ y \in MemoryStateProperties(d, r)
    BY <1>2, MemoryStateClassesServed
  <2>. QED  BY <2>1, Zenon DEF MemoryStateProperties
<1>3. CASE class \in ProcessorClasses
  <2>1. x \in ProcessorProperties(d, r) /\ y \in ProcessorProperties(d, r)
    BY <1>3, ProcessorClassesServed
  <2>. QED  BY <2>1 DEF ProcessorProperties
<1>4. CASE class \in NetworkPortClasses
  <2>1. x \in NetworkPortProperties(d, class, r) /\ y \in NetworkPortProperties(d, class, r)
    BY <1>4, NetworkPortClassesServed
  <2>. QED  BY <2>1, Zenon DEF NetworkPortProperties
<1>5. CASE class \in ConsoleClasses
  <2>1. x \in ConsoleProperties(d, class, r) /\ y \in ConsoleProperties(d, class, r)
    BY <1>5, ConsoleClassesServed
  <2>. QED  BY <2>1 DEF ConsoleProperties
<1>6. CASE class \in KVPClasses
  <2>1. x \in KVPProperties(r) /\ y \in KVPProperties(r)
    BY <1>6, KVPClassesServed
  <2>. QED  BY <2>1, Zenon DEF KVPProperties
<1>7. CASE class \in ComputerSystemClasses
  <2>1. x \in ComputerSystemProperties(d, class, r) /\ y \in ComputerSystemProperties(d, class, r)
    BY <1>7, ComputerSystemClassesServed
  <2>. QED  BY <2>1, Zenon DEF ComputerSystemProperties
<1>8. CASE class \in HostClasses
  <2>1. x \in HostProperties(class, r) /\ y \in HostProperties(class, r)
    BY <1>8, HostClassesServed
  <2>. QED  BY <2>1, Zenon DEF HostProperties
<1>9. CASE class \in HostProcessorClasses
  <2>1. x \in HostProcessorProperties(d, r) /\ y \in HostProcessorProperties(d, r)
    BY <1>9, HostProcessorClassesServed
  <2>. QED  BY <2>1, Zenon DEF HostProcessorProperties
<1>10. CASE class \in HostNetworkPortClasses
  <2>1. x \in HostNetworkPortProperties(d, class, r) /\ y \in HostNetworkPortProperties(d, class, r)
    BY <1>10, HostNetworkPortClassesServed
  <2>. QED  BY <2>1, Zenon DEF HostNetworkPortProperties
<1>11. CASE class \in VirtualSwitchClasses
  <2>1. x \in VirtualSwitchProperties(d, class, r) /\ y \in VirtualSwitchProperties(d, class, r)
    BY <1>11, VirtualSwitchClassesServed
  <2>. QED  BY <2>1, Zenon DEF VirtualSwitchProperties
<1>12. CASE class \in StoragePoolClasses
  <2>1. x \in StoragePoolProperties(d, class, r) /\ y \in StoragePoolProperties(d, class, r)
    BY <1>12, StoragePoolClassesServed
  <2>. QED  BY <2>1, Zenon DEF StoragePoolProperties
<1>13. CASE class \in DiskImageClasses
  <2>1. x \in DiskImageProperties(d, r) /\ y \in DiskImageProperties(d, r)
    BY <1>13, DiskImageClassesServed
  <2>. QED  BY <2>1 DEF DiskImageProperties
<1>14. CASE class \in HostPoolClasses
  <2>1. x \in HostPoolProperties(r) /\ y \in HostPoolProperties(r)
    BY <1>14, HostPoolClassesServed
  <2>. QED  BY <2>1, Zenon DEF HostPoolProperties
<1>15. CASE class \in CapabilitiesSettings
  <2>1. x \in CapabilitiesProperties(r) /\ y \in CapabilitiesProperties(r)
    BY <1>15, CapabilitiesSettingsServed
  <2>. QED  BY <2>1, Zenon DEF CapabilitiesProperties
<1>16. CASE class \in ServiceClasses
  <2>1. x \in ServiceProperties(d, class) /\ y \in ServiceProperties(d, class)
    BY <1>16, ServiceClassesServed
  <2>. QED  BY <2>1 DEF ServiceProperties
<1>17. CASE class \in MetricServiceClasses
  <2>1. x \in MetricServiceProperties /\ y \in MetricServiceProperties
    BY <1>17, MetricServiceClassesServed
  <2>. QED  BY <2>1, Zenon DEF MetricServiceProperties
<1>18. CASE class \in VirtualizationCapabilities
  <2>1. x \in VirtualizationProperties(r) /\ y \in VirtualizationProperties(r)
    BY <1>18, VirtualizationCapabilitiesServed
  <2>. QED  BY <2>1, Zenon DEF VirtualizationProperties
<1>. QED  BY <1>1, <1>2, <1>3, <1>4, <1>5, <1>6, <1>7, <1>8, <1>9, <1>10, <1>11, <1>12, <1>13,
             <1>14, <1>15, <1>16, <1>17, <1>18 DEF Served

\* FoundByPath: in every pool that changes of other clients lead to, the path of every instance
\* leads to that very instance, in every provider.
THEOREM OwnPathFinds == Spec => []FoundByPath
<1>1. ASSUME Settled(db), NEW class \in Served, NEW i \in EnumerateClass(db, class),
             HasPath(i), ~Unfound(i)
      PROVE  GetInstance(db, class, PathOf(i)) = {i}
  <2>1. PICK r, p : i = Instance(class, r, p) /\ MadeOf(db, class, r, p) /\ Named(i) = Named(r)
    BY <1>1, InstanceMade
  <2>2. Named(i) \in There(db, class)
    BY DEF There
  <2>3. RecordGetFromId(db, class, PathOf(i)) = RecordGetNext(db, class, Named(i))
    BY <1>1, <2>2, PathLeads DEF Leads
  <2>4. RecordGetNext(db, class, Named(i)) = {r}
    BY <2>1, OneRead DEF MadeOf
  <2>5. SetProperties(db, class, r) = {p}
    BY <2>1, OneMade DEF MadeOf
  <2>6. GetInstance(db, class, PathOf(i)) = UNION {{Instance(class, x, q) :
                          q \in SetProperties(db, class, x)} : x \in {r}}
    BY <2>3, <2>4 DEF GetInstance
  <2>7. GetInstance(db, class, PathOf(i)) = {Instance(class, r, q) : q \in {p}}
    BY <2>5, <2>6
  <2>. QED  BY <2>1, <2>7
<1>2. Viewing => FoundByPath
  BY <1>1 DEF Viewing, FoundByPath
<1>. QED  BY InitViewing, NextViewing, <1>2, PTL DEF Spec

-----------------------------------------------------------------------------
(* A path that is kept while the pool changes                              *)

\* The path that is kept leads to its object, whatever the database comes to.  While it is
\* looked up, what has been there throughout is that object at most; what was found is it,
\* and then it has been returned.
Answering ==
    /\ held # NothingHeld => /\ held.class \in Served
                             /\ ~Unfound(held) => Leads(held.class, PathOf(held), Named(held))
    /\ request.phase \in {"found", "answered"} =>
         /\ held # NothingHeld /\ request.class = held.class
         /\ steady \subseteq There(db, held.class) \cap {Named(held)}
    /\ request.phase = "found" /\ ~Unfound(held) /\ steady # {} =>
         Named(request.res) = Named(held) /\ Genuine(held.class, request.res)
    /\ request.phase = "answered" /\ ~Unfound(held) => steady \subseteq Returned

\* At the start there is no path.
LEMMA InitAnswering == Init => Answering
  BY DEF Init, Answering, Idle, NothingHeld

\* A change takes away what has been there, or leaves what was found as it is.
LEMMA ChangesAnswer ==
  ASSUME Viewing, Answering, OtherClients
  PROVE  Answering'
<1>1. /\ steady' = IF request = Idle THEN steady ELSE steady \cap There(db', request.class)
      /\ UNCHANGED <<request, result, held>>
  BY DEF OtherClients, DestroyVm, ConvertToTemplate, Stop, Suspend, Migrate, RemoveDevice,
         Reconnect, Bond, Eject, Collect, Change
<1>2. request.phase \in {"found", "answered"} => steady' = steady \cap There(db', request.class)
  BY <1>1 DEF Idle
<1>3. Returned' = Returned
  BY <1>1 DEF Returned
<1>. QED  BY <1>1, <1>2, <1>3 DEF Answering

\* The path of an instance that is returned now is one that leads to it.
LEMMA KeepAnswers ==
  ASSUME Viewing, Answering, NEW class \in PathClasses, Keep(class)
  PROVE  Answering'
<1>1. class \in Served /\ Settled(db)
  BY ClassAssumption DEF Viewing
<1>2. PICK i \in EnumerateClass(db, class) : HasPath(i) /\ held' = i
  BY DEF Keep
<1>3. request' = request /\ request.phase = "idle"
  BY DEF Keep, Idle
<1>4. i.class = class
  <2>1. PICK r, p : i = Instance(class, r, p)
    BY <1>1, <1>2, InstanceMade
  <2>. QED  BY <2>1 DEF Instance
<1>5. ~Unfound(i) => Leads(i.class, PathOf(i), Named(i))
  BY <1>1, <1>2, <1>4, PathLeads
<1>. QED  BY <1>1, <1>2, <1>3, <1>4, <1>5 DEF Answering

\* What is found by the path is the object, if that is there.
LEMMA GetAnswers ==
  ASSUME Viewing, Answering, Get
  PROVE  Answering'
<1> DEFINE class == held.class
           found == RecordGetFromId(db, class, PathOf(held))
<1>1. /\ held # NothingHeld /\ UNCHANGED <<db, result, held>> /\ class \in Served /\ Settled(db)
      /\ steady' = There(db, class) \cap {Named(held)}
  BY DEF Get, Answering, Viewing
<1>2. \/ found = {} /\ request' = Answered(class)
      \/ \E r \in found : request' = [phase |-> "found", class |-> class, res |-> r]
  BY DEF Get
<1>3. ASSUME ~Unfound(held), steady' # {}
      PROVE  /\ found # {}
             /\ \A r \in found : Named(r) = Named(held) /\ Genuine(class, r)
  <2>1. Named(held) \in There(db, class)
    BY <1>1, <1>3
  <2>2. found = RecordGetNext(db, class, Named(held))
    BY <1>1, <1>3, <2>1 DEF Answering, Leads
  <2>3. Shaped(class, Named(held)) /\ RecordGetNext(db, class, Named(held)) # {}
    BY <1>1, <2>1, ThereReads
  <2>. QED  BY <1>1, <2>2, <2>3, NextNames, NextGenuine
<1>4. Unfound(held)' = Unfound(held) /\ Named(held)' = Named(held) /\ PathOf(held)' = PathOf(held)
  BY <1>1
<1> HIDE DEF found
<1>5. CASE found = {} /\ request' = Answered(class)
  BY <1>1, <1>3, <1>5 DEF Answering, Answered
<1>6. CASE \E r \in found : request' = [phase |-> "found", class |-> class, res |-> r]
  <2>1. PICK r \in found : request' = [phase |-> "found", class |-> class, res |-> r]
    BY <1>6
  <2>. QED  BY <1>1, <1>3, <2>1 DEF Answering
<1>. QED  BY <1>2, <1>5, <1>6

\* What was found and is still there makes the instance that is returned.
LEMMA GetFillInAnswers ==
  ASSUME Viewing, Answering, GetFillIn
  PROVE  Answering'
<1> DEFINE class == held.class
           r == request.res
           made == SetProperties(db, class, r)
<1>1. /\ request.phase = "found" /\ UNCHANGED <<db, held, steady>>
      /\ held # NothingHeld /\ request.class = class /\ class \in Served /\ Settled(db)
      /\ steady \subseteq There(db, class) \cap {Named(held)}
      /\ ~Unfound(held) /\ steady # {} => Named(r) = Named(held) /\ Genuine(class, r)
  BY DEF GetFillIn, Answering, Viewing
<1>2. \/ request' = [phase |-> "dead", class |-> class]
      \/ /\ request' = Answered(class)
         /\ result' = {Instance(class, r, p) : p \in made}
  BY <1>1 DEF GetFillIn, Dies
<1>3. ~Unfound(held) /\ steady # {} => made # {}
  BY <1>1, StillMade
<1> HIDE DEF made
<1>4. CASE request' = [phase |-> "dead", class |-> class]
  BY <1>1, <1>4 DEF Answering
<1>5. CASE /\ request' = Answered(class)
           /\ result' = {Instance(class, r, p) : p \in made}
  <2>1. request'.phase = "answered" /\ request'.class = class
    BY <1>5 DEF Answered
  <2>2. made # {} => Named(r) \in Returned'
    <3>1. SUFFICES ASSUME NEW p \in made PROVE Named(r) \in Returned'
      OBVIOUS
    <3>2. Instance(class, r, p) \in result'
      BY <1>5
    <3>3. Named(Instance(class, r, p)) = Named(r)
      BY DEF Named, Instance
    <3>. QED  BY <3>2, <3>3 DEF Returned
  <2>3. ~Unfound(held) => steady \subseteq Returned'
    BY <1>1, <1>3, <2>2
  <2>. QED  BY <1>1, <2>1, <2>3 DEF Answering
<1>. QED  BY <1>2, <1>4, <1>5

\* The other steps look nothing up.
LEMMA OthersAnswer ==
  ASSUME Viewing, Answering,
         \/ \E class \in Classes : Begin(class)
         \/ WalkTurn \/ GetNext \/ FillIn \/ End \/ Restart \/ Received
  PROVE  Answering'
<1>1. held' = held /\ request'.phase \notin {"found", "answered"}
  <2>1. \A class, refs, list, ok :
          /\ Reading(class, list).phase \notin {"found", "answered"}
          /\ Walking(class, refs, list, ok).phase \notin {"found", "answered"}
          /\ \A r : Filling(class, list, r).phase \notin {"found", "answered"}
    BY DEF Reading, Walking, Filling
  <2>. HIDE DEF Reading, Walking, Filling
  <2>2. CASE \E class \in Classes : Begin(class)
    BY <2>1, <2>2 DEF Begin
  <2>3. CASE WalkTurn
    BY <2>1, <2>3 DEF WalkTurn
  <2>4. CASE GetNext
    BY <2>1, <2>4 DEF GetNext
  <2>5. CASE FillIn
    <3>1. /\ \/ request' = [phase |-> "dead", class |-> request.class]
             \/ request' = Reading(request.class, request.list)
          /\ held' = held
      BY <2>5 DEF FillIn, Dies
    <3>2. [phase |-> "dead", class |-> request.class].phase \notin {"found", "answered"}
      OBVIOUS
    <3>. QED  BY <2>1, <3>1, <3>2
  <2>6. CASE End \/ Restart \/ Received
    BY <2>6 DEF End, Restart, Received, Idle
  <2>. QED  BY <2>2, <2>3, <2>4, <2>5, <2>6
<1>. QED  BY <1>1 DEF Answering

\* Every step keeps what is said of the path.
LEMMA NextAnswering == Viewing /\ Answering /\ [Next]_vars => Answering'
<1>. SUFFICES ASSUME Viewing, Answering, [Next]_vars PROVE Answering'
  OBVIOUS
<1>1. CASE UNCHANGED vars
  BY <1>1 DEF vars, Answering, Returned
<1>2. CASE Next
  BY <1>2, ChangesAnswer, KeepAnswers, GetAnswers, GetFillInAnswers, OthersAnswer DEF Next
<1>. QED  BY <1>1, <1>2

\* PathOutlivesMoves: for any pool and any changes of other clients, a path that was handed
\* out finds its object later, as long as that is there, though it moved between machines,
\* hosts or states meanwhile.
THEOREM PathsLast == Spec => []PathOutlivesMoves
<1>1. Answering => PathOutlivesMoves
  BY DEF Answering, PathOutlivesMoves, Returned
<1>. QED  BY InitViewing, NextViewing, InitAnswering, NextAnswering, <1>1, PTL DEF Spec

-----------------------------------------------------------------------------
(* Types                                                                   *)

\* The objects of a settled pool are names of entries, and the parts are parts.
LEMMA Objects ==
  ASSUME NEW d, Settled(d)
  PROVE  /\ DOMAIN d.vm \subseteq Names /\ DOMAIN d.vbd \subseteq Names
         /\ DOMAIN d.vif \subseteq Names /\ DOMAIN d.con \subseteq Names
         /\ DOMAIN d.vdi \subseteq Names /\ DOMAIN d.sr \subseteq Names
         /\ DOMAIN d.pif \subseteq Uuids /\ DOMAIN d.cpu \subseteq Names
         /\ d.net \subseteq Names /\ d.host \subseteq Names /\ d.pool \subseteq Names
         /\ Uuids \subseteq Names /\ <<"service">> \in Names /\ ResourceTypes \subseteq Names
         /\ DOMAIN d.vm \subseteq Uuids /\ Uuids \subseteq Parts
         /\ NoPart \in Parts /\ Keys \subseteq Parts /\ VcpuNames(MaxVcpus) \subseteq Parts
         /\ \A c \in CapabilitiesSettings : SettingNames(c) \subseteq Parts
<1>1. /\ DOMAIN d.vm \subseteq DOMAIN Pool.vm /\ DOMAIN d.vbd \subseteq DOMAIN Pool.vbd
      /\ DOMAIN d.vif \subseteq DOMAIN Pool.vif /\ DOMAIN d.con \subseteq DOMAIN Pool.con
      /\ DOMAIN d.vdi = DOMAIN Pool.vdi /\ DOMAIN d.sr = DOMAIN Pool.sr
      /\ DOMAIN d.pif \subseteq DOMAIN Pool.pif /\ DOMAIN d.cpu \subseteq DOMAIN Pool.cpu
      /\ d.net = Pool.net /\ d.host \subseteq Pool.host /\ d.pool = Pool.pool
  BY DEF Settled
<1>2. \A S \in {DOMAIN Pool.vm, DOMAIN Pool.vbd, DOMAIN Pool.vif, DOMAIN Pool.con,
                DOMAIN Pool.vdi, DOMAIN Pool.sr, DOMAIN Pool.pif, DOMAIN Pool.cpu,
                Pool.net, Pool.host, Pool.pool} : S \subseteq Uuids
  BY DEF Uuids
<1>3. Uuids \subseteq Names /\ <<"service">> \in Names /\ ResourceTypes \subseteq Names
  BY DEF Names
<1>4. /\ NoPart \in Parts /\ Uuids \subseteq Parts /\ Keys \subseteq Parts
      /\ VcpuNames(MaxVcpus) \subseteq Parts
      /\ \A c \in CapabilitiesSettings : SettingNames(c) \subseteq Parts
  BY DEF Parts
<1> HIDE DEF Uuids
<1>. QED  BY <1>1, <1>2, <1>3, <1>4

\* What a list holds is an entry.
LEMMA ListTyped ==
  ASSUME NEW d, Settled(d), NEW class \in Served
  PROVE  ListEnum(d, class) \subseteq EntryType
<1>0. \A S \in SUBSET Names : Entries(S) \subseteq EntryType
  BY Objects DEF Entries, Entry, EntryType
<1>1. CASE class \in DiskClasses
  <2>1. ListEnum(d, class) = DiskList(d)
    BY <1>1, DiskClassesServed
  <2>. QED  BY <1>0, <2>1, Objects DEF DiskList
<1>2. CASE class \in NetworkPortClasses
  <2>1. ListEnum(d, class) = NetworkPortList(d)
    BY <1>2, NetworkPortClassesServed
  <2>. QED  BY <1>0, <2>1, Objects DEF NetworkPortList
<1>3. CASE class \in ConsoleClasses
  <2>1. ListEnum(d, class) = ConsoleList(d)
    BY <1>3, ConsoleClassesServed
  <2>. QED  BY <1>0, <2>1, Objects DEF ConsoleList
<1>4. CASE class \in ComputerSystemClasses
  <2>1. ListEnum(d, class) = ComputerSystemList(d)
    BY <1>4, ComputerSystemClassesServed
  <2>. QED  BY <1>0, <2>1, Objects DEF ComputerSystemList
<1>5. CASE class \in HostClasses
  <2>1. ListEnum(d, class) = HostList(d)
    BY <1>5, HostClassesServed
  <2>. QED  BY <1>0, <2>1, Objects DEF HostList
<1>6. CASE class \in HostProcessorClasses
  <2>1. ListEnum(d, class) = HostProcessorList(d)
    BY <1>6, HostProcessorClassesServed
  <2>. QED  BY <1>0, <2>1, Objects DEF HostProcessorList
<1>7. CASE class \in VirtualSwitchClasses
  <2>1. ListEnum(d, class) = VirtualSwitchList(d)
    BY <1>7, VirtualSwitchClassesServed
  <2>. QED  BY <1>0, <2>1, Objects DEF VirtualSwitchList
<1>8. CASE class \in StoragePoolClasses
  <2>1. ListEnum(d, class) = StoragePoolList(d)
    BY <1>8, StoragePoolClassesServed
  <2>. QED  BY <1>0, <2>1, Objects DEF StoragePoolList
<1>9. CASE class \in DiskImageClasses
  <2>1. ListEnum(d, class) = DiskImageList(d)
    BY <1>9, DiskImageClassesServed
  <2>. QED  BY <1>0, <2>1, Objects DEF DiskImageList
<1>10. CASE class \in HostPoolClasses
  <2>1. ListEnum(d, class) = HostPoolList(d)
    BY <1>10, HostPoolClassesServed
  <2>. QED  BY <1>0, <2>1, Objects DEF HostPoolList
<1>11. CASE class \in WalkingClasses
  BY <1>11, MemoryStateClassesServed, ProcessorClassesServed, KVPClassesServed,
     HostNetworkPortClassesServed DEF WalkingClasses
<1>12. CASE class \in CapabilitiesSettings
  <2>1. ListEnum(d, class) = CapabilitiesList(d, class)
    BY <1>12, CapabilitiesSettingsServed
  <2>2. SettingOwners(d, class) \in {d.host, DOMAIN d.sr, d.net}
    BY Zenon DEF SettingOwners
  <2>3. SettingOwners(d, class) \subseteq Names /\ SettingNames(class) \subseteq Parts
    BY <1>12, <2>2, Objects
  <2>. QED  BY <2>1, <2>3 DEF CapabilitiesList, Entry, EntryType
<1>13. CASE class \in ServiceClasses \cup MetricServiceClasses
  <2>1. ListEnum(d, class) = ServiceList
    BY <1>13, ServiceClassesServed, MetricServiceClassesServed
  <2>. QED  BY <2>1, Objects DEF ServiceList, Entry, EntryType
<1>14. CASE class \in VirtualizationCapabilities
  <2>1. ListEnum(d, class) = VirtualizationList
    BY <1>14, VirtualizationCapabilitiesServed
  <2>. QED  BY <1>0, <2>1, Objects DEF VirtualizationList
<1>. QED  BY <1>1, <1>2, <1>3, <1>4, <1>5, <1>6, <1>7, <1>8, <1>9, <1>10, <1>11, <1>12, <1>13,
             <1>14 DEF Served, WalkingClasses

\* So is what a turn of a loop adds.
LEMMA WalkTyped ==
  ASSUME NEW d, Settled(d), NEW class \in WalkingClasses, NEW o \in Uuids, NEW ok
  PROVE  ListWalk(d, class, o, ok) \subseteq EntryType
<1>1. CASE class \in MemoryStateClasses
  <2>1. ListWalk(d, class, o, ok) = MemoryStateWalk(d, o)
    BY <1>1, MemoryStateClassesServed
  <2>. QED  BY <2>1, Objects DEF MemoryStateWalk, Entry, EntryType
<1>2. CASE class \in ProcessorClasses
  <2>1. ListWalk(d, class, o, ok) = ProcessorWalk(d, o)
    BY <1>2, ProcessorClassesServed
  <2>2. o \in DOMAIN d.vm => VcpuNames(d.vm[o].vcpus) \subseteq VcpuNames(MaxVcpus)
    <3>1. o \in DOMAIN d.vm => d.vm[o].vcpus \in 0..MaxVcpus
      BY DEF Settled, VmRecord
    <3>2. o \in DOMAIN d.vm => 0..(d.vm[o].vcpus - 1) \subseteq 0..(MaxVcpus - 1)
      BY <3>1 DEF MaxVcpus
    <3>. QED  BY <3>2 DEF VcpuNames
  <2>. QED  BY <2>1, <2>2, Objects DEF ProcessorWalk, Entry, EntryType
<1>3. CASE class \in KVPClasses
  <2>1. ListWalk(d, class, o, ok) = KVPWalk(d, o, ok)
    BY <1>3, KVPClassesServed
  <2>2. o \in DOMAIN d.vm => d.vm[o].keys \subseteq Keys
    BY DEF Settled, VmRecord
  <2>. QED  BY <2>1, <2>2, Objects DEF KVPWalk, Entry, EntryType
<1>4. CASE class \in HostNetworkPortClasses
  <2>1. ListWalk(d, class, o, ok) = HostNetworkPortWalk(d, o)
    BY <1>4, HostNetworkPortClassesServed
  <2>. QED  BY <2>1, Objects DEF HostNetworkPortWalk, Entry, EntryType
<1>. QED  BY <1>1, <1>2, <1>3, <1>4 DEF WalkingClasses

\* So is what is there.
LEMMA ThereTyped ==
  ASSUME NEW d, Settled(d), NEW class \in Served
  PROVE  There(d, class) \subseteq EntryType
<1>1. SUFFICES ASSUME NEW e \in There(d, class) PROVE e \in EntryType
  OBVIOUS
<1>2. e \in AllEntries(d, class)
  BY ThereReads
<1>3. CASE e \in ListEnum(d, class)
  BY <1>3, ListTyped
<1>4. CASE e \notin ListEnum(d, class)
  <2>1. PICK o \in WalkRefs(d, class) : e \in ListWalk(d, class, o, TRUE)
    BY <1>2, <1>4 DEF AllEntries
  <2>2. o \in Uuids
    BY Objects DEF WalkRefs
  <2>3. class \in WalkingClasses
    BY <2>1 DEF WalkingClasses, ListWalk
  <2>. QED  BY <2>1, <2>2, <2>3, WalkTyped
<1>. QED  BY <1>3, <1>4

\* What is found by a path is a resource of the pool, but for a processor: its machine is
\* read only when its properties are.
LEMMA FindTyped ==
  ASSUME NEW d, Settled(d), NEW class \in Served, NEW id, NEW r \in RecordGetFromId(d, class, id)
  PROVE  \/ Named(r) \in EntryType
         \/ class \in ProcessorClasses /\ r.of \in VcpuNames(MaxVcpus)
<1>0. ASSUME r.obj \in Names, r.of \in Parts PROVE Named(r) \in EntryType
  BY <1>0 DEF Named, Entry, EntryType
<1>. USE DEF ReadAs, Read, ReadName, ReadNetwork, Resource
<1>1. CASE class \in DiskClasses
  <2>1. r \in DiskFind(d, class, id)
    BY <1>1, DiskClassesServed
  <2>2. r.obj \in Names /\ r.of \in Parts
    BY <2>1, Objects DEF DiskFind
  <2>4. Named(r) \in EntryType
    BY <1>0, <2>2
  <2>. QED  BY <2>4
<1>2. CASE class \in NetworkPortClasses
  <2>1. r \in NetworkPortFind(d, class, id)
    BY <1>2, NetworkPortClassesServed
  <2>2. r.obj \in Names /\ r.of \in Parts
    BY <2>1, Objects DEF NetworkPortFind
  <2>4. Named(r) \in EntryType
    BY <1>0, <2>2
  <2>. QED  BY <2>4
<1>3. CASE class \in ConsoleClasses
  <2>1. r \in ConsoleFind(d, id)
    BY <1>3, ConsoleClassesServed
  <2>2. r.obj \in Names /\ r.of \in Parts
    BY <2>1, Objects DEF ConsoleFind
  <2>4. Named(r) \in EntryType
    BY <1>0, <2>2
  <2>. QED  BY <2>4
<1>4. CASE class \in ComputerSystemClasses
  <2>1. r \in ComputerSystemFind(d, class, id)
    BY <1>4, ComputerSystemClassesServed
  <2>2. r.obj \in Names /\ r.of \in Parts
    BY <2>1, Objects DEF ComputerSystemFind
  <2>4. Named(r) \in EntryType
    BY <1>0, <2>2
  <2>. QED  BY <2>4
<1>5. CASE class \in HostClasses
  <2>1. r \in HostFind(d, class, id)
    BY <1>5, HostClassesServed
  <2>2. r.obj \in Names /\ r.of \in Parts
    BY <2>1, Objects DEF HostFind
  <2>4. Named(r) \in EntryType
    BY <1>0, <2>2
  <2>. QED  BY <2>4
<1>6. CASE class \in HostProcessorClasses
  <2>1. r \in HostProcessorFind(d, id)
    BY <1>6, HostProcessorClassesServed
  <2>2. r.obj \in Names /\ r.of \in Parts
    BY <2>1, Objects DEF HostProcessorFind
  <2>4. Named(r) \in EntryType
    BY <1>0, <2>2
  <2>. QED  BY <2>4
<1>7. CASE class \in VirtualSwitchClasses
  <2>1. r \in VirtualSwitchFind(d, class, id)
    BY <1>7, VirtualSwitchClassesServed
  <2>2. r.obj \in Names /\ r.of \in Parts
    BY <2>1, Objects DEF VirtualSwitchFind
  <2>4. Named(r) \in EntryType
    BY <1>0, <2>2
  <2>. QED  BY <2>4
<1>8. CASE class \in StoragePoolClasses
  <2>1. r \in StoragePoolFind(d, class, id)
    BY <1>8, StoragePoolClassesServed
  <2>2. r.obj \in Names /\ r.of \in Parts
    BY <2>1, Objects DEF StoragePoolFind
  <2>4. Named(r) \in EntryType
    BY <1>0, <2>2
  <2>. QED  BY <2>4
<1>9. CASE class \in DiskImageClasses
  <2>1. r \in DiskImageFind(d, id)
    BY <1>9, DiskImageClassesServed
  <2>2. r.obj \in Names /\ r.of \in Parts
    BY <2>1, Objects DEF DiskImageFind
  <2>4. Named(r) \in EntryType
    BY <1>0, <2>2
  <2>. QED  BY <2>4
<1>10. CASE class \in HostPoolClasses
  <2>1. r \in HostPoolFind(d, id)
    BY <1>10, HostPoolClassesServed
  <2>2. r.obj \in Names /\ r.of \in Parts
    BY <2>1, Objects DEF HostPoolFind
  <2>4. Named(r) \in EntryType
    BY <1>0, <2>2
  <2>. QED  BY <2>4
<1>11. CASE class \in MemoryStateClasses
  <2>1. r \in MemoryStateFind(d, id)
    BY <1>11, MemoryStateClassesServed
  <2>2. r.obj \in Names /\ r.of \in Parts
    BY <2>1, Objects DEF MemoryStateFind
  <2>4. Named(r) \in EntryType
    BY <1>0, <2>2
  <2>. QED  BY <2>4
<1>12. CASE class \in KVPClasses
  <2>1. r \in KVPFind(d, id)
    BY <1>12, KVPClassesServed
  <2>2. r.obj \in DOMAIN d.vm /\ r.of \in d.vm[r.obj].keys
    BY <2>1 DEF KVPFind
  <2>3. r.of \in Keys
    BY <2>2 DEF Settled, VmRecord
  <2>4. Named(r) \in EntryType
    BY <1>0, <2>2, <2>3, Objects
  <2>. QED  BY <2>4
<1>13. CASE class \in HostNetworkPortClasses
  <2>1. r \in HostNetworkPortFind(d, id)
    BY <1>13, HostNetworkPortClassesServed
  <2>2. r.obj \in Names /\ r.of \in Parts
    BY <2>1, Objects DEF HostNetworkPortFind
  <2>4. Named(r) \in EntryType
    BY <1>0, <2>2
  <2>. QED  BY <2>4
<1>14. CASE class \in CapabilitiesSettings
  <2>1. r \in CapabilitiesFind(d, class, id)
    BY <1>14, CapabilitiesSettingsServed
  <2>2. SettingOwners(d, class) \in {d.host, DOMAIN d.sr, d.net}
    BY Zenon DEF SettingOwners
  <2>3. r.obj \in SettingOwners(d, class) /\ r.of \in SettingNames(class)
    BY <2>1 DEF CapabilitiesFind
  <2>4. Named(r) \in EntryType
    BY <1>0, <1>14, <2>2, <2>3, Objects
  <2>. QED  BY <2>4
<1>15. CASE class \in ServiceClasses
  <2>1. r \in ServiceFind(id)
    BY <1>15, ServiceClassesServed
  <2>2. r.obj \in Names /\ r.of \in Parts
    BY <2>1, Objects DEF ServiceFind
  <2>4. Named(r) \in EntryType
    BY <1>0, <2>2
  <2>. QED  BY <2>4
<1>16. CASE class \in MetricServiceClasses
  <2>1. r \in ServiceFind(id)
    BY <1>16, MetricServiceClassesServed
  <2>2. r.obj \in Names /\ r.of \in Parts
    BY <2>1, Objects DEF ServiceFind
  <2>4. Named(r) \in EntryType
    BY <1>0, <2>2
  <2>. QED  BY <2>4
<1>17. CASE class \in VirtualizationCapabilities
  <2>1. r \in VirtualizationFind(id)
    BY <1>17, VirtualizationCapabilitiesServed
  <2>2. r.obj \in Names /\ r.of \in Parts
    BY <2>1, Objects DEF VirtualizationFind
  <2>4. Named(r) \in EntryType
    BY <1>0, <2>2
  <2>. QED  BY <2>4
<1>18. CASE class \in ProcessorClasses
  <2>1. r \in ProcessorFind(d, id)
    BY <1>18, ProcessorClassesServed
  <2>. QED  BY <1>18, <2>1 DEF ProcessorFind
<1>. QED  BY <1>1, <1>2, <1>3, <1>4, <1>5, <1>6, <1>7, <1>8, <1>9, <1>10, <1>11, <1>12, <1>13,
             <1>14, <1>15, <1>16, <1>17, <1>18 DEF Served

\* The types of what is asked for, read and returned; the references a loop has still to come
\* to are of objects of the pool.
Typing ==
    /\ events \in 0..MaxEvents
    /\ request.phase \in {"idle", "listing", "reading", "filling", "found", "answered", "dead"}
    /\ request # Idle => request.class \in Served
    /\ request.phase = "listing" => request.refs \subseteq Uuids
    /\ request.phase \in Enumerating => request.list \subseteq EntryType
    /\ request.phase = "filling" => Named(request.res) \in EntryType
    /\ request.phase = "found" =>
          \/ Named(request.res) \in EntryType
          \/ request.class \in ProcessorClasses /\ request.res.of \in VcpuNames(MaxVcpus)
    /\ \A i \in result : InstanceTyped(i)
    /\ held # NothingHeld => InstanceTyped(held)
    /\ steady \subseteq EntryType

\* At the start nothing is asked for.
LEMMA InitTyping == Init => Typing
  BY EventAssumption DEF Init, Typing, Idle, NothingHeld, Enumerating

\* An instance is made of an object of the pool only.
LEMMA MadeTyped ==
  ASSUME NEW d, Settled(d), NEW class \in Served, NEW r, NEW p \in SetProperties(d, class, r),
         \/ Named(r) \in EntryType
         \/ class \in ProcessorClasses /\ r.of \in VcpuNames(MaxVcpus)
  PROVE  InstanceTyped(Instance(class, r, p))
<1>1. Named(r) \in EntryType
  <2>1. CASE class \in ProcessorClasses /\ r.of \in VcpuNames(MaxVcpus)
    <3>1. p \in ProcessorProperties(d, r)
      BY <2>1, ProcessorClassesServed
    <3>2. r.obj \in DOMAIN d.vm
      BY <3>1 DEF ProcessorProperties
    <3>. QED  BY <2>1, <3>2, Objects DEF Named, Entry, EntryType
  <2>. QED  BY <2>1
<1>2. Named(Instance(class, r, p)) = Named(r) /\ Instance(class, r, p).class = class
  BY DEF Named, Instance
<1>. QED  BY <1>1, <1>2 DEF InstanceTyped

\* A change counts, and takes away from what has been there.
LEMMA ChangesTyped ==
  ASSUME Typing, OtherClients
  PROVE  Typing'
<1>1. /\ steady' = steady \/ steady' = steady \cap There(db', request.class)
      /\ events < MaxEvents /\ events' = events + 1
      /\ UNCHANGED <<request, result, held>>
  BY DEF OtherClients, DestroyVm, ConvertToTemplate, Stop, Suspend, Migrate, RemoveDevice,
         Reconnect, Bond, Eject, Collect, Change
<1>2. events' \in 0..MaxEvents
  BY <1>1, EventAssumption DEF Typing
<1>. QED  BY <1>1, <1>2 DEF Typing, InstanceTyped, Named

\* The list of an enumeration is of entries, and so is what is there.
LEMMA BeginTyped ==
  ASSUME Viewing, Typing, NEW class \in Classes, Begin(class)
  PROVE  Typing'
<1>1. /\ class \in Served /\ Settled(db) /\ UNCHANGED <<events, held>>
      /\ steady' = There(db, class) /\ result' = {}
  BY ClassAssumption DEF Viewing, Begin
<1>2. steady' \subseteq EntryType /\ WalkRefs(db, class) \subseteq Uuids
  BY <1>1, ThereTyped, Objects DEF WalkRefs
<1>3. CASE class \in WalkingClasses /\ WalkRefs(db, class) # {}
  <2>1. request' = [phase |-> "listing", class |-> class, refs |-> WalkRefs(db, class),
                    list |-> {}, ok |-> TRUE]
    BY <1>3 DEF Begin, Walking
  <2>. QED  BY <1>1, <1>2, <2>1 DEF Typing, Enumerating
<1>4. CASE ~(class \in WalkingClasses /\ WalkRefs(db, class) # {})
  <2>1. \/ request' = [phase |-> "reading", class |-> class, list |-> {}]
        \/ request' = [phase |-> "reading", class |-> class, list |-> ListEnum(db, class)]
    BY <1>4 DEF Begin, Walking, Reading
  <2>2. ListEnum(db, class) \subseteq EntryType
    BY <1>1, ListTyped
  <2>. QED  BY <1>1, <1>2, <2>1, <2>2 DEF Typing, Enumerating
<1>. QED  BY <1>3, <1>4

\* A turn of the loop adds entries.
LEMMA WalkTurnTyped ==
  ASSUME Viewing, Typing, WalkTurn
  PROVE  Typing'
<1>1. /\ request.phase = "listing" /\ UNCHANGED <<db, events, result, held, steady>>
      /\ request.class \in WalkingClasses /\ request.class \in Served /\ Settled(db)
      /\ request.refs \subseteq Uuids /\ request.list \subseteq EntryType
  BY DEF WalkTurn, Viewing, Enumerating, Typing
<1>2. PICK v \in request.refs, rest \in SUBSET request.refs, ok \in BOOLEAN :
         request' = Walking(request.class, rest,
                            request.list \cup ListWalk(db, request.class, v, request.ok), ok)
  <2>1. PICK v \in request.refs :
          LET list == request.list \cup ListWalk(db, request.class, v, request.ok)
              rest == IF WalkEnds(db, request.class, v) THEN {} ELSE request.refs \ {v}
              ok   == WalkOk(db, request.class, v, request.ok)
          IN  request' = Walking(request.class, rest, list, ok)
    BY DEF WalkTurn
  <2>2. (IF WalkEnds(db, request.class, v) THEN {} ELSE request.refs \ {v})
           \in SUBSET request.refs
    OBVIOUS
  <2>3. WalkOk(db, request.class, v, request.ok) \in BOOLEAN
    BY DEF WalkOk
  <2>. QED  BY <2>1, <2>2, <2>3
<1> DEFINE list == request.list \cup ListWalk(db, request.class, v, request.ok)
<1>3. list \subseteq EntryType /\ rest \subseteq Uuids
  BY <1>1, WalkTyped
<1>4. request' = Walking(request.class, rest, list, ok)
  BY <1>2
<1> HIDE DEF list
<1>5. \/ request' = [phase |-> "reading", class |-> request.class, list |-> list]
      \/ request' = [phase |-> "listing", class |-> request.class, refs |-> rest, list |-> list,
                     ok |-> ok]
  BY <1>4 DEF Walking, Reading
<1>. QED  BY <1>1, <1>3, <1>5 DEF Typing, Enumerating, Idle, InstanceTyped, Named

\* What is read for an entry goes by its name.
LEMMA GetNextTyped ==
  ASSUME Viewing, Typing, GetNext
  PROVE  Typing'
<1>1. /\ request.phase = "reading" /\ UNCHANGED <<db, events, result, held, steady>>
      /\ request.class \in Served /\ request.list \subseteq EntryType
      /\ \A e \in request.list : Shaped(request.class, e)
  BY DEF GetNext, Viewing, Enumerating, Typing
<1>2. PICK e \in request.list :
         \/ request' = Reading(request.class, request.list \ {e})
         \/ \E r \in RecordGetNext(db, request.class, e) :
               request' = Filling(request.class, request.list \ {e}, r)
  BY DEF GetNext
<1>3. CASE request' = Reading(request.class, request.list \ {e})
  BY <1>1, <1>3 DEF Typing, Reading, Enumerating, Idle, InstanceTyped, Named
<1>4. CASE \E r \in RecordGetNext(db, request.class, e) :
              request' = Filling(request.class, request.list \ {e}, r)
  <2>1. PICK r \in RecordGetNext(db, request.class, e) :
           request' = Filling(request.class, request.list \ {e}, r)
    BY <1>4
  <2>2. Named(r) \in EntryType
    BY <1>1, NextNames
  <2>3. /\ request'.phase = "filling" /\ request'.class = request.class
        /\ request'.list = request.list \ {e} /\ request'.res = r
    BY <2>1 DEF Filling
  <2>4. Named(request.res)' = Named(r)
    BY <2>3 DEF Named
  <2>. QED  BY <1>1, <2>2, <2>3, <2>4 DEF Typing, Enumerating, InstanceTyped
<1>. QED  BY <1>2, <1>3, <1>4

\* What is returned is made of what was read.
LEMMA FillInTyped ==
  ASSUME Viewing, Typing, FillIn \/ GetFillIn
  PROVE  Typing'
<1> DEFINE class == request.class
           r == request.res
           made == SetProperties(db, class, r)
<1>1. /\ request.phase \in {"filling", "found"} /\ UNCHANGED <<db, events, held, steady>>
      /\ class \in Served /\ Settled(db)
      /\ \/ Named(r) \in EntryType
         \/ class \in ProcessorClasses /\ r.of \in VcpuNames(MaxVcpus)
  BY DEF FillIn, GetFillIn, Viewing, Typing, Idle
<1>2. \A p \in made : InstanceTyped(Instance(class, r, p))
  BY <1>1, MadeTyped
<1>3. /\ \/ request' = [phase |-> "dead", class |-> class]
         \/ request' = [phase |-> "answered", class |-> class]
         \/ /\ request.phase = "filling"
            /\ request' = [phase |-> "reading", class |-> class, list |-> request.list]
      /\ \/ result' = result
         \/ result' = result \cup {Instance(class, r, p) : p \in made}
         \/ result' = {Instance(class, r, p) : p \in made}
  BY DEF FillIn, GetFillIn, Dies, Reading, Answered
<1> HIDE DEF made
<1>4. \A i \in result' : InstanceTyped(i)
  BY <1>2, <1>3 DEF Typing
<1> HIDE DEF class
<1>5. /\ request'.phase \in {"dead", "answered", "reading"} /\ request'.class = class
      /\ request'.phase = "reading" => request'.list = request.list /\ request.phase = "filling"
  BY <1>3
<1>. QED  BY <1>1, <1>4, <1>5 DEF Typing, Enumerating, InstanceTyped, Named

\* An answer, a restart and a path that is kept ask for nothing.
LEMMA OthersTyped ==
  ASSUME Viewing, Typing, End \/ Restart \/ Received \/ \E class \in PathClasses : Keep(class)
  PROVE  Typing'
<1>1. CASE End \/ Restart \/ Received
  BY <1>1 DEF Typing, End, Restart, Received, Idle, Enumerating, InstanceTyped, Named
<1>2. CASE \E class \in PathClasses : Keep(class)
  <2>1. PICK class \in PathClasses : Keep(class)
    BY <1>2
  <2>2. PICK i \in EnumerateClass(db, class) : HasPath(i) /\ held' = i
    BY <2>1 DEF Keep
  <2>3. class \in Served /\ Settled(db)
    BY ClassAssumption DEF Viewing
  <2>4. i.class = class
    <3>1. PICK r, p : i = Instance(class, r, p)
      BY <2>2, <2>3, InstanceMade
    <3>. QED  BY <3>1 DEF Instance
  <2>5. Named(i) \in EntryType
    BY <2>3, ThereTyped DEF There
  <2>6. InstanceTyped(held)'
    BY <2>2, <2>3, <2>4, <2>5 DEF InstanceTyped, Named
  <2>. QED  BY <2>1, <2>6 DEF Keep, Typing, Enumerating, InstanceTyped, Named
<1>. QED  BY <1>1, <1>2

\* What a path leads to is an object of the pool, or nothing is made of it.
LEMMA GetTyped ==
  ASSUME Viewing, Typing, Get
  PROVE  Typing'
<1> DEFINE class == held.class
<1>1. /\ held # NothingHeld /\ UNCHANGED <<db, events, result, held>> /\ Settled(db)
      /\ class \in Served /\ steady' \subseteq There(db, class)
  BY DEF Get, Viewing, Typing, InstanceTyped
<1>2. \/ request' = [phase |-> "answered", class |-> class]
      \/ \E r \in RecordGetFromId(db, class, PathOf(held)) :
            request' = [phase |-> "found", class |-> class, res |-> r]
  BY DEF Get, Answered
<1>3. steady' \subseteq EntryType
  BY <1>1, ThereTyped
<1> HIDE DEF class
<1>4. CASE request' = [phase |-> "answered", class |-> class]
  BY <1>1, <1>3, <1>4 DEF Typing, Enumerating, InstanceTyped, Named
<1>5. CASE \E r \in RecordGetFromId(db, class, PathOf(held)) :
              request' = [phase |-> "found", class |-> class, res |-> r]
  <2>1. PICK r \in RecordGetFromId(db, class, PathOf(held)) :
           request' = [phase |-> "found", class |-> class, res |-> r]
    BY <1>5
  <2>2. \/ Named(r) \in EntryType
        \/ class \in ProcessorClasses /\ r.of \in VcpuNames(MaxVcpus)
    BY <1>1, FindTyped
  <2>3. request'.phase = "found" /\ request'.class = class /\ request'.res = r
    BY <2>1
  <2>4. Named(request.res)' = Named(r)
    BY <2>3 DEF Named
  <2>. QED  BY <1>1, <1>3, <2>2, <2>3, <2>4 DEF Typing, Enumerating, InstanceTyped
<1>. QED  BY <1>2, <1>4, <1>5

\* Every step keeps the types.
LEMMA NextTyping == Viewing /\ Typing /\ [Next]_vars => Typing'
<1>. SUFFICES ASSUME Viewing, Typing, [Next]_vars PROVE Typing'
  OBVIOUS
<1>1. CASE UNCHANGED vars
  BY <1>1 DEF vars, Typing, InstanceTyped, Named
<1>2. CASE Next
  BY <1>2, ChangesTyped, BeginTyped, WalkTurnTyped, GetNextTyped, FillInTyped, OthersTyped,
     GetTyped DEF Next
<1>. QED  BY <1>1, <1>2

\* TypeOK: every variable keeps its type; no device is left without its machine, and what is
\* listed, kept and returned are objects of the pool.
THEOREM TypeCorrect == Spec => []TypeOK
<1>1. Viewing /\ Typing => TypeOK
  <2>1. SUFFICES ASSUME Viewing, Typing PROVE TypeOK
    OBVIOUS
  <2>2. \A v \in DOMAIN db.vm : db.vm[v].host \in Pool.host \cup {NoObject}
    BY <2>1 DEF Viewing, Settled, VmRecord
  <2>. QED  BY <2>1, <2>2 DEF Viewing, Settled, Typing, TypeOK, Enumerating
<1>. QED  BY InitViewing, NextViewing, InitTyping, NextTyping, <1>1, PTL DEF Spec

-----------------------------------------------------------------------------
(* The table of associations                                               *)

\* The names of the associations, group by group.
AssocNames == <<
  \* ProfileRows
  {"Xen_ElementConformsToSystemVirtualizationProfile",
   "Xen_ElementConformsToVirtualSystemProfile",
   "Xen_ElementConformsToStorageVirtualizationProfile",
   "Xen_ElementConformsToEthernetPortVirtualizationProfile",
   "Xen_ResourcePoolConformsToProcessorAllocationProfile",
   "Xen_ResourcePoolConformsToMemoryAllocationProfile",
   "Xen_ResourcePoolConformsToStorageVirtualizationProfile",
   "Xen_ResourcePoolConformsToEthernetPortVirtualizationProfile",
   "Xen_ReferencedProcessorAllocationProfile", "Xen_ReferencedMemoryAllocationProfile",
   "Xen_ReferencedGenericDeviceAllocationProfile", "Xen_ReferencedStorageVirtualizationProfile",
   "Xen_ReferencedEthernetPortVirtualizationProfile"},
  \* HostRows
  {"Xen_HostedComputerSystem", "Xen_HostedVirtualSystemManagementService",
   "Xen_HostedVirtualSystemMigrationService", "Xen_HostedVirtualSystemSnapshotService",
   "Xen_VirtualSystemManagementServiceAffectsComputerSystem",
   "Xen_VirtualSystemMigrationServiceAffectsComputerSystem"},
  \* DeviceRows
  {"Xen_ComputerSystemMemory", "Xen_ComputerSystemDisk", "Xen_ComputerSystemDiskDrive",
   "Xen_ComputerSystemNetworkPort", "Xen_ComputerSystemProcessor", "Xen_ComputerSystemConsole",
   "Xen_HostComputerSystemMemory", "Xen_HostComputerSystemProcessor",
   "Xen_VirtualSwitchVirtualSwitchPort", "Xen_ActiveConnection",
   "Xen_VirtualSwitchPortSAPImplementation", "Xen_NetworkPortSAPImplementation"},
  \* SettingRows
  {"Xen_ComputerSystemSettingsDefineState", "Xen_ComputerSystemElementSettingData",
   "Xen_MemorySettingDataComponent", "Xen_ProcessorSettingDataComponent",
   "Xen_DiskSettingDataComponent", "Xen_NetworkPortSettingDataComponent",
   "Xen_ConsoleSettingDataComponent"},
  \* HostedDeviceRows
  {"Xen_HostedDisk", "Xen_HostedDiskDrive", "Xen_HostedMemory", "Xen_HostedNetworkPort",
   "Xen_HostedProcessor"},
  \* HostedPoolRows
  {"Xen_HostedMemoryPool", "Xen_HostedProcessorPool", "Xen_HostedStoragePool",
   "Xen_HostedNetworkConnectionPool"},
  \* AllocationRows
  {"Xen_MemoryPoolAllocationCapabilities", "Xen_ProcessorPoolAllocationCapabilities",
   "Xen_StoragePoolAllocationCapabilities", "Xen_NetworkConnectionPoolAllocationCapabilities",
   "Xen_HostMemoryAllocationCapabilities", "Xen_HostProcessorAllocationCapabilities",
   "Xen_HostStorageAllocationCapabilities", "Xen_VirtualSwitchPortAllocationCapabilities"},
  \* FromPoolRows
  {"Xen_MemoryAllocatedFromPool", "Xen_MemorySettingAllocationFromPool",
   "Xen_MemorySettingsDefineState", "Xen_ProcessorAllocatedFromPool",
   "Xen_ProcessorSettingAllocationFromPool", "Xen_ProcessorSettingsDefineState",
   "Xen_NetworkPortAllocatedFromPool", "Xen_NetworkPortSettingAllocationFromPool",
   "Xen_NetworkPortSettingsDefineState", "Xen_DiskAllocatedFromPool",
   "Xen_DiskDriveAllocatedFromPool", "Xen_DiskSettingAllocationFromPool",
   "Xen_DiskSettingsDefineState", "Xen_DiskDriveSettingsDefineState"},
  \* ComponentRows
  {"Xen_MemoryPoolComponent", "Xen_ProcessorPoolComponent", "Xen_StoragePoolComponent",
   "Xen_StoragePoolDiskDriveComponent"},
  \* CapabilitiesRows
  {"Xen_StorageSettingsDefineCapabilities", "Xen_MemorySettingsDefineCapabilities",
   "Xen_ProcessorSettingsDefineCapabilities", "Xen_NetworkConnectionSettingsDefineCapabilities"},
  \* ElementRows
  {"Xen_ComputerSystemElementCapabilities", "Xen_HasVirtualizationCapabilities",
   "Xen_VirtualSystemMigrationServiceCapabilities",
   "Xen_VirtualSystemManagementServiceCapabilities", "Xen_HostVSMSElementCapabilities"},
  \* HostProcessorMetrics
  {"Xen_MetricDefForHostProcessor", "Xen_MetricForHostProcessor",
   "Xen_MetricInstanceHostProcessor"},
  \* ProcessorMetrics
  {"Xen_MetricDefForVirtualProcessor", "Xen_MetricForVirtualProcessor",
   "Xen_MetricInstanceVirtualProcessor"},
  \* DiskMetricRows
  {"Xen_MetricDefForDisk", "Xen_MetricForDisk", "Xen_MetricInstanceDisk"},
  \* NetworkPortMetrics
  {"Xen_MetricDefForNetworkPort", "Xen_MetricForNetworkPort", "Xen_MetricInstanceNetworkPort"}
>>

\* The base classes of the associations.
Bases ==
  {"CIM_ActiveConnection", "CIM_ConcreteComponent", "CIM_DeviceSAPImplementation",
   "CIM_ElementAllocatedFromPool", "CIM_ElementCapabilities", "CIM_ElementConformsToProfile",
   "CIM_ElementSettingData", "CIM_HostedDependency", "CIM_HostedResourcePool",
   "CIM_HostedService", "CIM_MetricDefForME", "CIM_MetricForME", "CIM_MetricInstance",
   "CIM_ReferencedProfile", "CIM_ResourceAllocationFromPool", "CIM_ServiceAffectsElement",
   "CIM_SettingsDefineCapabilities", "CIM_SettingsDefineState", "CIM_SystemDevice",
   "CIM_VirtualSystemSettingDataComponent"}

\* A list of 3 elements has the elements that it is written with.
LEMMA List3 ==
  ASSUME NEW a, NEW b, NEW c
  PROVE  LET s == <<a, b, c>> IN Range(s) = {a, b, c} /\ s \in Seq(Range(s))
  BY DEF Range

\* A list of 4 elements.
LEMMA List4 ==
  ASSUME NEW a, NEW b, NEW c, NEW d
  PROVE  LET s == <<a, b, c, d>> IN Range(s) = {a, b, c, d} /\ s \in Seq(Range(s))
  BY DEF Range

\* A list of 5 elements.
LEMMA List5 ==
  ASSUME NEW a, NEW b, NEW c, NEW d, NEW e
  PROVE  LET s == <<a, b, c, d, e>> IN Range(s) = {a, b, c, d, e} /\ s \in Seq(Range(s))
  BY DEF Range

\* A list of 6 elements.
LEMMA List6 ==
  ASSUME NEW a, NEW b, NEW c, NEW d, NEW e, NEW f
  PROVE  LET s == <<a, b, c, d, e, f>> IN Range(s) = {a, b, c, d, e, f} /\ s \in Seq(Range(s))
  BY DEF Range

\* A list of 7 elements.
LEMMA List7 ==
  ASSUME NEW a, NEW b, NEW c, NEW d, NEW e, NEW f, NEW g
  PROVE  LET s == <<a, b, c, d, e, f, g>> IN Range(s) = {a, b, c, d, e, f, g} /\ s \in Seq(Range(s))
  BY DEF Range

\* A list of 8 elements.
LEMMA List8 ==
  ASSUME NEW a, NEW b, NEW c, NEW d, NEW e, NEW f, NEW g, NEW h
  PROVE  LET s == <<a, b, c, d, e, f, g, h>>
         IN  Range(s) = {a, b, c, d, e, f, g, h} /\ s \in Seq(Range(s))
  BY DEF Range

\* A list of 12 elements.
LEMMA List12 ==
  ASSUME NEW a, NEW b, NEW c, NEW d, NEW e, NEW f, NEW g, NEW h, NEW i, NEW j, NEW k, NEW l
  PROVE  LET s == <<a, b, c, d, e, f, g, h, i, j, k, l>>
         IN  Range(s) = {a, b, c, d, e, f, g, h, i, j, k, l} /\ s \in Seq(Range(s))
  BY DEF Range

\* A list of 13 elements.
LEMMA List13 ==
  ASSUME NEW a, NEW b, NEW c, NEW d, NEW e, NEW f, NEW g, NEW h, NEW i, NEW j, NEW k, NEW l, NEW m
  PROVE  LET s == <<a, b, c, d, e, f, g, h, i, j, k, l, m>>
         IN  Range(s) = {a, b, c, d, e, f, g, h, i, j, k, l, m} /\ s \in Seq(Range(s))
  BY DEF Range

\* A list of 14 elements.
LEMMA List14 ==
  ASSUME NEW a, NEW b, NEW c, NEW d, NEW e, NEW f, NEW g, NEW h, NEW i, NEW j, NEW k, NEW l, NEW m,
         NEW n
  PROVE  LET s == <<a, b, c, d, e, f, g, h, i, j, k, l, m, n>>
         IN  Range(s) = {a, b, c, d, e, f, g, h, i, j, k, l, m, n} /\ s \in Seq(Range(s))
  BY DEF Range

\* A list of rows under some of the names: one row to a name.
Grouped(rows, names) ==
  /\ rows \in Seq(Range(rows))
  /\ \A x \in Range(rows) : x.assoc \in names /\ x.base \in Bases
  /\ \A x, y \in Range(rows) : x.assoc = y.assoc => x = y

\* The shapes of rows.
USE DEF Row, SystemDevice, Conforms, Referenced, ServiceOf, Affects, HostedService, Component,
        HostedDevice, HostedPool, Capabilities, FromPool, Allocated, Allocation, DefineState,
        PoolComponent, DefineCapabilities, ElementCapabilities, Metrics

\* Each row about profiles has one of the names of its group.
LEMMA ProfileRowsNames == Grouped(ProfileRows, AssocNames[1])
  BY List13 DEF ProfileRows, Grouped, Bases, AssocNames

\* Each row about hosts and their services has one of the names of its group.
LEMMA HostRowsNames == Grouped(HostRows, AssocNames[2])
  BY List6 DEF HostRows, Grouped, Bases, AssocNames

\* Each row about devices of systems and switches has one of the names of its group.
LEMMA DeviceRowsNames == Grouped(DeviceRows, AssocNames[3])
  BY List12 DEF DeviceRows, Grouped, Bases, AssocNames

\* Each row about settings of machines has one of the names of its group.
LEMMA SettingRowsNames == Grouped(SettingRows, AssocNames[4])
  BY List7 DEF SettingRows, Grouped, Bases, AssocNames

\* Each row about devices on their hosts has one of the names of its group.
LEMMA HostedDeviceRowsNames == Grouped(HostedDeviceRows, AssocNames[5])
  BY List5 DEF HostedDeviceRows, Grouped, Bases, AssocNames

\* Each row about pools on their hosts has one of the names of its group.
LEMMA HostedPoolRowsNames == Grouped(HostedPoolRows, AssocNames[6])
  BY List4 DEF HostedPoolRows, Grouped, Bases, AssocNames

\* Each row about capabilities of pools and devices has one of the names of its group.
LEMMA AllocationRowsNames == Grouped(AllocationRows, AssocNames[7])
  BY List8 DEF AllocationRows, Grouped, Bases, AssocNames

\* Each row about what is allocated from pools has one of the names of its group.
LEMMA FromPoolRowsNames == Grouped(FromPoolRows, AssocNames[8])
  BY List14 DEF FromPoolRows, Grouped, Bases, AssocNames

\* Each row about components of pools has one of the names of its group.
LEMMA ComponentRowsNames == Grouped(ComponentRows, AssocNames[9])
  BY List4 DEF ComponentRows, Grouped, Bases, AssocNames

\* Each row about settings of capabilities has one of the names of its group.
LEMMA CapabilitiesRowsNames == Grouped(CapabilitiesRows, AssocNames[10])
  BY List4 DEF CapabilitiesRows, Grouped, Bases, AssocNames

\* Each row about capabilities of services and systems has one of the names of its group.
LEMMA ElementRowsNames == Grouped(ElementRows, AssocNames[11])
  BY List5 DEF ElementRows, Grouped, Bases, AssocNames

\* Each row about metrics of host processors has one of the names of its group.
LEMMA HostProcessorMetricsNames == Grouped(HostProcessorMetrics, AssocNames[12])
  BY List3 DEF HostProcessorMetrics, Grouped, Bases, AssocNames

\* Each row about metrics of processors has one of the names of its group.
LEMMA ProcessorMetricsNames == Grouped(ProcessorMetrics, AssocNames[13])
  BY List3 DEF ProcessorMetrics, Grouped, Bases, AssocNames

\* Each row about metrics of disks has one of the names of its group.
LEMMA DiskMetricRowsNames == Grouped(DiskMetricRows, AssocNames[14])
  BY List3 DEF DiskMetricRows, Grouped, Bases, AssocNames

\* Each row about metrics of ports has one of the names of its group.
LEMMA NetworkPortMetricsNames == Grouped(NetworkPortMetrics, AssocNames[15])
  BY List3 DEF NetworkPortMetrics, Grouped, Bases, AssocNames

HIDE DEF Row, SystemDevice, Conforms, Referenced, ServiceOf, Affects, HostedService, Component,
         HostedDevice, HostedPool, Capabilities, FromPool, Allocated, Allocation, DefineState,
         PoolComponent, DefineCapabilities, ElementCapabilities, Metrics

\* The group of a name.
TagOf(a) ==
  IF a \in AssocNames[1] THEN 1
  ELSE IF a \in AssocNames[2] THEN 2
  ELSE IF a \in AssocNames[3] THEN 3
  ELSE IF a \in AssocNames[4] THEN 4
  ELSE IF a \in AssocNames[5] THEN 5
  ELSE IF a \in AssocNames[6] THEN 6
  ELSE IF a \in AssocNames[7] THEN 7
  ELSE IF a \in AssocNames[8] THEN 8
  ELSE IF a \in AssocNames[9] THEN 9
  ELSE IF a \in AssocNames[10] THEN 10
  ELSE IF a \in AssocNames[11] THEN 11
  ELSE IF a \in AssocNames[12] THEN 12
  ELSE IF a \in AssocNames[13] THEN 13
  ELSE IF a \in AssocNames[14] THEN 14
  ELSE 15

\* No name is in two groups.
LEMMA TagIs == \A k \in 1..15 : \A a \in AssocNames[k] : TagOf(a) = k
<1>1. \A a \in AssocNames[1] : TagOf(a) = 1
  BY DEF TagOf, AssocNames
<1>2. \A a \in AssocNames[2] : TagOf(a) = 2
  BY DEF TagOf, AssocNames
<1>3. \A a \in AssocNames[3] : TagOf(a) = 3
  BY DEF TagOf, AssocNames
<1>4. \A a \in AssocNames[4] : TagOf(a) = 4
  BY DEF TagOf, AssocNames
<1>5. \A a \in AssocNames[5] : TagOf(a) = 5
  BY DEF TagOf, AssocNames
<1>6. \A a \in AssocNames[6] : TagOf(a) = 6
  BY DEF TagOf, AssocNames
<1>7. \A a \in AssocNames[7] : TagOf(a) = 7
  BY DEF TagOf, AssocNames
<1>8. \A a \in AssocNames[8] : TagOf(a) = 8
  BY DEF TagOf, AssocNames
<1>9. \A a \in AssocNames[9] : TagOf(a) = 9
  BY DEF TagOf, AssocNames
<1>10. \A a \in AssocNames[10] : TagOf(a) = 10
  BY DEF TagOf, AssocNames
<1>11. \A a \in AssocNames[11] : TagOf(a) = 11
  BY DEF TagOf, AssocNames
<1>12. \A a \in AssocNames[12] : TagOf(a) = 12
  BY DEF TagOf, AssocNames
<1>13. \A a \in AssocNames[13] : TagOf(a) = 13
  BY DEF TagOf, AssocNames
<1>14. \A a \in AssocNames[14] : TagOf(a) = 14
  BY DEF TagOf, AssocNames
<1>15. \A a \in AssocNames[15] : TagOf(a) = 15
  BY DEF TagOf, AssocNames
<1>. QED  BY <1>1, <1>2, <1>3, <1>4, <1>5, <1>6, <1>7, <1>8, <1>9, <1>10, <1>11, <1>12, <1>13,
          <1>14, <1>15

\* The lists of rows.
Groups == {ProfileRows, HostRows, DeviceRows, SettingRows, HostedDeviceRows, HostedPoolRows,
           AllocationRows, FromPoolRows, ComponentRows, CapabilitiesRows, ElementRows,
           HostProcessorMetrics, ProcessorMetrics, DiskMetricRows, NetworkPortMetrics}

\* The table is made of them.
LEMMA TableRows ==
  /\ AssocTable \in Seq(Range(AssocTable))
  /\ \A x \in Range(AssocTable) : \E g \in Groups : x \in Range(g)
<1> DEFINE U == UNION {Range(g) : g \in Groups}
<1>1. ProfileRows \in Seq(U)
  <2>1. Range(ProfileRows) \subseteq U
    BY DEF Groups
  <2>. QED  BY <2>1, ProfileRowsNames, SeqMonotonic DEF Grouped
<1>2. HostRows \in Seq(U)
  <2>1. Range(HostRows) \subseteq U
    BY DEF Groups
  <2>. QED  BY <2>1, HostRowsNames, SeqMonotonic DEF Grouped
<1>3. DeviceRows \in Seq(U)
  <2>1. Range(DeviceRows) \subseteq U
    BY DEF Groups
  <2>. QED  BY <2>1, DeviceRowsNames, SeqMonotonic DEF Grouped
<1>4. SettingRows \in Seq(U)
  <2>1. Range(SettingRows) \subseteq U
    BY DEF Groups
  <2>. QED  BY <2>1, SettingRowsNames, SeqMonotonic DEF Grouped
<1>5. HostedDeviceRows \in Seq(U)
  <2>1. Range(HostedDeviceRows) \subseteq U
    BY DEF Groups
  <2>. QED  BY <2>1, HostedDeviceRowsNames, SeqMonotonic DEF Grouped
<1>6. HostedPoolRows \in Seq(U)
  <2>1. Range(HostedPoolRows) \subseteq U
    BY DEF Groups
  <2>. QED  BY <2>1, HostedPoolRowsNames, SeqMonotonic DEF Grouped
<1>7. AllocationRows \in Seq(U)
  <2>1. Range(AllocationRows) \subseteq U
    BY DEF Groups
  <2>. QED  BY <2>1, AllocationRowsNames, SeqMonotonic DEF Grouped
<1>8. FromPoolRows \in Seq(U)
  <2>1. Range(FromPoolRows) \subseteq U
    BY DEF Groups
  <2>. QED  BY <2>1, FromPoolRowsNames, SeqMonotonic DEF Grouped
<1>9. ComponentRows \in Seq(U)
  <2>1. Range(ComponentRows) \subseteq U
    BY DEF Groups
  <2>. QED  BY <2>1, ComponentRowsNames, SeqMonotonic DEF Grouped
<1>10. CapabilitiesRows \in Seq(U)
  <2>1. Range(CapabilitiesRows) \subseteq U
    BY DEF Groups
  <2>. QED  BY <2>1, CapabilitiesRowsNames, SeqMonotonic DEF Grouped
<1>11. ElementRows \in Seq(U)
  <2>1. Range(ElementRows) \subseteq U
    BY DEF Groups
  <2>. QED  BY <2>1, ElementRowsNames, SeqMonotonic DEF Grouped
<1>12. HostProcessorMetrics \in Seq(U)
  <2>1. Range(HostProcessorMetrics) \subseteq U
    BY DEF Groups
  <2>. QED  BY <2>1, HostProcessorMetricsNames, SeqMonotonic DEF Grouped
<1>13. ProcessorMetrics \in Seq(U)
  <2>1. Range(ProcessorMetrics) \subseteq U
    BY DEF Groups
  <2>. QED  BY <2>1, ProcessorMetricsNames, SeqMonotonic DEF Grouped
<1>14. DiskMetricRows \in Seq(U)
  <2>1. Range(DiskMetricRows) \subseteq U
    BY DEF Groups
  <2>. QED  BY <2>1, DiskMetricRowsNames, SeqMonotonic DEF Grouped
<1>15. NetworkPortMetrics \in Seq(U)
  <2>1. Range(NetworkPortMetrics) \subseteq U
    BY DEF Groups
  <2>. QED  BY <2>1, NetworkPortMetricsNames, SeqMonotonic DEF Grouped
<1> HIDE DEF U
<1>16. MetricRows \in Seq(U)
  BY <1>12, <1>13, <1>14, <1>15, ConcatProperties DEF MetricRows
<1>17. AssocTable \in Seq(U)
  BY <1>1, <1>2, <1>3, <1>4, <1>5, <1>6, <1>7, <1>8, <1>9, <1>10, <1>11, <1>16, ConcatProperties
     DEF AssocTable
<1>18. Range(AssocTable) \subseteq U /\ AssocTable \in Seq(Range(AssocTable))
  BY <1>17, SeqOfRange, RangeOfSeq DEF Range
<1>. QED  BY <1>18 DEF U

\* Each association has one row, and none is the base of another.
LEMMA OneRow ==
  \A x, y \in Range(AssocTable) : x.assoc # y.base /\ (x.assoc = y.assoc => x = y)
<1>1. ASSUME NEW x \in Range(AssocTable)
      PROVE  x.base \in Bases /\ \E k \in 1..15 : x.assoc \in AssocNames[k]
  BY <1>1, TableRows, ProfileRowsNames, HostRowsNames, DeviceRowsNames, SettingRowsNames,
     HostedDeviceRowsNames, HostedPoolRowsNames, AllocationRowsNames, FromPoolRowsNames,
     ComponentRowsNames, CapabilitiesRowsNames, ElementRowsNames, HostProcessorMetricsNames,
     ProcessorMetricsNames, DiskMetricRowsNames, NetworkPortMetricsNames DEF Groups, Grouped
<1>2. \A k \in 1..15 : AssocNames[k] \cap Bases = {}
  BY DEF AssocNames, Bases
<1>3. ASSUME NEW x \in Range(AssocTable), NEW y \in Range(AssocTable), x.assoc = y.assoc PROVE x = y
  <2>1. \A z \in Range(ProfileRows) : TagOf(z.assoc) = 1
    BY ProfileRowsNames, TagIs DEF Grouped
  <2>2. \A z \in Range(HostRows) : TagOf(z.assoc) = 2
    BY HostRowsNames, TagIs DEF Grouped
  <2>3. \A z \in Range(DeviceRows) : TagOf(z.assoc) = 3
    BY DeviceRowsNames, TagIs DEF Grouped
  <2>4. \A z \in Range(SettingRows) : TagOf(z.assoc) = 4
    BY SettingRowsNames, TagIs DEF Grouped
  <2>5. \A z \in Range(HostedDeviceRows) : TagOf(z.assoc) = 5
    BY HostedDeviceRowsNames, TagIs DEF Grouped
  <2>6. \A z \in Range(HostedPoolRows) : TagOf(z.assoc) = 6
    BY HostedPoolRowsNames, TagIs DEF Grouped
  <2>7. \A z \in Range(AllocationRows) : TagOf(z.assoc) = 7
    BY AllocationRowsNames, TagIs DEF Grouped
  <2>8. \A z \in Range(FromPoolRows) : TagOf(z.assoc) = 8
    BY FromPoolRowsNames, TagIs DEF Grouped
  <2>9. \A z \in Range(ComponentRows) : TagOf(z.assoc) = 9
    BY ComponentRowsNames, TagIs DEF Grouped
  <2>10. \A z \in Range(CapabilitiesRows) : TagOf(z.assoc) = 10
    BY CapabilitiesRowsNames, TagIs DEF Grouped
  <2>11. \A z \in Range(ElementRows) : TagOf(z.assoc) = 11
    BY ElementRowsNames, TagIs DEF Grouped
  <2>12. \A z \in Range(HostProcessorMetrics) : TagOf(z.assoc) = 12
    BY HostProcessorMetricsNames, TagIs DEF Grouped
  <2>13. \A z \in Range(ProcessorMetrics) : TagOf(z.assoc) = 13
    BY ProcessorMetricsNames, TagIs DEF Grouped
  <2>14. \A z \in Range(DiskMetricRows) : TagOf(z.assoc) = 14
    BY DiskMetricRowsNames, TagIs DEF Grouped
  <2>15. \A z \in Range(NetworkPortMetrics) : TagOf(z.assoc) = 15
    BY NetworkPortMetricsNames, TagIs DEF Grouped
  <2>16. PICK g, h \in Groups : x \in Range(g) /\ y \in Range(h)
    BY TableRows
  <2>17. g = h
    BY <2>1, <2>2, <2>3, <2>4, <2>5, <2>6, <2>7, <2>8, <2>9, <2>10, <2>11, <2>12, <2>13, <2>14,
       <2>15, <2>16, <1>3 DEF Groups
  <2>. QED  BY <2>16, <2>17, <1>3, ProfileRowsNames, HostRowsNames, DeviceRowsNames,
            SettingRowsNames, HostedDeviceRowsNames, HostedPoolRowsNames, AllocationRowsNames,
            FromPoolRowsNames, ComponentRowsNames, CapabilitiesRowsNames, ElementRowsNames,
            HostProcessorMetricsNames, ProcessorMetricsNames, DiskMetricRowsNames,
            NetworkPortMetricsNames DEF Groups, Grouped
<1>. QED  BY <1>1, <1>2, <1>3

\* A set of numbers has a least element.
LEMMA Least ==
  ASSUME NEW S \in SUBSET Nat, S # {}
  PROVE  \E n \in S : \A m \in S : n <= m
<1>1. \E x \in S : \A y \in S : ~ (<<y, x>> \in OpToRel(<,Nat))
  <2>. HIDE DEF OpToRel
  <2>. QED BY NatLessThanWellFounded, WFMin
<1>2. \A x,y \in Nat : <<y,x>> \in OpToRel(<,Nat) <=> y < x
  BY DEF OpToRel
<1>3. PICK x \in S : \A y \in S : ~(y < x)
  BY <1>1, <1>2
<1>. QED BY <1>3

\* One below a bound has a greatest element.
LEMMA Greatest ==
  ASSUME NEW S \in SUBSET Nat, S # {}, NEW n \in Nat, \A m \in S : m <= n
  PROVE  Max(S) \in S
<1> DEFINE T == {n - m : m \in S}
<1>1. T \in SUBSET Nat
  BY SMT
<1>0. T # {}
  OBVIOUS
<1>2. PICK t \in T : \A m \in T : t <= m
  <2> HIDE DEF T
  <2>. QED BY <1>1, <1>0, Least
<1>3. PICK x \in S : t = n - x
  BY <1>2
<1>4. ASSUME NEW m \in S PROVE x >= m
  <2>1. n - m \in T
    OBVIOUS
  <2>2. t <= n - m
    BY <1>2, <2>1
  <2>3. m \in Nat /\ x \in Nat
    OBVIOUS
  <2>. QED BY <2>2, <2>3, <1>3
<1>. QED BY <1>4 DEF Max

-----------------------------------------------------------------------------
\* The name in the property that a side looks at.
Called(side, i) ==
  IF side.key \in DOMAIN i.props THEN Extract(side.how, i.props[side.key]) ELSE NoName

\* A name is never missing in the identifier that it is looked for in.
Told(side) ==
  \A i \in EnumInstances(db, side.class) :
     side.key \in DOMAIN i.props => Called(side, i) # NoName

\* What AssociationsTrue says of one association.
RowTrue(row) ==
  LET L == EnumInstances(db, row.lhs.class)
      R == EnumInstances(db, row.rhs.class)
  IN  /\ \A l \in L : Associators(db, l, row.assoc, Garbage) = {r \in R : Holds(row, l, r)}
      /\ \A r \in R :
            LET Related == {l \in L : Holds(row, l, r)}
            IN  /\ row.lhs.class # row.rhs.class =>
                      Associators(db, r, row.assoc, Garbage) = Related
                /\ Referred(row, r) =>
                      ReferencesRoutine(db, r, row.assoc, Garbage)
                          = {Reference(row.assoc, l, r) : l \in Related}

\* The two sides of a row are different classes, neither of them above the other.
Separate(row) ==
  row.lhs.class # row.rhs.class =>
    \A c \in Below(row.rhs.class) : c \notin Below(row.lhs.class) /\ row.lhs.class \notin Below(c)

\* An instance of an enumeration is of the class or of a subclass.
LEMMA ClassBelow ==
  ASSUME NEW d, NEW class, NEW i \in EnumInstances(d, class)
  PROVE  i.class \in Below(class)
<1>1. CASE \E c \in Below(class) \cap Profiles : i = Profile(c)
  BY <1>1 DEF Profile
<1>2. CASE \E c \in Below(class) \cap Served : i \in EnumerateClass(d, c)
  <2>1. PICK c \in Below(class) \cap Served : i \in EnumerateClass(d, c)
    BY <1>2
  <2>2. \E r, p : i = Instance(c, r, p)
    BY <2>1 DEF EnumerateClass
  <2>. QED  BY <2>1, <2>2 DEF Instance
<1>3. \/ \E c \in Below(class) \cap Profiles : i = Profile(c)
      \/ \E c \in Below(class) \cap Served : i \in EnumerateClass(d, c)
  BY DEF EnumInstances
<1>. QED  BY <1>1, <1>2, <1>3

\* The rows that are found for an association are its one row.
LEMMA RowsOf ==
  ASSUME NEW row \in Range(AssocTable)
  PROVE  LET K == FindAssociationClasses(row.assoc)
         IN  /\ K # {} /\ K \in SUBSET Nat
             /\ \A k \in K : AssocTable[k] = row
<1>1. DOMAIN AssocTable = 1..Len(AssocTable) /\ Len(AssocTable) \in Nat
  BY TableRows, LenProperties
<1>2. \A k \in DOMAIN AssocTable : AssocTable[k] \in Range(AssocTable)
  BY DEF Range
<1>3. PICK k \in DOMAIN AssocTable : AssocTable[k] = row
  BY DEF Range
<1>. QED  BY <1>1, <1>2, <1>3, OneRow DEF FindAssociationClasses

\* The name that the routine takes from an instance, if every side that answers is the same.
LEMMA NameTaken ==
  ASSUME NEW sides, NEW k \in Nat, NEW i, NEW buffer, k \in DOMAIN sides,
         DOMAIN sides \subseteq Nat, \A j \in DOMAIN sides : sides[j] = sides[k],
         sides[k].key # NoKey, Extract(sides[k].how, i.props[sides[k].key]) # NoName
  PROVE  SourceName(i, sides, k, buffer) = Extract(sides[k].how, i.props[sides[k].key])
<1> DEFINE names == {j \in DOMAIN sides :
                       /\ j <= k /\ sides[j].key # NoKey
                       /\ Extract(sides[j].how, i.props[sides[j].key]) # NoName}
<1>1. names \in SUBSET Nat /\ names # {} /\ \A j \in names : j <= k
  <2>1. k \in names
    OBVIOUS
  <2>. QED  BY <2>1
<1>2. Max(names) \in names
  <2> HIDE DEF names
  <2>. QED  BY <1>1, Greatest
<1>3. sides[Max(names)] = sides[k]
  BY <1>2
<1>. QED  BY <1>1, <1>3 DEF SourceName

\* What the routine answers from instance i of side source for the one row of an association.
LEMMA Answer ==
  ASSUME NEW row \in Range(AssocTable), NEW i, NEW source, NEW target,
         source = SourceSide(i, row), target = TargetSide(i, row), Matches(i.class, source),
         (source.key = NoKey) = (target.key = NoKey),
         source.key # NoKey /\ source.key \in DOMAIN i.props => Called(source, i) # NoName
  PROVE  Associators(db, i, row.assoc, Garbage) =
           {t \in EnumInstances(db, target.class) :
              source.key # NoKey => /\ Called(source, i) # NoName
                                    /\ Called(target, t) = Called(source, i)}
<1> DEFINE K == FindAssociationClasses(row.assoc)
           rows == {k \in K : Answers(i, SourceSide(i, AssocTable[k]))}
           sides == [k \in rows |-> SourceSide(i, AssocTable[k])]
           T == EnumInstances(db, target.class)
<1>1. K # {} /\ K \in SUBSET Nat /\ \A k \in K : AssocTable[k] = row
  BY RowsOf
<1>2. rows = {k \in K : source.key \in {NoKey} \cup DOMAIN i.props}
  BY <1>1 DEF Answers
<1>3. \A k \in rows : AssocTable[k] = row
  BY <1>1
<1>4. sides = [k \in rows |-> source]
  BY <1>3
<1>5. Associators(db, i, row.assoc, Garbage)
        = UNION {Targets(db, target, NoKey, SourceName(i, sides, k, Garbage)) : k \in rows}
  BY <1>3 DEF Associators, AssociationRoutine
<1>6. rows \in SUBSET Nat
  BY <1>1
<1> HIDE DEF sides
<1>7. CASE source.key = NoKey
  <2>1. rows # {}
    BY <1>1, <1>2, <1>7
  <2>2. ASSUME NEW k \in rows PROVE Targets(db, target, NoKey, SourceName(i, sides, k, Garbage)) = T
    BY <1>7 DEF Targets
  <2> HIDE DEF rows, T
  <2>3. Associators(db, i, row.assoc, Garbage) = T
    BY <1>5, <2>1, <2>2
  <2>. QED  BY <1>7, <2>3 DEF T
<1>8. CASE source.key # NoKey /\ source.key \in DOMAIN i.props
  <2>1. rows # {}
    BY <1>1, <1>2, <1>8
  <2>2. Extract(source.how, i.props[source.key]) = Called(source, i)
    BY <1>8 DEF Called
  <2>3. ASSUME NEW k \in rows
        PROVE  Targets(db, target, NoKey, SourceName(i, sides, k, Garbage))
                  = {t \in T : Called(target, t) = Called(source, i)}
    <3>1. SourceName(i, sides, k, Garbage) = Called(source, i)
      <4>1. Extract(source.how, i.props[source.key]) # NoName
        BY <1>8, <2>2
      <4> HIDE DEF rows
      <4>2. k \in Nat /\ DOMAIN sides = rows /\ \A j \in rows : sides[j] = source
        BY <1>4, <1>6
      <4>3. /\ k \in DOMAIN sides /\ DOMAIN sides \subseteq Nat
            /\ \A j \in DOMAIN sides : sides[j] = sides[k]
            /\ sides[k] = source
        BY <1>6, <4>2
      <4>4. sides[k].key # NoKey /\ Extract(sides[k].how, i.props[sides[k].key]) # NoName
        BY <1>8, <4>1, <4>3
      <4>5. SourceName(i, sides, k, Garbage) = Extract(sides[k].how, i.props[sides[k].key])
        BY <4>2, <4>3, <4>4, NameTaken
      <4>. QED  BY <2>2, <4>3, <4>5
    <3>. QED  BY <1>8, <3>1 DEF Targets, Called
  <2> HIDE DEF rows, T
  <2>4. Associators(db, i, row.assoc, Garbage) = {t \in T : Called(target, t) = Called(source, i)}
    BY <1>5, <2>1, <2>3
  <2>. QED  BY <1>8, <2>4 DEF T
<1>9. CASE source.key # NoKey /\ source.key \notin DOMAIN i.props
  <2>1. rows = {}
    BY <1>2, <1>9
  <2>2. Called(source, i) = NoName
    BY <1>9 DEF Called
  <2>. QED  BY <1>5, <1>9, <2>1, <2>2
<1>. QED  BY <1>7, <1>8, <1>9

\* What References answers from instance i on the right.
LEMMA Reply ==
  ASSUME NEW row \in Range(AssocTable), NEW i, i.class = row.rhs.class,
         (row.lhs.key = NoKey) = (row.rhs.key = NoKey),
         row.rhs.key # NoKey /\ row.rhs.key \in DOMAIN i.props => Called(row.rhs, i) # NoName,
         row.lhs.key # NoKey => /\ Below(row.lhs.class) = {row.lhs.class}
                                /\ row.lhs.key = KeyProperty(row.lhs.class)
  PROVE  ReferencesRoutine(db, i, row.assoc, Garbage) =
           {Reference(row.assoc, t, i) : t \in {t \in EnumInstances(db, row.lhs.class) :
              row.lhs.key # NoKey => /\ Called(row.rhs, i) # NoName
                                     /\ Called(row.lhs, t) = Called(row.rhs, i)}}
<1> DEFINE K == FindAssociationClasses(row.assoc)
           source == row.rhs
           rows == {k \in K : Answers(i, AssocTable[k].rhs)}
           sides == [k \in rows |-> AssocTable[k].rhs]
           T == EnumInstances(db, row.lhs.class)
           Refs(S) == {Reference(row.assoc, t, i) : t \in S}
<1>1. K # {} /\ K \in SUBSET Nat /\ \A k \in K : AssocTable[k] = row
  BY RowsOf
<1>0. Matches(i.class, source)
  BY DEF Matches, IsA, Below
<1>2. rows = {k \in K : source.key \in {NoKey} \cup DOMAIN i.props}
  BY <1>0, <1>1 DEF Answers
<1>3. \A k \in rows : AssocTable[k] = row
  BY <1>1
<1>4. sides = [k \in rows |-> source]
  BY <1>3
<1>5. ReferencesRoutine(db, i, row.assoc, Garbage)
        = UNION {Refs(PathTargets(db, row.lhs, SourceName(i, sides, k, Garbage))) : k \in rows}
  <2> DEFINE Refer(k, t) == IF i.class = AssocTable[k].rhs.class
                              THEN Reference(AssocTable[k].assoc, t, i)
                              ELSE Reference(AssocTable[k].assoc, i, t)
             P(k) == PathTargets(db, AssocTable[k].lhs, SourceName(i, sides, k, Garbage))
  <2>1. ReferencesRoutine(db, i, row.assoc, Garbage)
          = UNION {{Refer(k, t) : t \in P(k)} : k \in rows}
    BY DEF ReferencesRoutine
  <2> DEFINE A(k) == {Refer(k, t) : t \in P(k)}
             B(k) == Refs(PathTargets(db, row.lhs, SourceName(i, sides, k, Garbage)))
  <2>2. ASSUME NEW k \in rows PROVE A(k) = B(k)
    <3>1. P(k) = PathTargets(db, row.lhs, SourceName(i, sides, k, Garbage))
      BY <1>3
    <3>2. \A t : Refer(k, t) = Reference(row.assoc, t, i)
      BY <1>3
    <3> HIDE DEF P, Refer
    <3>. QED  BY <3>1, <3>2
  <2>3. ReferencesRoutine(db, i, row.assoc, Garbage) = UNION {A(k) : k \in rows}
    BY <2>1
  <2> HIDE DEF A, B, rows
  <2>4. ReferencesRoutine(db, i, row.assoc, Garbage) = UNION {B(k) : k \in rows}
    BY <2>2, <2>3
  <2>. QED  BY <2>4 DEF B
<1>6. rows \in SUBSET Nat
  BY <1>1
<1> HIDE DEF sides
<1>7. CASE row.lhs.key = NoKey
  <2>1. rows # {}
    BY <1>1, <1>2, <1>7
  <2>2. ASSUME NEW k \in rows
        PROVE  Refs(PathTargets(db, row.lhs, SourceName(i, sides, k, Garbage))) = Refs(T)
    <3>1. PathTargets(db, row.lhs, SourceName(i, sides, k, Garbage)) = T
      BY <1>7 DEF PathTargets
    <3> HIDE DEF Refs
    <3>. QED  BY <3>1
  <2> DEFINE X == Refs(T)
  <2>0. UNION {X : k \in rows} = X
    <3> HIDE DEF X, rows
    <3>. QED  BY <2>1
  <2> HIDE DEF Refs, X
  <2>3. ReferencesRoutine(db, i, row.assoc, Garbage) = X
    BY <1>5, <2>0, <2>2 DEF X
  <2>. QED  BY <1>7, <2>3 DEF T, X, Refs
<1>8. CASE row.lhs.key # NoKey /\ source.key \in DOMAIN i.props
  <2>1. rows # {}
    BY <1>1, <1>2, <1>8
  <2>2. Extract(source.how, i.props[source.key]) = Called(source, i)
    BY <1>8 DEF Called
  <2> DEFINE C == {t \in T : Called(row.lhs, t) = Called(source, i)}
  <2>3. ASSUME NEW k \in rows
        PROVE  PathTargets(db, row.lhs, SourceName(i, sides, k, Garbage)) = C
    <3>1. SourceName(i, sides, k, Garbage) = Called(source, i)
      <4>1. Extract(source.how, i.props[source.key]) # NoName
        BY <1>8, <2>2
      <4> HIDE DEF rows
      <4>2. k \in Nat /\ DOMAIN sides = rows /\ \A j \in rows : sides[j] = source
        BY <1>4, <1>6
      <4>3. /\ k \in DOMAIN sides /\ DOMAIN sides \subseteq Nat
            /\ \A j \in DOMAIN sides : sides[j] = sides[k]
            /\ sides[k] = source
        BY <1>6, <4>2
      <4>4. sides[k].key # NoKey /\ Extract(sides[k].how, i.props[sides[k].key]) # NoName
        BY <1>8, <4>1, <4>3
      <4>5. SourceName(i, sides, k, Garbage) = Extract(sides[k].how, i.props[sides[k].key])
        BY <4>2, <4>3, <4>4, NameTaken
      <4>. QED  BY <2>2, <4>3, <4>5
    <3>2. Called(source, i) # NoName
      BY <1>8
    <3>3. ASSUME NEW t \in T
          PROVE  /\ row.lhs.key = KeyProperty(t.class)
                 /\ HasPath(t) <=> row.lhs.key \in DOMAIN t.props
                 /\ PathOf(t) = t.props[row.lhs.key]
      <4>1. t.class = row.lhs.class
        BY <1>8, ClassBelow
      <4>. QED  BY <1>8, <4>1 DEF HasPath, PathOf
    <3>. QED  BY <1>8, <3>1, <3>2, <3>3 DEF PathTargets, Called
  <2> DEFINE X == Refs(C)
  <2>0. UNION {X : k \in rows} = X
    <3> HIDE DEF X, rows
    <3>. QED  BY <2>1
  <2> HIDE DEF Refs, C, X
  <2>4. ReferencesRoutine(db, i, row.assoc, Garbage) = X
    BY <1>5, <2>0, <2>3 DEF X
  <2>. QED  BY <1>8, <2>4 DEF T, X, C, Refs
<1>9. CASE row.lhs.key # NoKey /\ source.key \notin DOMAIN i.props
  <2>1. rows = {}
    BY <1>2, <1>9
  <2>2. Called(source, i) = NoName
    BY <1>9 DEF Called
  <2>. QED  BY <1>5, <1>9, <2>1, <2>2
<1>. QED  BY <1>7, <1>8, <1>9

\* What is on the left is taken for that.
LEMMA LeftSide ==
  ASSUME NEW row, NEW d, NEW l \in EnumInstances(d, row.lhs.class)
  PROVE  /\ SourceSide(l, row) = row.lhs /\ TargetSide(l, row) = row.rhs
         /\ Matches(l.class, row.lhs)
BY ClassBelow DEF SourceSide, TargetSide, Matches, IsA

\* What is on the right as well, if the sides are different.
LEMMA RightSide ==
  ASSUME NEW row, NEW d, NEW r \in EnumInstances(d, row.rhs.class), Separate(row),
         row.lhs.class # row.rhs.class
  PROVE  /\ SourceSide(r, row) = row.rhs /\ TargetSide(r, row) = row.lhs
         /\ Matches(r.class, row.rhs)
BY ClassBelow DEF SourceSide, TargetSide, Matches, IsA, Separate

\* An association without keys relates all instances of its classes.
LEMMA WholeTrue ==
  ASSUME NEW row \in Range(AssocTable), row.lhs.key = NoKey, row.rhs.key = NoKey, Separate(row)
  PROVE  RowTrue(row)
<1> DEFINE L == EnumInstances(db, row.lhs.class)
           R == EnumInstances(db, row.rhs.class)
<1>1. \A l, r : Holds(row, l, r)
  BY DEF Holds
<1>2. ASSUME NEW l \in L PROVE Associators(db, l, row.assoc, Garbage) = R
  <2>1. SourceSide(l, row) = row.lhs /\ TargetSide(l, row) = row.rhs /\ Matches(l.class, row.lhs)
    BY LeftSide
  <2>2. Associators(db, l, row.assoc, Garbage) =
          {r \in R : row.lhs.key # NoKey => Called(row.lhs, l) # NoName
                                            /\ Called(row.rhs, r) = Called(row.lhs, l)}
    BY <2>1, Answer
  <2>. QED  BY <2>2
<1>3. ASSUME NEW r \in R, row.lhs.class # row.rhs.class
      PROVE  Associators(db, r, row.assoc, Garbage) = L
  <2>1. SourceSide(r, row) = row.rhs /\ TargetSide(r, row) = row.lhs /\ Matches(r.class, row.rhs)
    BY <1>3, RightSide
  <2>2. Associators(db, r, row.assoc, Garbage) =
          {l \in L : row.rhs.key # NoKey => Called(row.rhs, r) # NoName
                                            /\ Called(row.lhs, l) = Called(row.rhs, r)}
    BY <2>1, Answer
  <2>. QED  BY <2>2
<1>4. ASSUME NEW r \in R, Referred(row, r)
      PROVE  ReferencesRoutine(db, r, row.assoc, Garbage) = {Reference(row.assoc, l, r) : l \in L}
  <2>1. r.class = row.rhs.class
    BY <1>4 DEF Referred
  <2>. QED  BY <2>1, Reply
<1> HIDE DEF L, R
<1>. QED  BY <1>1, <1>2, <1>3, <1>4 DEF RowTrue, L, R

\* Two instances have a name in common if and only if they are related.
Agree(row) ==
  \A l \in EnumInstances(db, row.lhs.class), r \in EnumInstances(db, row.rhs.class) :
     Holds(row, l, r) <=> Called(row.lhs, l) # NoName /\ Called(row.rhs, r) = Called(row.lhs, l)

\* Then an association with keys is true.
LEMMA KeyedTrue ==
  ASSUME NEW row \in Range(AssocTable), row.lhs.key # NoKey, row.rhs.key # NoKey, Separate(row),
         Told(row.lhs), Told(row.rhs), Below(row.lhs.class) = {row.lhs.class}, Agree(row)
  PROVE  RowTrue(row)
<1> DEFINE L == EnumInstances(db, row.lhs.class)
           R == EnumInstances(db, row.rhs.class)
<1>1. \A l \in L, r \in R : Holds(row, l, r) <=>
         Called(row.lhs, l) # NoName /\ Called(row.rhs, r) = Called(row.lhs, l)
  BY DEF Agree
<1>2. ASSUME NEW l \in L
      PROVE  Associators(db, l, row.assoc, Garbage) = {r \in R : Holds(row, l, r)}
  <2>1. SourceSide(l, row) = row.lhs /\ TargetSide(l, row) = row.rhs /\ Matches(l.class, row.lhs)
    BY LeftSide
  <2>2. row.lhs.key \in DOMAIN l.props => Called(row.lhs, l) # NoName
    BY DEF Told
  <2>3. Associators(db, l, row.assoc, Garbage) =
          {r \in R : row.lhs.key # NoKey => Called(row.lhs, l) # NoName
                                            /\ Called(row.rhs, r) = Called(row.lhs, l)}
    BY <2>1, <2>2, Answer
  <2>. QED  BY <1>1, <2>3
<1>3. ASSUME NEW r \in R, row.lhs.class # row.rhs.class
      PROVE  Associators(db, r, row.assoc, Garbage) = {l \in L : Holds(row, l, r)}
  <2>1. SourceSide(r, row) = row.rhs /\ TargetSide(r, row) = row.lhs /\ Matches(r.class, row.rhs)
    BY <1>3, RightSide
  <2>2. row.rhs.key \in DOMAIN r.props => Called(row.rhs, r) # NoName
    BY DEF Told
  <2>3. Associators(db, r, row.assoc, Garbage) =
          {l \in L : row.rhs.key # NoKey => Called(row.rhs, r) # NoName
                                            /\ Called(row.lhs, l) = Called(row.rhs, r)}
    BY <2>1, <2>2, Answer
  <2>. QED  BY <1>1, <2>3
<1>4. ASSUME NEW r \in R, Referred(row, r)
      PROVE  ReferencesRoutine(db, r, row.assoc, Garbage)
                = {Reference(row.assoc, l, r) : l \in {l \in L : Holds(row, l, r)}}
  <2>1. r.class = row.rhs.class /\ row.lhs.key = KeyProperty(row.lhs.class)
    BY <1>4 DEF Referred
  <2>2. row.rhs.key \in DOMAIN r.props => Called(row.rhs, r) # NoName
    BY DEF Told
  <2> DEFINE C == {l \in L : row.lhs.key # NoKey => Called(row.rhs, r) # NoName
                                            /\ Called(row.lhs, l) = Called(row.rhs, r)}
  <2>3. ReferencesRoutine(db, r, row.assoc, Garbage) = {Reference(row.assoc, l, r) : l \in C}
    BY <2>1, <2>2, Reply
  <2>4. C = {l \in L : Holds(row, l, r)}
    BY <1>1
  <2> HIDE DEF C
  <2>. QED  BY <2>3, <2>4
<1> HIDE DEF L, R
<1>. QED  BY <1>2, <1>3, <1>4 DEF RowTrue, L, R

\* Disks, drives, their settings and metrics.
LEMMA DiskInstance ==
  ASSUME NEW d, Settled(d), NEW class \in DiskClasses, NEW i \in EnumerateClass(d, class)
  PROVE  /\ i.obj \in DOMAIN d.vbd /\ DiskKey(class) \in DOMAIN i.props
         /\ i.props[DiskKey(class)] = NewDeviceInstanceID(d.vbd[i.obj].vm, i.obj)
<1>1. PICK r : ReadFor(d, class, i, r)
  BY DiskClassesServed, InstanceRead
<1>2. /\ r \in DiskNext(d, class, Named(r)) /\ i.props \in DiskProperties(d, class, r)
      /\ i.obj = r.obj
  BY <1>1, DiskClassesServed DEF ReadFor
<1>3. i.obj \in DOMAIN d.vbd /\ r.rec = d.vbd[i.obj]
  BY <1>2 DEF DiskNext, ReadAs, Read, Resource, Named, Entry
<1>4. CASE class \in {"Xen_Disk", "Xen_DiskDrive"}
  <2>1. i.props = DiskDevice(r.rec.vm, r.obj)
    BY <1>2, <1>4, Zenon DEF DiskProperties
  <2>. QED  BY <1>2, <1>3, <1>4, <2>1 DEF DiskKey, DiskDevice
<1>5. CASE class = "Xen_DiskSettingData"
  <2>1. i.props = DiskSettingData(r.rec.vm, r.obj)
    BY <1>2, <1>5, Zenon DEF DiskProperties
  <2>. QED  BY <1>2, <1>3, <1>5, <2>1 DEF DiskKey, DiskSettingData
<1>6. CASE class \notin {"Xen_Disk", "Xen_DiskDrive", "Xen_DiskSettingData"}
  <2>1. i.props = DiskMetric(r.rec.vm, r.obj)
    BY <1>2, <1>6, Zenon DEF DiskProperties
  <2>. QED  BY <1>2, <1>3, <1>6, <2>1 DEF DiskKey, DiskMetric
<1>. QED  BY <1>4, <1>5, <1>6

\* Virtual processors.
LEMMA ProcessorInstance ==
  ASSUME NEW d, Settled(d), NEW class \in ProcessorClasses, NEW i \in EnumerateClass(d, class)
  PROVE  /\ i.obj \in DOMAIN d.vm /\ i.of \in Plain /\ "DeviceID" \in DOMAIN i.props
         /\ i.props.DeviceID = NewDeviceInstanceID(i.obj, i.of)
<1>1. PICK r : ReadFor(d, class, i, r)
  BY ProcessorClassesServed, InstanceRead
<1>2. /\ i.props \in ProcessorProperties(d, r) /\ i.obj = r.obj /\ i.of = r.of
      /\ ListEnum(d, class) = {} /\ WalkRefs(d, class) = DOMAIN d.vm
      /\ \A x, ok : ListWalk(d, class, x, ok) = ProcessorWalk(d, x)
  BY <1>1, ProcessorClassesServed DEF ReadFor
<1>3. PICK v \in DOMAIN d.vm : Named(r) \in ProcessorWalk(d, v)
  BY <1>1, <1>2 DEF ReadFor, AllEntries
<1>4. i.obj = v /\ i.of \in VcpuNames(d.vm[v].vcpus)
  BY <1>2, <1>3 DEF ProcessorWalk, Named, Entry
<1>5. VcpuNames(d.vm[v].vcpus) \subseteq VcpuNames(MaxVcpus)
  <2>1. d.vm[v].vcpus \in 0..MaxVcpus
    BY DEF Settled, VmRecord
  <2>2. 0..(d.vm[v].vcpus - 1) \subseteq 0..(MaxVcpus - 1)
    BY <2>1 DEF MaxVcpus
  <2>. QED  BY <2>2 DEF VcpuNames
<1>. QED  BY <1>2, <1>4, <1>5, PlainNames DEF ProcessorProperties

\* Ports and endpoints.
LEMMA NetworkPortInstance ==
  ASSUME NEW d, Settled(d), NEW class \in NetworkPortClasses, NEW i \in EnumerateClass(d, class)
  PROVE  /\ i.obj \in DOMAIN d.vif /\ NetworkPortKey(class) \in DOMAIN i.props
         /\ i.props[NetworkPortKey(class)] =
              IF class \in LANEndpoints THEN i.obj
              ELSE IF class = "Xen_VirtualSwitchPort"
                THEN NewDeviceInstanceID(d.vif[i.obj].net, i.obj)
                ELSE NewDeviceInstanceID(d.vif[i.obj].vm, i.obj)
<1>1. PICK r : ReadFor(d, class, i, r)
  BY NetworkPortClassesServed, InstanceRead
<1>2. /\ r \in NetworkPortNext(d, Named(r)) /\ i.props \in NetworkPortProperties(d, class, r)
      /\ i.obj = r.obj
  BY <1>1, NetworkPortClassesServed DEF ReadFor
<1>3. i.obj \in DOMAIN d.vif /\ r.rec = d.vif[i.obj]
  BY <1>2 DEF NetworkPortNext, ReadAs, Read, Resource, Named, Entry
<1>4. r.rec.vm \in DOMAIN d.vm /\ r.rec.net \in d.net
  BY <1>3, TablesAssumption DEF Settled
<1>5. CASE class \in LANEndpoints
  <2>1. class \notin {"Xen_NetworkPort", "Xen_VirtualSwitchPort"}
    BY <1>5 DEF LANEndpoints
  <2>2. NetworkPortKey(class) = "Name"
    BY <1>5, <2>1, Zenon DEF NetworkPortKey
  <2>3. i.props = LANEndpoint(d, class, r)
    BY <1>2, <1>5, <2>1, Zenon DEF NetworkPortProperties, LANEndpoints, NetworkMetrics
  <2>. QED  BY <1>2, <1>3, <1>5, <2>2, <2>3 DEF LANEndpoint
<1>6. CASE class \in {"Xen_NetworkPort", "Xen_VirtualSwitchPort"}
  <2>0. NetworkPortKey(class) = "DeviceID"
    BY <1>6, Zenon DEF NetworkPortKey, LANEndpoints
  <2>1. i.props = PortDevice(d, class, r) /\ class \notin LANEndpoints
    BY <1>2, <1>6, <2>0, Zenon DEF NetworkPortProperties, LANEndpoints, NetworkMetrics
  <2>2. CASE class = "Xen_NetworkPort"
    <3>1. i.props = [DeviceID |-> NewDeviceInstanceID(r.rec.vm, r.obj), SystemName |-> r.rec.vm]
      BY <1>4, <2>1, <2>2, Zenon DEF PortDevice
    <3>. QED  BY <1>2, <1>3, <2>0, <2>1, <2>2, <3>1
  <2>3. CASE class = "Xen_VirtualSwitchPort"
    <3>1. i.props = [DeviceID |-> NewDeviceInstanceID(r.rec.net, r.obj), SystemName |-> r.rec.net]
      BY <1>4, <2>1, <2>3, Zenon DEF PortDevice
    <3>. QED  BY <1>2, <1>3, <2>0, <2>1, <2>3, <3>1
  <2>. QED  BY <1>6, <2>2, <2>3
<1>7. CASE class \notin LANEndpoints \cup {"Xen_NetworkPort", "Xen_VirtualSwitchPort"}
  <2>0. NetworkPortKey(class) = "InstanceID"
    BY <1>7, Zenon DEF NetworkPortKey
  <2>1. CASE class \in NetworkMetrics
    <3>1. i.props = NetworkMetric(d, r)
      BY <1>2, <1>7, <2>1, Zenon DEF NetworkPortProperties
    <3>. QED  BY <1>2, <1>3, <1>4, <1>7, <2>0, <3>1 DEF NetworkMetric
  <2>2. CASE class \notin NetworkMetrics
    <3>1. i.props = NetworkPortSettingData(d, r)
      BY <1>2, <1>7, <2>2, Zenon DEF NetworkPortProperties
    <3>. QED  BY <1>2, <1>3, <1>4, <1>7, <2>0, <3>1 DEF NetworkPortSettingData
  <2>. QED  BY <2>1, <2>2
<1>. QED  BY <1>5, <1>6, <1>7

\* Consoles.
LEMMA ConsoleInstance ==
  ASSUME NEW d, Settled(d), NEW class \in ConsoleClasses, NEW i \in EnumerateClass(d, class)
  PROVE  /\ i.obj \in DOMAIN d.con /\ ConsoleKey(class) \in DOMAIN i.props
         /\ i.props[ConsoleKey(class)] = NewDeviceInstanceID(d.con[i.obj].vm, i.obj)
<1>1. PICK r : ReadFor(d, class, i, r)
  BY ConsoleClassesServed, InstanceRead
<1>2. /\ r \in ConsoleNext(d, Named(r)) /\ i.props \in ConsoleProperties(d, class, r)
      /\ i.obj = r.obj
  BY <1>1, ConsoleClassesServed DEF ReadFor
<1>3. i.obj \in DOMAIN d.con /\ r.rec = d.con[i.obj]
  BY <1>2 DEF ConsoleNext, ReadAs, Read, Resource, Named, Entry
<1>4. r.rec.vm \in DOMAIN d.vm
  BY <1>3 DEF Settled
<1>. QED  BY <1>2, <1>3, <1>4 DEF ConsoleProperties, ConsoleKey, ConsoleSettingData

\* Machines and what belongs to each one of them.
LEMMA ComputerSystemInstance ==
  ASSUME NEW d, Settled(d), NEW class \in ComputerSystemClasses, NEW i \in EnumerateClass(d, class)
  PROVE  /\ i.obj \in DOMAIN d.vm /\ ComputerSystemKey(class) \in DOMAIN i.props
         /\ i.props[ComputerSystemKey(class)] =
              IF class = "Xen_ComputerSystem" THEN i.obj
              ELSE IF class \in {"Xen_Memory", "Xen_MemorySettingData"}
                THEN NewDeviceInstanceID(i.obj, <<"Memory">>)
              ELSE IF class = "Xen_ProcessorSettingData"
                THEN NewDeviceInstanceID(i.obj, <<"Processor">>)
                ELSE NewSystemInstanceID(i.obj)
         /\ class = "Xen_ComputerSystem" =>
              /\ ("Host" \in DOMAIN i.props) = (d.vm[i.obj].host \in d.host)
              /\ "Host" \in DOMAIN i.props => i.props.Host = d.vm[i.obj].host
<1>1. PICK r : ReadFor(d, class, i, r)
  BY ComputerSystemClassesServed, InstanceRead
<1>2. /\ r \in ComputerSystemNext(d, class, Named(r)) /\ i.obj = r.obj
      /\ i.props \in ComputerSystemProperties(d, class, r)
  BY <1>1, ComputerSystemClassesServed DEF ReadFor
<1>3. i.obj \in DOMAIN d.vm /\ r.rec = d.vm[i.obj]
  BY <1>2 DEF ComputerSystemNext, ReadAs, Read, Resource, Named, Entry
<1>4. CASE class = "Xen_ComputerSystem"
  <2>1. ComputerSystemKey(class) = "Name" /\ i.props = ComputerSystem(d, r)
    BY <1>2, <1>4, Zenon DEF ComputerSystemKey, ComputerSystemProperties, SystemSettings
  <2>. QED  BY <1>2, <1>3, <1>4, <2>1 DEF ComputerSystem
<1>5. CASE class = "Xen_ComputerSystemCapabilities"
  <2>1. ComputerSystemKey(class) = "InstanceID" /\ i.props = ComputerSystemCapabilities(r)
    BY <1>2, <1>5, Zenon DEF ComputerSystemKey, ComputerSystemProperties, SystemSettings
  <2>. QED  BY <1>2, <1>3, <1>5, <2>1 DEF ComputerSystemCapabilities
<1>6. CASE class \in SystemSettings
  <2>1. ComputerSystemKey(class) = "InstanceID" /\ i.props = VirtualSystemSettingData(r)
    BY <1>2, <1>6, Zenon DEF ComputerSystemKey, ComputerSystemProperties, SystemSettings
  <2>2. class \notin {"Xen_ComputerSystem", "Xen_Memory", "Xen_MemorySettingData",
                      "Xen_ProcessorSettingData"}
    BY <1>6 DEF SystemSettings
  <2>. QED  BY <1>2, <1>3, <2>1, <2>2 DEF VirtualSystemSettingData
<1>7. CASE class = "Xen_Memory"
  <2>1. ComputerSystemKey(class) = "DeviceID" /\ i.props = Memory(r)
    BY <1>2, <1>7, Zenon DEF ComputerSystemKey, ComputerSystemProperties, SystemSettings
  <2>. QED  BY <1>2, <1>3, <1>7, <2>1 DEF Memory
<1>8. CASE class = "Xen_MemorySettingData"
  <2>1. ComputerSystemKey(class) = "InstanceID" /\ i.props = MemorySettingData(r)
    BY <1>2, <1>8, Zenon DEF ComputerSystemKey, ComputerSystemProperties, SystemSettings
  <2>. QED  BY <1>2, <1>3, <1>8, <2>1 DEF MemorySettingData
<1>9. CASE class = "Xen_ProcessorSettingData"
  <2>1. ComputerSystemKey(class) = "InstanceID" /\ i.props = ProcessorSettingData(r)
    BY <1>2, <1>9, Zenon DEF ComputerSystemKey, ComputerSystemProperties, SystemSettings
  <2>. QED  BY <1>2, <1>3, <1>9, <2>1 DEF ProcessorSettingData
<1>. QED  BY <1>4, <1>5, <1>6, <1>7, <1>8, <1>9 DEF ComputerSystemClasses, MachineSettings

\* Hosts and what belongs to each one of them.
LEMMA HostInstance ==
  ASSUME NEW d, Settled(d), NEW class \in HostClasses, NEW i \in EnumerateClass(d, class)
  PROVE  /\ i.obj \in d.host /\ HostKey(class) \in DOMAIN i.props
         /\ IF class = "Xen_HostComputerSystem" THEN i.props[HostKey(class)] = i.obj
            ELSE \/ i.props[HostKey(class)] = NewSystemInstanceID(i.obj)
                 \/ \E w \in Words : i.props[HostKey(class)] = NewDeviceInstanceID(i.obj, <<w>>)
<1>1. PICK r : ReadFor(d, class, i, r)
  BY HostClassesServed, InstanceRead
<1>2. r \in HostNext(d, Named(r)) /\ i.props \in HostProperties(class, r) /\ i.obj = r.obj
  BY <1>1, HostClassesServed DEF ReadFor
<1>3. i.obj \in d.host
  BY <1>2 DEF HostNext, ReadName, Resource, Named, Entry
<1>0. /\ "Memory" \in Words /\ "ProcessorPool" \in Words /\ "MemoryPool" \in Words
      /\ "ProcessorAllocationCapabilities" \in Words
  BY DEF Words
<1>4. CASE class = "Xen_HostComputerSystem"
  <2>1. HostKey(class) = "Name" /\ i.props = HostSystem(r.obj)
    BY <1>2, <1>4, Zenon DEF HostKey, HostProperties
  <2>. QED  BY <1>2, <1>3, <1>4, <2>1 DEF HostSystem
<1>5. CASE class = "Xen_HostMemory"
  <2>1. HostKey(class) = "DeviceID" /\ i.props = HostMemory(r.obj)
    BY <1>2, <1>5, Zenon DEF HostKey, HostProperties
  <2>. QED  BY <1>0, <1>2, <1>3, <1>5, <2>1 DEF HostMemory
<1>6. CASE class = "Xen_ProcessorPool"
  <2>1. HostKey(class) = "InstanceID" /\ i.props = ProcessorPool(r.obj)
    BY <1>2, <1>6, Zenon DEF HostKey, HostProperties
  <2>. QED  BY <1>0, <1>2, <1>3, <1>6, <2>1 DEF ProcessorPool
<1>7. CASE class = "Xen_ProcessorAllocationCapabilities"
  <2>1. HostKey(class) = "InstanceID" /\ i.props = ProcessorAllocationCapabilities(r.obj)
    BY <1>2, <1>7, Zenon DEF HostKey, HostProperties
  <2>. QED  BY <1>0, <1>2, <1>3, <1>7, <2>1 DEF ProcessorAllocationCapabilities
<1>8. CASE class = "Xen_HostComputerSystemCapabilities"
  <2>1. HostKey(class) = "InstanceID" /\ i.props = HostCapabilities(r.obj)
    BY <1>2, <1>8, Zenon DEF HostKey, HostProperties
  <2>. QED  BY <1>2, <1>3, <1>8, <2>1 DEF HostCapabilities
<1>9. CASE class \notin {"Xen_HostComputerSystem", "Xen_HostMemory", "Xen_ProcessorPool",
                         "Xen_ProcessorAllocationCapabilities",
                         "Xen_HostComputerSystemCapabilities"}
  <2>1. HostKey(class) = "InstanceID" /\ i.props = MemoryPool(r.obj)
    BY <1>2, <1>9, Zenon DEF HostKey, HostProperties
  <2>. QED  BY <1>0, <1>2, <1>3, <1>9, <2>1 DEF MemoryPool
<1>. QED  BY <1>4, <1>5, <1>6, <1>7, <1>8, <1>9

\* Processors of hosts, as long as the host is there.
LEMMA HostProcessorInstance ==
  ASSUME NEW d, Settled(d), NEW class \in HostProcessorClasses, NEW i \in EnumerateClass(d, class),
         i.props # Crash
  PROVE  /\ i.obj \in DOMAIN d.cpu /\ "DeviceID" \in DOMAIN i.props
         /\ i.props.DeviceID = NewDeviceInstanceID(d.cpu[i.obj].host, i.obj)
<1>1. PICK r : ReadFor(d, class, i, r)
  BY HostProcessorClassesServed, InstanceRead
<1>2. /\ r \in HostProcessorNext(d, Named(r)) /\ i.props \in HostProcessorProperties(d, r)
      /\ i.obj = r.obj
  BY <1>1, HostProcessorClassesServed DEF ReadFor
<1>3. i.obj \in DOMAIN d.cpu /\ r.rec = d.cpu[i.obj]
  BY <1>2 DEF HostProcessorNext, ReadAs, Read, Resource, Named, Entry
<1>. QED  BY <1>2, <1>3 DEF HostProcessorProperties, OfHost

\* The metrics of the ports of hosts, which have no key once the host has gone.
LEMMA HostPortMetricInstance ==
  ASSUME NEW d, Settled(d), NEW class \in HostNetworkMetrics, NEW i \in EnumerateClass(d, class)
  PROVE  /\ i.obj \in DOMAIN d.pif
         /\ "InstanceID" \in DOMAIN i.props =>
              \E h \in Pool.host : i.props.InstanceID = NewDeviceInstanceID(h, i.obj)
<1>0. class \in HostNetworkPortClasses
  BY DEF HostNetworkPortClasses
<1>1. PICK r : ReadFor(d, class, i, r)
  BY <1>0, HostNetworkPortClassesServed, InstanceRead
<1>2. /\ r \in HostNetworkPortNext(d, Named(r)) /\ i.obj = r.obj
      /\ i.props \in HostNetworkPortProperties(d, class, r)
  BY <1>0, <1>1, HostNetworkPortClassesServed DEF ReadFor
<1>3. i.obj \in DOMAIN d.pif /\ r.rec = d.pif[i.obj]
  BY <1>2 DEF HostNetworkPortNext, ReadAs, Read, Resource, Named, Entry
<1>4. i.props = HostPortMetric(d, r)
  <2>1. class \notin {"Xen_HostNetworkPort", "Xen_HostNetworkPortSettingData"}
    BY DEF HostNetworkMetrics
  <2>. QED  BY <1>2, <2>1, Zenon DEF HostNetworkPortProperties
<1>5. r.rec.host \in Pool.host
  BY <1>3 DEF Settled, PifRecord
<1>. QED  BY <1>2, <1>3, <1>4, <1>5 DEF HostPortMetric, NoProperties

\* Networks and what belongs to each one of them.
LEMMA VirtualSwitchInstance ==
  ASSUME NEW d, Settled(d), NEW class \in {"Xen_VirtualSwitch",
           "Xen_NetworkConnectionAllocationCapabilities"}, NEW i \in EnumerateClass(d, class)
  PROVE  /\ i.obj \in d.net /\ VirtualSwitchKey(class) \in DOMAIN i.props
         /\ i.props[VirtualSwitchKey(class)] =
              IF class = "Xen_VirtualSwitch" THEN i.obj
              ELSE NewDeviceInstanceID(i.obj, <<"NetworkConnectionAllocationCapabilities">>)
<1>0. class \in VirtualSwitchClasses
  BY DEF VirtualSwitchClasses
<1>1. PICK r : ReadFor(d, class, i, r)
  BY <1>0, VirtualSwitchClassesServed, InstanceRead
<1>2. /\ r \in VirtualSwitchNext(d, Named(r)) /\ i.props \in VirtualSwitchProperties(d, class, r)
      /\ i.obj = r.obj
  BY <1>0, <1>1, VirtualSwitchClassesServed DEF ReadFor
<1>3. i.obj \in d.net
  BY <1>2 DEF VirtualSwitchNext, ReadNetwork, Resource, Named, Entry
<1>4. CASE class = "Xen_VirtualSwitch"
  <2>1. VirtualSwitchKey(class) = "Name" /\ i.props = VirtualSwitch(r.obj)
    BY <1>2, <1>4, Zenon DEF VirtualSwitchKey, VirtualSwitchProperties
  <2>. QED  BY <1>2, <1>3, <1>4, <2>1 DEF VirtualSwitch
<1>5. CASE class = "Xen_NetworkConnectionAllocationCapabilities"
  <2>1. /\ VirtualSwitchKey(class) = "InstanceID"
        /\ i.props = ConnectionAllocationCapabilities(r.obj)
    BY <1>2, <1>5, Zenon DEF VirtualSwitchKey, VirtualSwitchProperties
  <2>. QED  BY <1>2, <1>3, <1>5, <2>1 DEF ConnectionAllocationCapabilities
<1>. QED  BY <1>4, <1>5

\* Pools of connections, as long as the host of the first port is there.
LEMMA ConnectionPoolInstance ==
  ASSUME NEW d, Settled(d), NEW i \in EnumerateClass(d, "Xen_NetworkConnectionPool"),
         i.props # Crash
  PROVE  /\ i.obj \in d.net /\ "InstanceID" \in DOMAIN i.props
         /\ \E s \in Name : i.props.InstanceID = NewDeviceInstanceID(s, i.obj)
<1> DEFINE class == "Xen_NetworkConnectionPool"
<1>0. class \in VirtualSwitchClasses
  BY DEF VirtualSwitchClasses
<1>1. PICK r : ReadFor(d, class, i, r)
  BY <1>0, VirtualSwitchClassesServed, InstanceRead
<1>2. /\ r \in VirtualSwitchNext(d, Named(r)) /\ i.props \in VirtualSwitchProperties(d, class, r)
      /\ i.obj = r.obj
  BY <1>0, <1>1, VirtualSwitchClassesServed DEF ReadFor
<1>3. i.obj \in d.net
  BY <1>2 DEF VirtualSwitchNext, ReadNetwork, Resource, Named, Entry
<1>4. i.props = NetworkConnectionPool(d, r)
  BY <1>2, Zenon DEF VirtualSwitchProperties
<1> DEFINE first == CHOOSE o \in r.rec.pifs : TRUE
           NamedAs(host) == [InstanceID |-> NewDeviceInstanceID(host, r.obj)]
<1>5. \A s : "InstanceID" \in DOMAIN NamedAs(s)
             /\ NamedAs(s).InstanceID = NewDeviceInstanceID(s, r.obj)
  OBVIOUS
<1>6. i.props = IF r.rec.pifs = {} \/ first \notin DOMAIN d.pif
                  THEN NamedAs(<<"NoHost">>)
                  ELSE OfHost(d, d.pif[first].host, NamedAs(d.pif[first].host))
  BY <1>4 DEF NetworkConnectionPool
<1>7. first \in DOMAIN d.pif => d.pif[first].host \in Name
  <2>1. first \in DOMAIN d.pif => d.pif[first].host \in Pool.host
    BY DEF Settled, PifRecord
  <2>. QED  BY <2>1, PlainNames DEF Plain
<1>8. <<"NoHost">> \in Name
  BY WordsPlain DEF Words
<1> HIDE DEF first, NamedAs
<1>. QED  BY <1>2, <1>3, <1>5, <1>6, <1>7, <1>8 DEF OfHost

\* Storage pools: the pool of the only host, or shared.
LEMMA StoragePoolInstance ==
  ASSUME NEW d, Settled(d), NEW i \in EnumerateClass(d, "Xen_StoragePool"), i.props # Crash
  PROVE  /\ i.obj \in DOMAIN d.sr /\ "InstanceID" \in DOMAIN i.props
         /\ \E s \in Name :
              /\ i.props.InstanceID = NewDeviceInstanceID(s, i.obj)
              /\ \/ d.sr[i.obj].hosts = {s} /\ s \in Pool.host
                 \/ s = <<"Shared">> /\ \A h : d.sr[i.obj].hosts # {h}
<1> DEFINE class == "Xen_StoragePool"
<1>0. class \in StoragePoolClasses
  BY DEF StoragePoolClasses
<1>1. PICK r : ReadFor(d, class, i, r)
  BY <1>0, StoragePoolClassesServed, InstanceRead
<1>2. /\ r \in StoragePoolNext(d, Named(r)) /\ i.props \in StoragePoolProperties(d, class, r)
      /\ i.obj = r.obj
  BY <1>0, <1>1, StoragePoolClassesServed DEF ReadFor
<1>3. i.obj \in DOMAIN d.sr /\ r.rec = d.sr[i.obj]
  BY <1>2 DEF StoragePoolNext, ReadAs, Read, Resource, Named, Entry
<1>4. i.props = StoragePool(d, r)
  BY <1>2, Zenon DEF StoragePoolProperties
<1> DEFINE host == StoragePoolHost(r)
           NamedAs == [InstanceID |-> NewDeviceInstanceID(host, r.obj)]
<1>5. "InstanceID" \in DOMAIN NamedAs /\ NamedAs.InstanceID = NewDeviceInstanceID(host, r.obj)
  OBVIOUS
<1>6. i.props = IF host = <<"Shared">> THEN NamedAs
                ELSE IF r.obj \in DOMAIN d.sr /\ host \in d.sr[r.obj].hosts
                       THEN OfHost(d, host, NamedAs)
                       ELSE [InstanceID |-> <<"garbage">>]
  BY <1>4 DEF StoragePool
<1>7. r.rec.hosts \subseteq Pool.host /\ IsFiniteSet(r.rec.hosts)
  <2>1. r.rec.hosts \subseteq Pool.host
    BY <1>3 DEF Settled, SrRecord
  <2>. QED  BY <2>1, UuidsAssumption, FS_Subset
<1>8. <<"Shared">> \in Name
  BY WordsPlain DEF Words
<1>9. CASE Cardinality(r.rec.hosts) = 1
  <2>1. PICK h : r.rec.hosts = {h}
    BY <1>7, <1>9, FS_Singleton
  <2>2. host = h /\ h \in Pool.host
    BY <1>7, <1>9, <2>1 DEF StoragePoolHost
  <2>3. h \in Name /\ h # <<"Shared">>
    <3>1. "Shared" \in Words /\ h \in Uuids
      BY <2>2 DEF Words, Uuids
    <3>. QED  BY <2>2, <3>1, PlainNames, UuidsAssumption DEF Plain
  <2> HIDE DEF host, NamedAs
  <2>4. i.props = NamedAs
    BY <1>2, <1>3, <1>6, <2>1, <2>2, <2>3 DEF OfHost
  <2>. QED  BY <1>2, <1>3, <1>5, <2>1, <2>2, <2>3, <2>4
<1>10. CASE Cardinality(r.rec.hosts) # 1
  <2>1. host = <<"Shared">>
    BY <1>10 DEF StoragePoolHost
  <2>2. \A h : r.rec.hosts # {h}
    BY <1>7, <1>10, FS_Singleton
  <2> HIDE DEF host, NamedAs
  <2>. QED  BY <1>2, <1>3, <1>5, <1>6, <1>8, <2>1, <2>2
<1>. QED  BY <1>9, <1>10

\* Their capabilities.
LEMMA StorageCapabilitiesInstance ==
  ASSUME NEW d, Settled(d), NEW i \in EnumerateClass(d, "Xen_StorageAllocationCapabilities")
  PROVE  /\ i.obj \in DOMAIN d.sr /\ "InstanceID" \in DOMAIN i.props
         /\ i.props.InstanceID = NewDeviceInstanceID(i.obj, <<"StorageAllocationCapabilities">>)
<1> DEFINE class == "Xen_StorageAllocationCapabilities"
<1>0. class \in StoragePoolClasses
  BY DEF StoragePoolClasses
<1>1. PICK r : ReadFor(d, class, i, r)
  BY <1>0, StoragePoolClassesServed, InstanceRead
<1>2. /\ r \in StoragePoolNext(d, Named(r)) /\ i.props \in StoragePoolProperties(d, class, r)
      /\ i.obj = r.obj
  BY <1>0, <1>1, StoragePoolClassesServed DEF ReadFor
<1>3. i.obj \in DOMAIN d.sr
  BY <1>2 DEF StoragePoolNext, ReadAs, Read, Resource, Named, Entry
<1>4. i.props = StorageAllocationCapabilities(r)
  BY <1>2, Zenon DEF StoragePoolProperties
<1>. QED  BY <1>2, <1>3, <1>4 DEF StorageAllocationCapabilities

\* Disk images.
LEMMA DiskImageInstance ==
  ASSUME NEW d, Settled(d), NEW class \in DiskImageClasses, NEW i \in EnumerateClass(d, class)
  PROVE  /\ i.obj \in DOMAIN d.vdi /\ d.vdi[i.obj].sr \in DOMAIN d.sr
         /\ "DeviceID" \in DOMAIN i.props
         /\ i.props.DeviceID = NewDeviceInstanceID(d.vdi[i.obj].sr, i.obj)
<1>1. PICK r : ReadFor(d, class, i, r)
  BY DiskImageClassesServed, InstanceRead
<1>2. /\ r \in DiskImageNext(d, Named(r)) /\ i.props \in DiskImageProperties(d, r)
      /\ i.obj = r.obj
  BY <1>1, DiskImageClassesServed DEF ReadFor
<1>3. i.obj \in DOMAIN d.vdi /\ r.rec = d.vdi[i.obj]
  BY <1>2 DEF DiskImageNext, ReadAs, Read, Resource, Named, Entry
<1>. QED  BY <1>2, <1>3 DEF DiskImageProperties

\* The settings that describe capabilities.
LEMMA CapabilitiesInstance ==
  ASSUME NEW d, Settled(d), NEW class \in CapabilitiesSettings, NEW i \in EnumerateClass(d, class)
  PROVE  /\ i.obj \in SettingOwners(d, class) /\ i.of \in SettingNames(class)
         /\ "InstanceID" \in DOMAIN i.props
         /\ i.props.InstanceID = NewDeviceInstanceID(i.obj, i.of)
<1>1. PICK r : ReadFor(d, class, i, r)
  BY CapabilitiesSettingsServed, InstanceRead
<1>2. /\ i.props \in CapabilitiesProperties(r) /\ i.obj = r.obj /\ i.of = r.of
      /\ Named(r) \in CapabilitiesList(d, class)
  <2>1. Named(r) \in ListEnum(d, class)
    <3>1. \A x, ok : ListWalk(d, class, x, ok) = {}
      BY CapabilitiesSettingsServed
    <3>. QED  BY <1>1, <3>1 DEF ReadFor, AllEntries
  <2>. QED  BY <1>1, <2>1, CapabilitiesSettingsServed DEF ReadFor
<1>3. PICK o \in SettingOwners(d, class), n \in SettingNames(class) : Named(r) = Entry(o, n)
  BY <1>2 DEF CapabilitiesList
<1>4. r.obj = o /\ r.of = n
  BY <1>3 DEF Named, Entry
<1>. QED  BY <1>2, <1>3, <1>4 DEF CapabilitiesProperties

\* The classes of the table that have subclasses, and those.
Tops == {"Xen_VirtualSystemSettingData", "Xen_DiskMetricValue", "Xen_NetworkPortMetricValue",
         "Xen_HostProcessorMetricValue", "Xen_ProcessorMetricValue"}
Subs == SystemSettings \cup DiskMetrics \cup NetworkMetrics \cup HostNetworkMetrics
          \cup {"Xen_HostProcessorUtilization", "Xen_ProcessorUtilization"}

\* Every other class stands for itself.
LEMMA Single ==
  ASSUME NEW class, class \notin Tops
  PROVE  Below(class) = {class}
  BY Zenon DEF Tops, Below

\* The classes below one that has subclasses.
LEMMA BelowTops ==
  ASSUME NEW class \in Tops
  PROVE  Below(class) \subseteq {class} \cup Subs
<1>1. CASE class = "Xen_VirtualSystemSettingData"
  BY <1>1, Zenon DEF Below, Subs
<1>2. CASE class = "Xen_DiskMetricValue"
  BY <1>2, Zenon DEF Below, Subs
<1>3. CASE class = "Xen_NetworkPortMetricValue"
  BY <1>3, Zenon DEF Below, Subs
<1>4. CASE class = "Xen_HostProcessorMetricValue"
  BY <1>4, Zenon DEF Below, Subs
<1>5. CASE class = "Xen_ProcessorMetricValue"
  BY <1>5, Zenon DEF Below, Subs
<1>. QED  BY <1>1, <1>2, <1>3, <1>4, <1>5 DEF Tops

\* The class on the left of a row has no subclasses and is none of the one on the right.
Flat(row) == row.lhs.class \notin Tops /\ (row.rhs.class \in Tops => row.lhs.class \notin Subs)

\* Such a row tells its sides apart.
LEMMA FlatSeparate ==
  ASSUME NEW row, Flat(row)
  PROVE  Separate(row) /\ Below(row.lhs.class) = {row.lhs.class}
<1>1. Below(row.lhs.class) = {row.lhs.class}
  BY Single DEF Flat
<1>2. ASSUME NEW c \in Below(row.rhs.class), row.lhs.class # row.rhs.class
      PROVE  c # row.lhs.class /\ row.lhs.class \notin Below(c)
  <2>1. CASE row.rhs.class \notin Tops
    <3>1. c = row.rhs.class /\ Below(c) = {c}
      BY <1>2, <2>1, Single
    <3>. QED  BY <1>2, <3>1
  <2>2. CASE row.rhs.class \in Tops
    <3>1. row.lhs.class \notin {row.rhs.class} \cup Subs /\ c \in {row.rhs.class} \cup Subs
      BY <1>2, <2>2, BelowTops DEF Flat
    <3>2. CASE c = row.rhs.class
      BY <2>2, <3>1, <3>2, BelowTops
    <3>3. CASE c \in Subs
      <4>1. c \notin Tops
        BY <3>3 DEF Subs, Tops, SystemSettings, DiskMetrics, NetworkMetrics, HostNetworkMetrics
      <4>2. Below(c) = {c}
        BY <4>1, Single
      <4>. QED  BY <3>1, <3>3, <4>2
    <3>. QED  BY <3>1, <3>2, <3>3
  <2>. QED  BY <2>1, <2>2
<1>. QED  BY <1>1, <1>2 DEF Separate

\* The instances of such a class are those of its provider.
LEMMA SingleInstances ==
  ASSUME NEW d, NEW class \in Served, class \notin Tops
  PROVE  EnumInstances(d, class) = EnumerateClass(d, class)
<1>1. Below(class) = {class}
  BY Single
<1>2. class \notin Profiles
  BY DEF Profiles, Served, DiskClasses, DiskMetrics, MemoryStateClasses,
        ProcessorClasses, NetworkPortClasses, LANEndpoints, NetworkMetrics, ConsoleClasses,
        KVPClasses, ComputerSystemClasses, SystemSettings, MachineSettings, HostClasses,
        HostMetrics, HostProcessorClasses, HostNetworkPortClasses, HostNetworkMetrics,
        VirtualSwitchClasses, StoragePoolClasses, DiskImageClasses, HostPoolClasses,
        CapabilitiesSettings, ServiceClasses, Services, ServiceCapabilities,
        MetricServiceClasses, VirtualizationCapabilities
<1>3. Below(class) \cap Profiles = {} /\ Below(class) \cap Served = {class}
  BY <1>1, <1>2
<1>. QED  BY <1>3 DEF EnumInstances

\* And those of a class with subclasses, none of which is a profile.
LEMMA TopInstances ==
  ASSUME NEW d, NEW class \in Tops, NEW i \in EnumInstances(d, class)
  PROVE  \E c \in Below(class) \ Tops : c \in Served /\ i \in EnumerateClass(d, c)
<1>1. ({class} \cup Subs) \cap Profiles = {}
  BY DEF Tops, Subs, Profiles, SystemSettings, DiskMetrics, NetworkMetrics, HostNetworkMetrics
<1>2. Below(class) \cap Profiles = {}
  BY <1>1, BelowTops
<1>3. PICK c \in Below(class) \cap Served : i \in EnumerateClass(d, c)
  BY <1>2 DEF EnumInstances
<1>4. c \notin Tops
  BY <1>3 DEF Tops, Served, DiskClasses, DiskMetrics, MemoryStateClasses,
        ProcessorClasses, NetworkPortClasses, LANEndpoints, NetworkMetrics, ConsoleClasses,
        KVPClasses, ComputerSystemClasses, SystemSettings, MachineSettings, HostClasses,
        HostMetrics, HostProcessorClasses, HostNetworkPortClasses, HostNetworkMetrics,
        VirtualSwitchClasses, StoragePoolClasses, DiskImageClasses, HostPoolClasses,
        CapabilitiesSettings, ServiceClasses, Services, ServiceCapabilities,
        MetricServiceClasses, VirtualizationCapabilities
<1>. QED  BY <1>3, <1>4

-----------------------------------------------------------------------------
\* An instance is called, on a side, by the name of its object.
ByObj(side) ==
  \A i \in EnumInstances(db, side.class) : i.obj \in Uuids /\ Called(side, i) = i.obj

\* Or by the name of what it is a part of.
ByOwner(side) ==
  \A i \in EnumInstances(db, side.class) : Whereof(i) \in Uuids /\ Called(side, i) = Whereof(i)

\* The name of the system in an identifier.
LEMMA CalledSystem ==
  ASSUME NEW side, NEW i, side.how = "system", side.key \in DOMAIN i.props
  PROVE  Called(side, i) = SystemNameFromID(i.props[side.key])
  BY DEF Called, Extract

\* The name of the device in an identifier.
LEMMA CalledDevice ==
  ASSUME NEW side, NEW i, side.how = "device", side.key \in DOMAIN i.props
  PROVE  Called(side, i) = DeviceNameFromID(i.props[side.key])
  BY DEF Called, Extract

\* A name that is no identifier.
LEMMA CalledPlain ==
  ASSUME NEW side, NEW i, side.how = "plain", side.key \in DOMAIN i.props
  PROVE  Called(side, i) = i.props[side.key]
  BY DEF Called, Extract, PlainName

\* Plain names of objects.
LEMMA UuidsPlain ==
  ASSUME NEW o \in Uuids
  PROVE  o \in Plain /\ o \in Name /\ o # NoName
  BY NamesAssumption, UuidsAssumption DEF Plain

\* Objects of the pool, and what they refer to, have names that are told apart.
LEMMA SettledUuids ==
  ASSUME NEW d, Settled(d)
  PROVE  /\ DOMAIN d.vm \subseteq Uuids /\ DOMAIN d.vbd \subseteq Uuids
         /\ DOMAIN d.vif \subseteq Uuids /\ DOMAIN d.con \subseteq Uuids
         /\ DOMAIN d.vdi \subseteq Uuids /\ DOMAIN d.sr \subseteq Uuids
         /\ DOMAIN d.pif \subseteq Uuids /\ DOMAIN d.cpu \subseteq Uuids
         /\ d.net \subseteq Uuids /\ d.host \subseteq Uuids /\ Pool.host \subseteq Uuids
         /\ \A o \in DOMAIN d.vif : d.vif[o].net \in Uuids
         /\ \A o \in DOMAIN d.cpu : d.cpu[o].host \in Uuids
<1>1. \A S \in {DOMAIN Pool.vm, DOMAIN Pool.vbd, DOMAIN Pool.vif, DOMAIN Pool.con,
                DOMAIN Pool.vdi, DOMAIN Pool.sr, DOMAIN Pool.pif, DOMAIN Pool.cpu,
                Pool.net, Pool.host, Pool.pool} : S \subseteq Uuids
  BY DEF Uuids
<1>2. /\ \A o \in DOMAIN d.vif : d.vif[o].net \in Pool.net
      /\ \A o \in DOMAIN d.cpu : d.cpu[o].host \in Pool.host
  BY TablesAssumption DEF Settled
<1>. QED  BY <1>1, <1>2 DEF Settled

\* What is put into an identifier of uuids is taken out of it again.
LEMMA TakenOut ==
  ASSUME NEW s \in Name, NEW o \in Uuids, NEW w \in Words
  PROVE  /\ DeviceNameFromID(NewDeviceInstanceID(s, o)) = o
         /\ SystemNameFromID(NewDeviceInstanceID(s, o)) = s
         /\ SystemNameFromID(NewDeviceInstanceID(s, <<w>>)) = s
         /\ SystemNameFromID(NewSystemInstanceID(o)) = o
  BY UuidsPlain, WordsPlain, Taken

\* The sides of the table that name an object.
ObjectSide(side) ==
  \/ /\ side.key = "Name" /\ side.how = "plain"
     /\ side.class \in {"Xen_ComputerSystem", "Xen_HostComputerSystem", "Xen_VirtualSwitch",
                        "Xen_VirtualSwitchLANEndpoint", "Xen_ComputerSystemLANEndpoint"}
  \/ /\ side.key = "DeviceID" /\ side.how = "device"
     /\ side.class \in {"Xen_Disk", "Xen_DiskDrive", "Xen_NetworkPort", "Xen_VirtualSwitchPort"}
  \/ /\ side.key = "InstanceID" /\ side.how = "device"
     /\ side.class \in {"Xen_DiskSettingData", "Xen_NetworkPortSettingData", "Xen_StoragePool",
                        "Xen_NetworkConnectionPool", "Xen_DiskMetricValue"}
  \/ /\ side.key = "InstanceID" /\ side.how = "system"
     /\ side.class \in {"Xen_ComputerSystemSettingData", "Xen_VirtualSystemSettingData",
                        "Xen_ComputerSystemCapabilities", "Xen_MemoryPool", "Xen_ProcessorPool",
                        "Xen_MemoryAllocationCapabilities", "Xen_ProcessorAllocationCapabilities",
                        "Xen_StorageAllocationCapabilities",
                        "Xen_NetworkConnectionAllocationCapabilities"}
                       \cup CapabilitiesSettings

\* And those that name what the object is a part of.
OwnerSide(side) ==
  \/ /\ side.key = "DeviceID" /\ side.how = "system"
     /\ side.class \in {"Xen_Memory", "Xen_Disk", "Xen_DiskDrive", "Xen_NetworkPort",
                        "Xen_Processor", "Xen_Console", "Xen_HostMemory", "Xen_HostProcessor",
                        "Xen_VirtualSwitchPort", "Xen_DiskImage"}
  \/ /\ side.key = "InstanceID" /\ side.how = "system"
     /\ side.class \in {"Xen_MemorySettingData", "Xen_ProcessorSettingData",
                        "Xen_DiskSettingData", "Xen_NetworkPortSettingData",
                        "Xen_ConsoleSettingData"}

\* The instances of a class say so.
LEMMA ClassOf ==
  ASSUME NEW d, NEW class, NEW i \in EnumerateClass(d, class)
  PROVE  i.class = class
<1>1. \E r, p : i = Instance(class, r, p)
  BY DEF EnumerateClass
<1>. QED  BY <1>1 DEF Instance

\* The classes whose instances are parts of something else.
LEMMA Parts5 ==
  /\ DiskClasses \cap (NetworkPortClasses \cup ConsoleClasses \cup HostProcessorClasses
                          \cup DiskImageClasses) = {}
  /\ NetworkPortClasses \cap (ConsoleClasses \cup HostProcessorClasses
                                 \cup DiskImageClasses) = {}
  /\ ConsoleClasses \cap (HostProcessorClasses \cup DiskImageClasses) = {}
  /\ HostProcessorClasses \cap DiskImageClasses = {}
  /\ "Xen_VirtualSwitchPort" \in NetworkPortClasses
  BY DEF HostProcessorClasses, ConsoleClasses, NetworkPortClasses, LANEndpoints,
         NetworkMetrics, DiskClasses, DiskMetrics, DiskImageClasses

\* What those are parts of.
LEMMA WhereofPart ==
  ASSUME NEW i
  PROVE  /\ i.class \in DiskClasses => Whereof(i) = db.vbd[i.obj].vm
         /\ i.class = "Xen_VirtualSwitchPort" => Whereof(i) = db.vif[i.obj].net
         /\ i.class \in NetworkPortClasses \ {"Xen_VirtualSwitchPort"} =>
               Whereof(i) = db.vif[i.obj].vm
         /\ i.class \in ConsoleClasses => Whereof(i) = db.con[i.obj].vm
         /\ i.class \in HostProcessorClasses => Whereof(i) = db.cpu[i.obj].host
         /\ i.class \in DiskImageClasses => Whereof(i) = db.vdi[i.obj].sr
<1>1. CASE i.class \in DiskClasses
  <2>1. /\ i.class \notin NetworkPortClasses /\ i.class \notin ConsoleClasses
        /\ i.class \notin HostProcessorClasses /\ i.class \notin DiskImageClasses
        /\ i.class # "Xen_VirtualSwitchPort"
    BY <1>1, Parts5
  <2>2. i.class \notin NetworkPortClasses \ {"Xen_VirtualSwitchPort"}
    BY <2>1
  <2>. QED  BY <1>1, <2>1, <2>2, Zenon DEF Whereof
<1>2. CASE i.class = "Xen_VirtualSwitchPort"
  <2>1. /\ i.class \notin DiskClasses /\ i.class \notin ConsoleClasses
        /\ i.class \notin HostProcessorClasses /\ i.class \notin DiskImageClasses
    BY <1>2, Parts5
  <2>2. i.class \notin NetworkPortClasses \ {"Xen_VirtualSwitchPort"}
    BY <1>2
  <2>. QED  BY <1>2, <2>1, <2>2, Zenon DEF Whereof
<1>3. CASE i.class \in NetworkPortClasses \ {"Xen_VirtualSwitchPort"}
  <2>1. /\ i.class \notin DiskClasses /\ i.class \notin ConsoleClasses
        /\ i.class \notin HostProcessorClasses /\ i.class \notin DiskImageClasses
        /\ i.class # "Xen_VirtualSwitchPort"
    BY <1>3, Parts5
  <2>. QED  BY <1>3, <2>1, Zenon DEF Whereof
<1>4. CASE i.class \in ConsoleClasses
  <2>1. /\ i.class \notin DiskClasses /\ i.class \notin NetworkPortClasses
        /\ i.class \notin HostProcessorClasses /\ i.class \notin DiskImageClasses
        /\ i.class # "Xen_VirtualSwitchPort"
    BY <1>4, Parts5
  <2>2. i.class \notin NetworkPortClasses \ {"Xen_VirtualSwitchPort"}
    BY <2>1
  <2>. QED  BY <1>4, <2>1, <2>2, Zenon DEF Whereof
<1>5. CASE i.class \in HostProcessorClasses
  <2>1. /\ i.class \notin DiskClasses /\ i.class \notin NetworkPortClasses
        /\ i.class \notin ConsoleClasses /\ i.class \notin DiskImageClasses
        /\ i.class # "Xen_VirtualSwitchPort"
    BY <1>5, Parts5
  <2>2. i.class \notin NetworkPortClasses \ {"Xen_VirtualSwitchPort"}
    BY <2>1
  <2>. QED  BY <1>5, <2>1, <2>2, Zenon DEF Whereof
<1>6. CASE i.class \in DiskImageClasses
  <2>1. /\ i.class \notin DiskClasses /\ i.class \notin NetworkPortClasses
        /\ i.class \notin ConsoleClasses /\ i.class \notin HostProcessorClasses
        /\ i.class # "Xen_VirtualSwitchPort"
    BY <1>6, Parts5
  <2>2. i.class \notin NetworkPortClasses \ {"Xen_VirtualSwitchPort"}
    BY <2>1
  <2>. QED  BY <1>6, <2>1, <2>2, Zenon DEF Whereof
<1>. QED  BY <1>1, <1>2, <1>3, <1>4, <1>5, <1>6

\* Disks.
LEMMA DiskSides ==
  ASSUME Settled(db), NEW side, NEW class \in DiskClasses, NEW i \in EnumerateClass(db, class),
         side.key = DiskKey(class)
  PROVE  /\ i.obj \in Uuids /\ Whereof(i) \in Uuids
         /\ side.how = "device" => Called(side, i) = i.obj
         /\ side.how = "system" => Called(side, i) = Whereof(i)
<1>1. /\ i.obj \in DOMAIN db.vbd /\ side.key \in DOMAIN i.props
      /\ i.props[side.key] = NewDeviceInstanceID(db.vbd[i.obj].vm, i.obj)
  BY DiskInstance
<1>2. Whereof(i) = db.vbd[i.obj].vm
  BY ClassOf, WhereofPart
<1>3. i.obj \in Uuids /\ Whereof(i) \in Uuids
  BY <1>1, <1>2, SettledUuids DEF Settled
<1>. QED  BY <1>1, <1>2, <1>3, TakenOut, UuidsPlain, CalledSystem, CalledDevice DEF Words

\* Ports and endpoints.
LEMMA NetworkPortSides ==
  ASSUME Settled(db), NEW side, NEW class \in NetworkPortClasses,
         NEW i \in EnumerateClass(db, class), side.key = NetworkPortKey(class)
  PROVE  /\ i.obj \in Uuids /\ Whereof(i) \in Uuids
         /\ IF class \in LANEndpoints
              THEN side.how = "plain" => Called(side, i) = i.obj
              ELSE /\ side.how = "device" => Called(side, i) = i.obj
                   /\ side.how = "system" => Called(side, i) = Whereof(i)
<1>1. /\ i.obj \in DOMAIN db.vif /\ side.key \in DOMAIN i.props
      /\ i.props[side.key] =
           IF class \in LANEndpoints THEN i.obj
           ELSE IF class = "Xen_VirtualSwitchPort"
             THEN NewDeviceInstanceID(db.vif[i.obj].net, i.obj)
             ELSE NewDeviceInstanceID(db.vif[i.obj].vm, i.obj)
  BY NetworkPortInstance
<1>2. Whereof(i) = IF class = "Xen_VirtualSwitchPort" THEN db.vif[i.obj].net
                                                      ELSE db.vif[i.obj].vm
  BY ClassOf, WhereofPart
<1>3. i.obj \in Uuids /\ Whereof(i) \in Uuids
  BY <1>1, <1>2, SettledUuids DEF Settled
<1>4. class = "Xen_VirtualSwitchPort" => class \notin LANEndpoints
  BY DEF LANEndpoints
<1>5. "NoHost" \in Words
  BY DEF Words
<1>6. CASE class \in LANEndpoints
  BY <1>1, <1>3, <1>6, CalledPlain
<1>7. CASE class \notin LANEndpoints
  <2>1. i.props[side.key] = NewDeviceInstanceID(Whereof(i), i.obj)
    BY <1>1, <1>2, <1>7
  <2>2. /\ DeviceNameFromID(i.props[side.key]) = i.obj
        /\ SystemNameFromID(i.props[side.key]) = Whereof(i)
    <3>1. Whereof(i) \in Name /\ i.obj \in Uuids
      BY <1>3, UuidsPlain
    <3>2. /\ DeviceNameFromID(NewDeviceInstanceID(Whereof(i), i.obj)) = i.obj
          /\ SystemNameFromID(NewDeviceInstanceID(Whereof(i), i.obj)) = Whereof(i)
      BY <1>5, <3>1, TakenOut
    <3>. QED  BY <2>1, <3>2
  <2>. QED  BY <1>1, <1>3, <1>7, <2>2, CalledSystem, CalledDevice
<1>. QED  BY <1>6, <1>7

\* Consoles.
LEMMA ConsoleSides ==
  ASSUME Settled(db), NEW side, NEW class \in ConsoleClasses, NEW i \in EnumerateClass(db, class),
         side.key = ConsoleKey(class), side.how = "system"
  PROVE  Whereof(i) \in Uuids /\ Called(side, i) = Whereof(i)
<1>1. /\ i.obj \in DOMAIN db.con /\ side.key \in DOMAIN i.props
      /\ i.props[side.key] = NewDeviceInstanceID(db.con[i.obj].vm, i.obj)
  BY ConsoleInstance
<1>2. Whereof(i) = db.con[i.obj].vm
  BY ClassOf, WhereofPart
<1>3. i.obj \in Uuids /\ Whereof(i) \in Uuids
  BY <1>1, <1>2, SettledUuids DEF Settled
<1>. QED  BY <1>1, <1>2, <1>3, TakenOut, UuidsPlain, CalledSystem DEF Words

\* What is a part of nothing else.
LEMMA WhereofSelf ==
  ASSUME NEW i, i.class \in ComputerSystemClasses \cup ProcessorClasses \cup HostClasses
  PROVE  Whereof(i) = i.obj
<1>1. i.class \notin DiskClasses \cup NetworkPortClasses \cup ConsoleClasses
                       \cup HostProcessorClasses \cup DiskImageClasses
                       \cup {"Xen_VirtualSwitchPort"}
  BY DEF ComputerSystemClasses, SystemSettings, MachineSettings, ProcessorClasses, HostClasses,
         HostMetrics, ConsoleClasses, NetworkPortClasses, LANEndpoints, NetworkMetrics, DiskClasses,
         DiskMetrics, HostProcessorClasses, DiskImageClasses
<1>. QED  BY <1>1, Zenon DEF Whereof

\* Virtual processors.
LEMMA ProcessorSides ==
  ASSUME Settled(db), NEW side, NEW class \in ProcessorClasses,
         NEW i \in EnumerateClass(db, class), side.key = "DeviceID", side.how = "system"
  PROVE  Whereof(i) \in Uuids /\ Called(side, i) = Whereof(i)
<1>1. /\ i.obj \in DOMAIN db.vm /\ i.of \in Plain /\ side.key \in DOMAIN i.props
      /\ i.props[side.key] = NewDeviceInstanceID(i.obj, i.of)
  BY ProcessorInstance
<1>2. Whereof(i) = i.obj
  BY ClassOf, WhereofSelf
<1>3. i.obj \in Uuids
  BY <1>1, SettledUuids
<1>. QED  BY <1>1, <1>2, <1>3, Taken, UuidsPlain, CalledSystem

\* Machines and what belongs to each one of them.
LEMMA ComputerSystemSides ==
  ASSUME Settled(db), NEW side, NEW class \in ComputerSystemClasses,
         NEW i \in EnumerateClass(db, class), side.key = ComputerSystemKey(class)
  PROVE  /\ i.obj \in Uuids /\ Whereof(i) = i.obj
         /\ IF class = "Xen_ComputerSystem"
              THEN side.how = "plain" => Called(side, i) = i.obj
              ELSE side.how = "system" => Called(side, i) = i.obj
<1>1. /\ i.obj \in DOMAIN db.vm /\ side.key \in DOMAIN i.props
      /\ i.props[side.key] =
              IF class = "Xen_ComputerSystem" THEN i.obj
              ELSE IF class \in {"Xen_Memory", "Xen_MemorySettingData"}
                THEN NewDeviceInstanceID(i.obj, <<"Memory">>)
              ELSE IF class = "Xen_ProcessorSettingData"
                THEN NewDeviceInstanceID(i.obj, <<"Processor">>)
                ELSE NewSystemInstanceID(i.obj)
  BY ComputerSystemInstance
<1>2. Whereof(i) = i.obj
  BY ClassOf, WhereofSelf
<1>3. i.obj \in Uuids
  BY <1>1, SettledUuids
<1>4. "Memory" \in Words /\ "Processor" \in Words
  BY DEF Words
<1>5. /\ SystemNameFromID(NewDeviceInstanceID(i.obj, <<"Memory">>)) = i.obj
      /\ SystemNameFromID(NewDeviceInstanceID(i.obj, <<"Processor">>)) = i.obj
      /\ SystemNameFromID(NewSystemInstanceID(i.obj)) = i.obj
  BY <1>3, <1>4, TakenOut, UuidsPlain
<1>. QED  BY <1>1, <1>2, <1>3, <1>5, CalledSystem, CalledPlain

\* Hosts and what belongs to each one of them.
LEMMA HostSides ==
  ASSUME Settled(db), NEW side, NEW class \in HostClasses,
         NEW i \in EnumerateClass(db, class), side.key = HostKey(class)
  PROVE  /\ i.obj \in Uuids /\ Whereof(i) = i.obj
         /\ IF class = "Xen_HostComputerSystem"
              THEN side.how = "plain" => Called(side, i) = i.obj
              ELSE side.how = "system" => Called(side, i) = i.obj
<1>1. /\ i.obj \in db.host /\ side.key \in DOMAIN i.props
      /\ IF class = "Xen_HostComputerSystem" THEN i.props[side.key] = i.obj
         ELSE \/ i.props[side.key] = NewSystemInstanceID(i.obj)
              \/ \E w \in Words : i.props[side.key] = NewDeviceInstanceID(i.obj, <<w>>)
  BY HostInstance
<1>2. Whereof(i) = i.obj
  BY ClassOf, WhereofSelf
<1>3. i.obj \in Uuids
  BY <1>1, SettledUuids
<1>4. class # "Xen_HostComputerSystem" => SystemNameFromID(i.props[side.key]) = i.obj
  BY <1>1, <1>3, TakenOut, UuidsPlain DEF Words
<1>. QED  BY <1>1, <1>2, <1>3, <1>4, CalledSystem, CalledPlain

\* Processors of hosts.
LEMMA HostProcessorSides ==
  ASSUME Settled(db), NEW side, NEW class \in HostProcessorClasses,
         NEW i \in EnumerateClass(db, class), i.props # Crash,
         side.key = "DeviceID", side.how = "system"
  PROVE  Whereof(i) \in Uuids /\ Called(side, i) = Whereof(i)
<1>1. /\ i.obj \in DOMAIN db.cpu /\ side.key \in DOMAIN i.props
      /\ i.props[side.key] = NewDeviceInstanceID(db.cpu[i.obj].host, i.obj)
  BY HostProcessorInstance
<1>2. Whereof(i) = db.cpu[i.obj].host
  BY ClassOf, WhereofPart
<1>3. i.obj \in Uuids /\ Whereof(i) \in Uuids
  BY <1>1, <1>2, SettledUuids
<1>. QED  BY <1>1, <1>2, <1>3, TakenOut, UuidsPlain, CalledSystem DEF Words

\* Disk images.
LEMMA DiskImageSides ==
  ASSUME Settled(db), NEW side, NEW class \in DiskImageClasses,
         NEW i \in EnumerateClass(db, class), side.key = "DeviceID", side.how = "system"
  PROVE  Whereof(i) \in Uuids /\ Called(side, i) = Whereof(i)
<1>1. /\ i.obj \in DOMAIN db.vdi /\ db.vdi[i.obj].sr \in DOMAIN db.sr /\ side.key \in DOMAIN i.props
      /\ i.props[side.key] = NewDeviceInstanceID(db.vdi[i.obj].sr, i.obj)
  BY DiskImageInstance
<1>2. Whereof(i) = db.vdi[i.obj].sr
  BY ClassOf, WhereofPart
<1>3. i.obj \in Uuids /\ Whereof(i) \in Uuids
  BY <1>1, <1>2, SettledUuids
<1>. QED  BY <1>1, <1>2, <1>3, TakenOut, UuidsPlain, CalledSystem DEF Words

\* Networks.
LEMMA VirtualSwitchSides ==
  ASSUME Settled(db), NEW side, NEW class \in {"Xen_VirtualSwitch",
           "Xen_NetworkConnectionAllocationCapabilities"}, NEW i \in EnumerateClass(db, class),
         side.key = VirtualSwitchKey(class)
  PROVE  /\ i.obj \in Uuids
         /\ IF class = "Xen_VirtualSwitch"
              THEN side.how = "plain" => Called(side, i) = i.obj
              ELSE side.how = "system" => Called(side, i) = i.obj
<1>1. /\ i.obj \in db.net /\ side.key \in DOMAIN i.props
      /\ i.props[side.key] =
           IF class = "Xen_VirtualSwitch" THEN i.obj
           ELSE NewDeviceInstanceID(i.obj, <<"NetworkConnectionAllocationCapabilities">>)
  BY VirtualSwitchInstance
<1>2. i.obj \in Uuids /\ "NetworkConnectionAllocationCapabilities" \in Words
  BY <1>1, SettledUuids DEF Words
<1>. QED  BY <1>1, <1>2, TakenOut, UuidsPlain, CalledSystem, CalledPlain

\* Pools of connections and of storage.
LEMMA PoolSides ==
  ASSUME Settled(db), NEW side, NEW class \in {"Xen_NetworkConnectionPool", "Xen_StoragePool"},
         NEW i \in EnumerateClass(db, class), i.props # Crash,
         side.key = "InstanceID", side.how = "device"
  PROVE  i.obj \in Uuids /\ Called(side, i) = i.obj
<1>1. /\ i.obj \in db.net \cup DOMAIN db.sr /\ side.key \in DOMAIN i.props
      /\ \E s \in Name : i.props[side.key] = NewDeviceInstanceID(s, i.obj)
  BY ConnectionPoolInstance, StoragePoolInstance
<1>2. i.obj \in Uuids
  BY <1>1, SettledUuids
<1>. QED  BY <1>1, <1>2, TakenOut, CalledDevice DEF Words

\* The capabilities of storage.
LEMMA StorageCapabilitiesSides ==
  ASSUME Settled(db), NEW side, NEW i \in EnumerateClass(db, "Xen_StorageAllocationCapabilities"),
         side.key = "InstanceID", side.how = "system"
  PROVE  i.obj \in Uuids /\ Called(side, i) = i.obj
<1>1. /\ i.obj \in DOMAIN db.sr /\ side.key \in DOMAIN i.props
      /\ i.props[side.key] = NewDeviceInstanceID(i.obj, <<"StorageAllocationCapabilities">>)
  BY StorageCapabilitiesInstance
<1>2. i.obj \in Uuids /\ "StorageAllocationCapabilities" \in Words
  BY <1>1, SettledUuids DEF Words
<1>. QED  BY <1>1, <1>2, TakenOut, UuidsPlain, CalledSystem

\* The settings that describe capabilities.
LEMMA CapabilitiesSides ==
  ASSUME Settled(db), NEW side, NEW class \in CapabilitiesSettings,
         NEW i \in EnumerateClass(db, class), side.key = "InstanceID", side.how = "system"
  PROVE  i.obj \in Uuids /\ Called(side, i) = i.obj
<1>1. /\ i.obj \in SettingOwners(db, class) /\ i.of \in SettingNames(class)
      /\ side.key \in DOMAIN i.props
      /\ i.props[side.key] = NewDeviceInstanceID(i.obj, i.of)
  BY CapabilitiesInstance
<1>2. SettingOwners(db, class) \in {db.host, DOMAIN db.sr, db.net}
  BY DEF SettingOwners
<1>3. i.obj \in Uuids /\ i.of \in Plain
  BY <1>1, <1>2, SettledUuids, PlainNames
<1>. QED  BY <1>1, <1>3, Taken, UuidsPlain, CalledSystem

\* So a side of the one kind names the object of every instance, if none is a crash.
LEMMA ObjectSides ==
  ASSUME Settled(db), NEW side, ObjectSide(side), Survives(side.class)
  PROVE  ByObj(side)
<1> SUFFICES ASSUME NEW i \in EnumInstances(db, side.class)
             PROVE  i.obj \in Uuids /\ Called(side, i) = i.obj
  BY DEF ByObj
<1> DEFINE class == side.class
<1>0. i.props # Crash
  BY DEF Survives
<1>1. CASE class \notin Tops
  <2>1. class \in DiskClasses \cup NetworkPortClasses \cup ComputerSystemClasses \cup HostClasses
                   \cup VirtualSwitchClasses \cup StoragePoolClasses \cup CapabilitiesSettings
    BY <1>1 DEF ObjectSide, Tops, DiskClasses, NetworkPortClasses, LANEndpoints,
             ComputerSystemClasses, SystemSettings, MachineSettings, HostClasses,
             VirtualSwitchClasses, StoragePoolClasses, CapabilitiesSettings
  <2>2. class \in Served
    BY <2>1 DEF Served
  <2>3. i \in EnumerateClass(db, class)
    BY <1>1, <2>2, SingleInstances
  <2>4. CASE class \in DiskClasses
    <3>1. side.key = DiskKey(class) /\ side.how = "device"
      BY <2>4 DEF ObjectSide, DiskClasses, DiskMetrics, DiskKey, CapabilitiesSettings
    <3>. QED  BY <2>3, <2>4, <3>1, DiskSides
  <2>5. CASE class \in NetworkPortClasses
    <3>1. /\ class \in LANEndpoints => side.how = "plain" /\ side.key = "Name"
          /\ class \notin LANEndpoints => side.how = "device"
          /\ class \in {"Xen_NetworkPort", "Xen_VirtualSwitchPort"} => side.key = "DeviceID"
          /\ class \notin LANEndpoints \cup {"Xen_NetworkPort", "Xen_VirtualSwitchPort"}
                => side.key = "InstanceID"
      BY <2>5 DEF ObjectSide, NetworkPortClasses, LANEndpoints, NetworkMetrics,
                  CapabilitiesSettings
    <3>2. class \in LANEndpoints => class \notin {"Xen_NetworkPort", "Xen_VirtualSwitchPort"}
      BY DEF LANEndpoints
    <3>3. side.key = NetworkPortKey(class)
      BY <3>1, <3>2, Zenon DEF NetworkPortKey
    <3>. QED  BY <2>3, <2>5, <3>1, <3>3, NetworkPortSides
  <2>6. CASE class \in ComputerSystemClasses
    <3>1. /\ class = "Xen_ComputerSystem" => side.how = "plain" /\ side.key = "Name"
          /\ class # "Xen_ComputerSystem" => side.how = "system" /\ side.key = "InstanceID"
          /\ class # "Xen_Memory"
      BY <2>6 DEF ObjectSide, ComputerSystemClasses, SystemSettings, MachineSettings,
                  CapabilitiesSettings
    <3>2. side.key = ComputerSystemKey(class)
      BY <3>1, Zenon DEF ComputerSystemKey
    <3>. QED  BY <2>3, <2>6, <3>1, <3>2, ComputerSystemSides
  <2>7. CASE class \in HostClasses
    <3>1. /\ class = "Xen_HostComputerSystem" => side.how = "plain" /\ side.key = "Name"
          /\ class # "Xen_HostComputerSystem" => side.how = "system" /\ side.key = "InstanceID"
          /\ class # "Xen_HostMemory"
      BY <2>7 DEF ObjectSide, HostClasses, HostMetrics, CapabilitiesSettings
    <3>2. side.key = HostKey(class)
      BY <3>1, Zenon DEF HostKey
    <3>. QED  BY <2>3, <2>7, <3>1, <3>2, HostSides
  <2>8. CASE class \in {"Xen_VirtualSwitch", "Xen_NetworkConnectionAllocationCapabilities"}
    <3>1. /\ class = "Xen_VirtualSwitch" => side.how = "plain" /\ side.key = "Name"
          /\ class # "Xen_VirtualSwitch" => side.how = "system" /\ side.key = "InstanceID"
      BY <2>8 DEF ObjectSide, CapabilitiesSettings
    <3>2. side.key = VirtualSwitchKey(class)
      BY <3>1 DEF VirtualSwitchKey
    <3>. QED  BY <2>3, <2>8, <3>1, <3>2, VirtualSwitchSides
  <2>9. CASE class \in {"Xen_NetworkConnectionPool", "Xen_StoragePool"}
    <3>1. side.how = "device" /\ side.key = "InstanceID"
      BY <2>9 DEF ObjectSide, CapabilitiesSettings
    <3>. QED  BY <1>0, <2>3, <2>9, <3>1, PoolSides
  <2>10. CASE class = "Xen_StorageAllocationCapabilities"
    <3>1. side.how = "system" /\ side.key = "InstanceID"
      BY <2>10 DEF ObjectSide, CapabilitiesSettings
    <3>. QED  BY <2>3, <2>10, <3>1, StorageCapabilitiesSides
  <2>11. CASE class \in CapabilitiesSettings
    <3>1. side.how = "system" /\ side.key = "InstanceID"
      BY <2>11 DEF ObjectSide, CapabilitiesSettings
    <3>. QED  BY <2>3, <2>11, <3>1, CapabilitiesSides
  <2>12. class # "Xen_VirtualSwitchSettingData"
    BY DEF ObjectSide, CapabilitiesSettings
  <2>. QED  BY <2>1, <2>4, <2>5, <2>6, <2>7, <2>8, <2>9, <2>10, <2>11, <2>12
            DEF VirtualSwitchClasses, StoragePoolClasses
<1>2. CASE class = "Xen_DiskMetricValue"
  <2>1. side.key = "InstanceID" /\ side.how = "device"
    BY <1>2 DEF ObjectSide, CapabilitiesSettings
  <2>2. Below(class) = {class} \cup DiskMetrics
    BY <1>2, Zenon DEF Below
  <2>3. class \in Tops
    BY <1>2 DEF Tops
  <2>4. PICK c \in DiskMetrics : i \in EnumerateClass(db, c)
    BY <2>2, <2>3, TopInstances
  <2>5. c \in DiskClasses /\ DiskKey(c) = "InstanceID"
    BY <2>4 DEF DiskClasses, DiskMetrics, DiskKey
  <2>. QED  BY <2>1, <2>4, <2>5, DiskSides
<1>3. CASE class = "Xen_VirtualSystemSettingData"
  <2>1. side.key = "InstanceID" /\ side.how = "system"
    BY <1>3 DEF ObjectSide, CapabilitiesSettings
  <2>2. Below(class) = {class} \cup SystemSettings
    BY <1>3, Zenon DEF Below
  <2>3. class \in Tops
    BY <1>3 DEF Tops
  <2>4. PICK c \in SystemSettings : i \in EnumerateClass(db, c)
    BY <2>2, <2>3, TopInstances
  <2>5. c \in ComputerSystemClasses /\ c \notin {"Xen_ComputerSystem", "Xen_Memory"}
    BY <2>4 DEF ComputerSystemClasses, SystemSettings
  <2>6. ComputerSystemKey(c) = "InstanceID"
    BY <2>5, Zenon DEF ComputerSystemKey
  <2>. QED  BY <2>1, <2>4, <2>5, <2>6, ComputerSystemSides
<1>4. class \in Tops => class \in {"Xen_DiskMetricValue", "Xen_VirtualSystemSettingData"}
  BY DEF ObjectSide, Tops, CapabilitiesSettings
<1>. QED  BY <1>1, <1>2, <1>3, <1>4

\* And one of the other kind names what the object is a part of.
LEMMA OwnerSides ==
  ASSUME Settled(db), NEW side, OwnerSide(side), Survives(side.class)
  PROVE  ByOwner(side)
<1> SUFFICES ASSUME NEW i \in EnumInstances(db, side.class)
             PROVE  Whereof(i) \in Uuids /\ Called(side, i) = Whereof(i)
  BY DEF ByOwner
<1> DEFINE class == side.class
<1>1. class \notin Tops /\ side.how = "system"
  BY DEF OwnerSide, Tops
<1>2. class \in DiskClasses \cup NetworkPortClasses \cup ConsoleClasses \cup ComputerSystemClasses
                 \cup HostClasses \cup ProcessorClasses \cup HostProcessorClasses
                 \cup DiskImageClasses
  BY DEF OwnerSide, DiskClasses, NetworkPortClasses, ConsoleClasses, ComputerSystemClasses,
         MachineSettings, HostClasses, ProcessorClasses, HostProcessorClasses, DiskImageClasses
<1>3. class \in Served
  BY <1>2 DEF Served
<1>4. i \in EnumerateClass(db, class) /\ i.props # Crash
  BY <1>1, <1>3, SingleInstances DEF Survives
<1>5. CASE class \in DiskClasses
  <2>1. side.key = DiskKey(class)
    BY <1>5 DEF OwnerSide, DiskClasses, DiskMetrics, DiskKey
  <2>. QED  BY <1>1, <1>4, <1>5, <2>1, DiskSides
<1>6. CASE class \in NetworkPortClasses
  <2>1. /\ class \notin LANEndpoints
        /\ class \in {"Xen_NetworkPort", "Xen_VirtualSwitchPort"} => side.key = "DeviceID"
        /\ class \notin {"Xen_NetworkPort", "Xen_VirtualSwitchPort"} => side.key = "InstanceID"
    BY <1>6 DEF OwnerSide, NetworkPortClasses, LANEndpoints, NetworkMetrics
  <2>2. side.key = NetworkPortKey(class)
    BY <2>1, Zenon DEF NetworkPortKey
  <2>. QED  BY <1>1, <1>4, <1>6, <2>1, <2>2, NetworkPortSides
<1>7. CASE class \in ConsoleClasses
  <2>1. side.key = ConsoleKey(class)
    BY <1>7 DEF OwnerSide, ConsoleClasses, ConsoleKey
  <2>. QED  BY <1>1, <1>4, <1>7, <2>1, ConsoleSides
<1>8. CASE class \in ComputerSystemClasses
  <2>1. /\ class # "Xen_ComputerSystem"
        /\ class = "Xen_Memory" => side.key = "DeviceID"
        /\ class # "Xen_Memory" => side.key = "InstanceID"
    BY <1>8 DEF OwnerSide, ComputerSystemClasses, SystemSettings, MachineSettings
  <2>2. side.key = ComputerSystemKey(class)
    BY <2>1, Zenon DEF ComputerSystemKey
  <2>. QED  BY <1>1, <1>4, <1>8, <2>1, <2>2, ComputerSystemSides
<1>9. CASE class \in HostClasses
  <2>1. class = "Xen_HostMemory" /\ side.key = "DeviceID"
    BY <1>9 DEF OwnerSide, HostClasses, HostMetrics
  <2>2. side.key = HostKey(class)
    BY <2>1, Zenon DEF HostKey
  <2>. QED  BY <1>1, <1>4, <1>9, <2>1, <2>2, HostSides
<1>10. CASE class \in ProcessorClasses
  <2>1. side.key = "DeviceID"
    BY <1>10 DEF OwnerSide, ProcessorClasses
  <2>. QED  BY <1>1, <1>4, <1>10, <2>1, ProcessorSides
<1>11. CASE class \in HostProcessorClasses
  <2>1. side.key = "DeviceID"
    BY <1>11 DEF OwnerSide, HostProcessorClasses
  <2>. QED  BY <1>1, <1>4, <1>11, <2>1, HostProcessorSides
<1>12. CASE class \in DiskImageClasses
  <2>1. side.key = "DeviceID"
    BY <1>12 DEF OwnerSide, DiskImageClasses
  <2>. QED  BY <1>1, <1>4, <1>12, <2>1, DiskImageSides
<1>. QED  BY <1>2, <1>5, <1>6, <1>7, <1>8, <1>9, <1>10, <1>11, <1>12

-----------------------------------------------------------------------------
\* The base classes of associations between a part and what it is a part of.
PartBases == {"CIM_SystemDevice", "CIM_ConcreteComponent", "CIM_VirtualSystemSettingDataComponent"}

\* The associations that have a meaning of their own.
Special == {"Xen_HostedComputerSystem", "Xen_HostedStoragePool",
            "Xen_ComputerSystemElementSettingData", "Xen_MetricForNetworkPort"}

\* Rows that relate parts to what they are parts of, and the same object to itself.
PartRow(row) == /\ row.lhs.key # NoKey /\ row.rhs.key # NoKey /\ row.base \in PartBases
                /\ OwnerSide(row.lhs) /\ ObjectSide(row.rhs)
SameRow(row) == /\ row.lhs.key # NoKey /\ row.rhs.key # NoKey /\ row.base \notin PartBases
                /\ ObjectSide(row.lhs) /\ ObjectSide(row.rhs)
WholeRow(row) == row.lhs.key = NoKey /\ row.rhs.key = NoKey

\* A row of parts is true.
LEMMA PartTrue ==
  ASSUME Settled(db), NEW row \in Range(AssocTable), PartRow(row), Flat(row),
         row.assoc \notin Special, Survives(row.lhs.class), Survives(row.rhs.class)
  PROVE  RowTrue(row)
<1>1. ByOwner(row.lhs) /\ ByObj(row.rhs)
  BY ObjectSides, OwnerSides DEF PartRow
<1>2. Told(row.lhs) /\ Told(row.rhs)
  BY <1>1, UuidsPlain DEF Told, ByOwner, ByObj
<1>3. \A l, r : Holds(row, l, r) <=> Whereof(l) = r.obj
  BY DEF PartRow, PartBases, Special, Holds
<1>4. Agree(row)
  BY <1>1, <1>3, UuidsPlain DEF Agree, ByOwner, ByObj
<1>. QED  BY <1>2, <1>4, FlatSeparate, KeyedTrue DEF PartRow

\* A row of the same objects is true.
LEMMA SameTrue ==
  ASSUME Settled(db), NEW row \in Range(AssocTable), SameRow(row), Flat(row),
         row.assoc \notin Special, Survives(row.lhs.class), Survives(row.rhs.class)
  PROVE  RowTrue(row)
<1>1. ByObj(row.lhs) /\ ByObj(row.rhs)
  BY ObjectSides DEF SameRow
<1>2. Told(row.lhs) /\ Told(row.rhs)
  BY <1>1, UuidsPlain DEF Told, ByObj
<1>3. \A l, r : Holds(row, l, r) <=> l.obj = r.obj
  BY Zenon DEF SameRow, PartBases, Special, Holds
<1>4. Agree(row)
  BY <1>1, <1>3, UuidsPlain DEF Agree, ByObj
<1>. QED  BY <1>2, <1>4, FlatSeparate, KeyedTrue DEF SameRow

-----------------------------------------------------------------------------
\* Where machines run.
LEMMA HostedMachines ==
  ASSUME Settled(db), NEW row \in Range(AssocTable), Flat(row),
         row.assoc = "Xen_HostedComputerSystem", row.base = "CIM_HostedDependency",
         row.lhs = Side("Xen_ComputerSystem", "Host", "plain"),
         row.rhs = Side("Xen_HostComputerSystem", "Name", "plain")
  PROVE  RowTrue(row)
<1>1. /\ row.lhs.class = "Xen_ComputerSystem" /\ row.lhs.key = "Host" /\ row.lhs.how = "plain"
      /\ row.rhs.class = "Xen_HostComputerSystem" /\ row.rhs.key = "Name" /\ row.rhs.how = "plain"
      /\ row.lhs.key # NoKey /\ row.rhs.key # NoKey
  BY DEF Side, NoKey
<1>2. /\ "Xen_ComputerSystem" \in ComputerSystemClasses /\ "Xen_ComputerSystem" \in Served
      /\ "Xen_HostComputerSystem" \in HostClasses /\ "Xen_HostComputerSystem" \in Served
      /\ {"Xen_ComputerSystem", "Xen_HostComputerSystem"} \cap Tops = {}
      /\ HostKey("Xen_HostComputerSystem") = "Name"
  BY DEF ComputerSystemClasses, HostClasses, Served, Tops, HostKey
<1>3. \A r \in EnumInstances(db, row.rhs.class) :
         r.obj \in db.host /\ r.obj \in Uuids /\ Called(row.rhs, r) = r.obj
  BY <1>1, <1>2, SingleInstances, HostInstance, HostSides
<1>4. \A l \in EnumInstances(db, row.lhs.class) :
         /\ ("Host" \in DOMAIN l.props) = (db.vm[l.obj].host \in db.host)
         /\ "Host" \in DOMAIN l.props => l.props.Host = db.vm[l.obj].host
  BY <1>1, <1>2, SingleInstances, ComputerSystemInstance
<1>5. \A l \in EnumInstances(db, row.lhs.class) :
         IF db.vm[l.obj].host \in db.host
           THEN Called(row.lhs, l) = db.vm[l.obj].host /\ Called(row.lhs, l) # NoName
           ELSE Called(row.lhs, l) = NoName /\ "Host" \notin DOMAIN l.props
  <2>1. db.host \subseteq Uuids
    BY SettledUuids
  <2>. QED  BY <1>1, <1>4, <2>1, UuidsPlain, CalledPlain DEF Called
<1>6. Told(row.lhs) /\ Told(row.rhs)
  BY <1>1, <1>3, <1>5, UuidsPlain DEF Told
<1>7. \A l, r : Holds(row, l, r) <=> db.vm[l.obj].host = r.obj
  BY <1>1, Zenon DEF Holds
<1>8. Agree(row)
  BY <1>3, <1>5, <1>7 DEF Agree
<1>. QED  BY <1>1, <1>6, <1>8, FlatSeparate, KeyedTrue

\* Which storage pools are a host's own.
LEMMA HostedStorage ==
  ASSUME Settled(db), NEW row \in Range(AssocTable), Flat(row), Survives(row.rhs.class),
         row.assoc = "Xen_HostedStoragePool", row.base = "CIM_HostedResourcePool",
         row.lhs = Side("Xen_HostComputerSystem", "Name", "plain"),
         row.rhs = Side("Xen_StoragePool", "InstanceID", "system")
  PROVE  RowTrue(row)
<1>1. /\ row.lhs.class = "Xen_HostComputerSystem" /\ row.lhs.key = "Name" /\ row.lhs.how = "plain"
      /\ row.rhs.class = "Xen_StoragePool" /\ row.rhs.key = "InstanceID"
      /\ row.rhs.how = "system" /\ row.lhs.key # NoKey /\ row.rhs.key # NoKey
  BY DEF Side, NoKey
<1>2. /\ "Xen_StoragePool" \in Served
      /\ "Xen_HostComputerSystem" \in HostClasses /\ "Xen_HostComputerSystem" \in Served
      /\ {"Xen_StoragePool", "Xen_HostComputerSystem"} \cap Tops = {}
      /\ HostKey("Xen_HostComputerSystem") = "Name"
  BY DEF StoragePoolClasses, HostClasses, Served, Tops, HostKey
<1>3. \A l \in EnumInstances(db, row.lhs.class) : l.obj \in Uuids /\ Called(row.lhs, l) = l.obj
  BY <1>1, <1>2, SingleInstances, HostSides
<1>4. ASSUME NEW r \in EnumInstances(db, row.rhs.class)
      PROVE  \/ Called(row.rhs, r) \in Uuids /\ db.sr[r.obj].hosts = {Called(row.rhs, r)}
             \/ Called(row.rhs, r) = <<"Shared">> /\ \A h : db.sr[r.obj].hosts # {h}
  <2>1. r \in EnumerateClass(db, "Xen_StoragePool") /\ r.props # Crash
    BY <1>1, <1>2, SingleInstances DEF Survives
  <2>2. r.obj \in DOMAIN db.sr /\ "InstanceID" \in DOMAIN r.props
    BY <2>1, StoragePoolInstance
  <2>3. PICK s \in Name :
          /\ r.props.InstanceID = NewDeviceInstanceID(s, r.obj)
          /\ \/ db.sr[r.obj].hosts = {s} /\ s \in Pool.host
             \/ s = <<"Shared">> /\ \A h : db.sr[r.obj].hosts # {h}
    BY <2>1, StoragePoolInstance
  <2>4. SystemNameFromID(NewDeviceInstanceID(s, r.obj)) = s
    <3>1. r.obj \in Uuids
      BY <2>2, SettledUuids
    <3>. QED  BY <3>1, Taken, UuidsPlain
  <2>5. Called(row.rhs, r) = s
    BY <1>1, <2>2, <2>3, <2>4, CalledSystem
  <2>6. Pool.host \subseteq Uuids
    BY SettledUuids
  <2>. QED  BY <2>3, <2>5, <2>6
<1>5. <<"Shared">> \notin Uuids /\ <<"Shared">> # NoName
  <2>1. "Shared" \in Words
    BY DEF Words
  <2>. QED  BY <2>1, UuidsAssumption DEF NoName
<1>6. Told(row.lhs) /\ Told(row.rhs)
  BY <1>3, <1>4, <1>5, UuidsPlain DEF Told
<1>7. \A l, r : Holds(row, l, r) <=> db.sr[r.obj].hosts = {l.obj}
  BY <1>1, Zenon DEF Holds
<1>8. Agree(row)
  <2>1. SUFFICES ASSUME NEW l \in EnumInstances(db, row.lhs.class),
                        NEW r \in EnumInstances(db, row.rhs.class)
                 PROVE  db.sr[r.obj].hosts = {l.obj} <=>
                           Called(row.lhs, l) # NoName /\ Called(row.rhs, r) = Called(row.lhs, l)
    BY <1>7 DEF Agree
  <2>2. Called(row.lhs, l) = l.obj /\ l.obj \in Uuids /\ l.obj # NoName
    BY <1>3, UuidsPlain
  <2>. QED  BY <1>4, <1>5, <2>2
<1>. QED  BY <1>1, <1>6, <1>8, FlatSeparate, KeyedTrue

\* The identifier of a system is that of one system only.
LEMMA SystemIDs ==
  ASSUME NEW s \in Uuids, NEW t \in Uuids
  PROVE  /\ NewSystemInstanceID(s) # NoName
         /\ NewSystemInstanceID(s) = NewSystemInstanceID(t) => s = t
<1>1. NewSystemInstanceID(s) = NewSystemInstanceID(t) => s = t
  <2>1. SystemNameFromID(NewSystemInstanceID(s)) = s /\ SystemNameFromID(NewSystemInstanceID(t)) = t
    BY UuidsPlain, Taken
  <2>. QED  BY <2>1
<1>2. NewSystemInstanceID(s) # NoName
  <2>1. <<"Xen", Colon>> \in Seq(Token) /\ Len(<<"Xen", Colon>>) = 2 /\ s \in Seq(Token)
    <3>1. "Xen" \in Token /\ Colon \in Token
      BY DEF Token
    <3>. QED  BY <3>1, UuidsPlain DEF Name
  <2>2. Len(NewSystemInstanceID(s)) = 2 + Len(s) /\ Len(s) \in Nat
    BY <2>1, ConcatProperties, LenProperties DEF NewSystemInstanceID
  <2>3. Len(NoName) = 1
    BY DEF NoName
  <2>4. 2 + Len(s) # 1
    BY <2>2
  <2>. QED  BY <2>2, <2>3, <2>4
<1>. QED  BY <1>1, <1>2

\* The settings of a machine are related to themselves.
LEMMA OwnSettings ==
  ASSUME Settled(db), NEW row \in Range(AssocTable), Flat(row),
         row.assoc = "Xen_ComputerSystemElementSettingData", row.base = "CIM_ElementSettingData",
         row.lhs = Side("Xen_ComputerSystemSettingData", "InstanceID", "plain"),
         row.rhs = Side("Xen_ComputerSystemSettingData", "InstanceID", "plain")
  PROVE  RowTrue(row)
<1> DEFINE side == Side("Xen_ComputerSystemSettingData", "InstanceID", "plain")
<1>1. /\ side.class = "Xen_ComputerSystemSettingData" /\ side.key = "InstanceID"
      /\ side.how = "plain" /\ side.key # NoKey
  BY DEF Side, NoKey
<1>2. /\ "Xen_ComputerSystemSettingData" \in ComputerSystemClasses
      /\ "Xen_ComputerSystemSettingData" \in Served /\ "Xen_ComputerSystemSettingData" \notin Tops
  BY DEF ComputerSystemClasses, SystemSettings, Served, Tops
<1>3. ComputerSystemKey("Xen_ComputerSystemSettingData") = "InstanceID"
  BY DEF ComputerSystemKey
<1>4. ASSUME NEW i \in EnumInstances(db, side.class)
      PROVE  i.obj \in Uuids /\ Called(side, i) = NewSystemInstanceID(i.obj)
  <2>1. i \in EnumerateClass(db, "Xen_ComputerSystemSettingData")
    BY <1>1, <1>2, SingleInstances
  <2>2. /\ i.obj \in DOMAIN db.vm /\ "InstanceID" \in DOMAIN i.props
        /\ i.props["InstanceID"] = NewSystemInstanceID(i.obj)
    BY <1>2, <1>3, <2>1, ComputerSystemInstance
  <2>3. i.obj \in Uuids
    BY <2>2, SettledUuids
  <2>. QED  BY <1>1, <2>2, <2>3, CalledPlain
<1> HIDE DEF side
<1>5. Told(side)
  BY <1>4, SystemIDs DEF Told
<1>6. \A l, r : Holds(row, l, r) <=> l.obj = r.obj
  BY <1>1, Zenon DEF Holds, side
<1>7. \A l, r \in EnumInstances(db, side.class) :
         l.obj = r.obj <=> Called(side, l) # NoName /\ Called(side, r) = Called(side, l)
  BY <1>4, SystemIDs
<1>8. row.lhs = side /\ row.rhs = side
  BY DEF side
<1>9. Agree(row)
  BY <1>6, <1>7, <1>8 DEF Agree
<1>. QED  BY <1>1, <1>5, <1>8, <1>9, FlatSeparate, KeyedTrue

\* The metrics of virtual ports: those of the ports of hosts have other objects.
LEMMA PortMetrics ==
  ASSUME Settled(db), NEW row \in Range(AssocTable), Flat(row),
         row.assoc = "Xen_MetricForNetworkPort", row.base = "CIM_MetricForME",
         row.lhs = Side("Xen_NetworkPort", "DeviceID", "device"),
         row.rhs = Side("Xen_NetworkPortMetricValue", "InstanceID", "device")
  PROVE  RowTrue(row)
<1>1. /\ row.lhs.class = "Xen_NetworkPort" /\ row.lhs.key = "DeviceID" /\ row.lhs.how = "device"
      /\ row.rhs.class = "Xen_NetworkPortMetricValue" /\ row.rhs.key = "InstanceID"
      /\ row.rhs.how = "device" /\ row.lhs.key # NoKey /\ row.rhs.key # NoKey
  BY DEF Side, NoKey
<1>2. /\ "Xen_NetworkPort" \in NetworkPortClasses /\ "Xen_NetworkPort" \in Served
      /\ "Xen_NetworkPort" \notin Tops /\ "Xen_NetworkPort" \notin LANEndpoints
      /\ "Xen_NetworkPortMetricValue" \in Tops
  BY DEF NetworkPortClasses, LANEndpoints, Served, Tops
<1>3. NetworkPortKey("Xen_NetworkPort") = "DeviceID"
  BY DEF NetworkPortKey, LANEndpoints
<1>4. ASSUME NEW l \in EnumInstances(db, row.lhs.class)
      PROVE  l.obj \in DOMAIN Pool.vif /\ l.obj \in Uuids /\ Called(row.lhs, l) = l.obj
  <2>1. l \in EnumerateClass(db, "Xen_NetworkPort")
    BY <1>1, <1>2, SingleInstances
  <2>2. l.obj \in DOMAIN db.vif
    BY <1>2, <2>1, NetworkPortInstance
  <2>. QED  BY <1>1, <1>2, <1>3, <2>1, <2>2, NetworkPortSides DEF Settled
<1>5. ASSUME NEW r \in EnumInstances(db, row.rhs.class)
      PROVE  /\ r.obj \in Uuids
             /\ \/ Called(row.rhs, r) = r.obj
                \/ /\ Called(row.rhs, r) = NoName /\ "InstanceID" \notin DOMAIN r.props
                   /\ r.obj \in DOMAIN Pool.pif
  <2>1. Below(row.rhs.class) = {row.rhs.class} \cup (NetworkMetrics \cup HostNetworkMetrics)
    BY <1>1, Zenon DEF Below
  <2>2. PICK c \in NetworkMetrics \cup HostNetworkMetrics : r \in EnumerateClass(db, c)
    BY <1>1, <1>2, <2>1, TopInstances
  <2>3. CASE c \in NetworkMetrics
    <3>1. /\ c \in NetworkPortClasses /\ c \notin LANEndpoints
          /\ c \notin {"Xen_NetworkPort", "Xen_VirtualSwitchPort"}
      BY <2>3 DEF NetworkPortClasses, LANEndpoints, NetworkMetrics
    <3>2. NetworkPortKey(c) = "InstanceID"
      BY <3>1, Zenon DEF NetworkPortKey
    <3>. QED  BY <1>1, <2>2, <3>1, <3>2, NetworkPortSides
  <2>4. CASE c \in HostNetworkMetrics
    <3>1. r.obj \in DOMAIN db.pif
      BY <2>2, <2>4, HostPortMetricInstance
    <3>2. r.obj \in Uuids /\ r.obj \in DOMAIN Pool.pif
      BY <3>1, SettledUuids DEF Settled
    <3>3. CASE "InstanceID" \in DOMAIN r.props
      <4>1. PICK h \in Pool.host : r.props.InstanceID = NewDeviceInstanceID(h, r.obj)
        BY <2>2, <2>4, <3>3, HostPortMetricInstance
      <4>2. DeviceNameFromID(NewDeviceInstanceID(h, r.obj)) = r.obj
        BY <3>2, PlainNames, UuidsPlain, Taken DEF Plain
      <4>. QED  BY <1>1, <3>2, <3>3, <4>1, <4>2, CalledDevice
    <3>4. CASE "InstanceID" \notin DOMAIN r.props
      BY <1>1, <3>2, <3>4 DEF Called
    <3>. QED  BY <3>3, <3>4
  <2>. QED  BY <2>2, <2>3, <2>4
<1>6. Told(row.lhs) /\ Told(row.rhs)
  BY <1>1, <1>4, <1>5, UuidsPlain DEF Told
<1>7. \A l, r : Holds(row, l, r) <=> l.obj = r.obj
  BY <1>1, Zenon DEF Holds
<1>8. Agree(row)
  <2>1. SUFFICES ASSUME NEW l \in EnumInstances(db, row.lhs.class),
                        NEW r \in EnumInstances(db, row.rhs.class)
                 PROVE  l.obj = r.obj <=>
                           Called(row.lhs, l) # NoName /\ Called(row.rhs, r) = Called(row.lhs, l)
    BY <1>7 DEF Agree
  <2>2. /\ Called(row.lhs, l) = l.obj /\ l.obj \in Uuids /\ l.obj # NoName
        /\ l.obj \in DOMAIN Pool.vif
    BY <1>4, UuidsPlain
  <2>3. r.obj \in DOMAIN Pool.pif => l.obj # r.obj
    BY <2>2, UuidsAssumption
  <2>. QED  BY <1>5, <2>2, <2>3
<1>. QED  BY <1>1, <1>6, <1>8, FlatSeparate, KeyedTrue

-----------------------------------------------------------------------------
\* The four rows that have a meaning of their own.
OwnMeaning(row) ==
  \/ /\ row.assoc = "Xen_HostedComputerSystem" /\ row.base = "CIM_HostedDependency"
     /\ row.lhs = Side("Xen_ComputerSystem", "Host", "plain")
     /\ row.rhs = Side("Xen_HostComputerSystem", "Name", "plain")
  \/ /\ row.assoc = "Xen_HostedStoragePool" /\ row.base = "CIM_HostedResourcePool"
     /\ row.lhs = Side("Xen_HostComputerSystem", "Name", "plain")
     /\ row.rhs = Side("Xen_StoragePool", "InstanceID", "system")
  \/ /\ row.assoc = "Xen_ComputerSystemElementSettingData"
     /\ row.base = "CIM_ElementSettingData"
     /\ row.lhs = Side("Xen_ComputerSystemSettingData", "InstanceID", "plain")
     /\ row.rhs = Side("Xen_ComputerSystemSettingData", "InstanceID", "plain")
  \/ /\ row.assoc = "Xen_MetricForNetworkPort" /\ row.base = "CIM_MetricForME"
     /\ row.lhs = Side("Xen_NetworkPort", "DeviceID", "device")
     /\ row.rhs = Side("Xen_NetworkPortMetricValue", "InstanceID", "device")

\* Each row of a group is of one of these kinds.
Sorted(row) ==
  /\ Flat(row)
  /\ \/ WholeRow(row)
     \/ row.assoc \notin Special /\ (PartRow(row) \/ SameRow(row))
     \/ OwnMeaning(row)

\* A list of such rows.
AllSorted(rows) == \A row \in Range(rows) : row.assoc \notin Incomparable => Sorted(row)

\* The kinds of rows and of sides.
USE DEF AllSorted, Sorted, Flat, WholeRow, PartRow, SameRow, OwnMeaning, Special, PartBases,
        ObjectSide, OwnerSide, Tops, Subs, Incomparable, NoKey, Whole, Side, Row, SystemDevice,
        Conforms, Referenced, ServiceOf, Affects, HostedService, Component, HostedDevice,
        HostedPool, Capabilities, FromPool, Allocated, Allocation, DefineState, PoolComponent,
        DefineCapabilities, ElementCapabilities, Metrics, SystemSettings, DiskMetrics,
        NetworkMetrics, HostNetworkMetrics, CapabilitiesSettings

\* Each row about profiles is of one of these kinds.
LEMMA ProfileRowsSorted == AllSorted(ProfileRows)
  BY List13, SMTT(60) DEF ProfileRows

\* Each row about hosts and their services is of one of these kinds.
LEMMA HostRowsSorted == AllSorted(HostRows)
  BY List6, SMTT(60) DEF HostRows

\* Each row about devices of systems and switches is of one of these kinds.
LEMMA DeviceRowsSorted == AllSorted(DeviceRows)
  BY List12, SMTT(60) DEF DeviceRows

\* Each row about settings of machines is of one of these kinds.
LEMMA SettingRowsSorted == AllSorted(SettingRows)
  BY List7, SMTT(60) DEF SettingRows

\* Each row about devices on their hosts is of one of these kinds.
LEMMA HostedDeviceRowsSorted == AllSorted(HostedDeviceRows)
  BY List5, SMTT(60) DEF HostedDeviceRows

\* Each row about pools on their hosts is of one of these kinds.
LEMMA HostedPoolRowsSorted == AllSorted(HostedPoolRows)
  BY List4, SMTT(60) DEF HostedPoolRows

\* Each row about capabilities of pools and devices is of one of these kinds.
LEMMA AllocationRowsSorted == AllSorted(AllocationRows)
  BY List8, SMTT(60) DEF AllocationRows

\* Each row about what is allocated from pools is of one of these kinds.
LEMMA FromPoolRowsSorted == AllSorted(FromPoolRows)
  BY List14, SMTT(60) DEF FromPoolRows

\* Each row about components of pools is of one of these kinds.
LEMMA ComponentRowsSorted == AllSorted(ComponentRows)
  BY List4, SMTT(60) DEF ComponentRows

\* Each row about settings of capabilities is of one of these kinds.
LEMMA CapabilitiesRowsSorted == AllSorted(CapabilitiesRows)
  BY List4, SMTT(60) DEF CapabilitiesRows

\* Each row about capabilities of services and systems is of one of these kinds.
LEMMA ElementRowsSorted == AllSorted(ElementRows)
  BY List5, SMTT(60) DEF ElementRows

\* Each row about metrics of host processors is of one of these kinds.
LEMMA HostProcessorMetricsSorted == AllSorted(HostProcessorMetrics)
  BY List3, SMTT(60) DEF HostProcessorMetrics

\* Each row about metrics of processors is of one of these kinds.
LEMMA ProcessorMetricsSorted == AllSorted(ProcessorMetrics)
  BY List3, SMTT(60) DEF ProcessorMetrics

\* Each row about metrics of disks is of one of these kinds.
LEMMA DiskMetricRowsSorted == AllSorted(DiskMetricRows)
  BY List3, SMTT(60) DEF DiskMetricRows

\* Each row about metrics of ports is of one of these kinds.
LEMMA NetworkPortMetricsSorted == AllSorted(NetworkPortMetrics)
  BY List3, SMTT(60) DEF NetworkPortMetrics

HIDE DEF AllSorted, Sorted, Flat, WholeRow, PartRow, SameRow, OwnMeaning, Special, PartBases,
         ObjectSide, OwnerSide, Tops, Subs, Incomparable, NoKey, Whole, Side, Row, SystemDevice,
         Conforms, Referenced, ServiceOf, Affects, HostedService, Component, HostedDevice,
         HostedPool, Capabilities, FromPool, Allocated, Allocation, DefineState, PoolComponent,
         DefineCapabilities, ElementCapabilities, Metrics, SystemSettings, DiskMetrics,
         NetworkMetrics, HostNetworkMetrics, CapabilitiesSettings

\* So every association is true unless the server dies of an instance on a side.
LEMMA RowsTrue ==
  ASSUME Settled(db), NEW row \in Compared, Survives(row.lhs.class), Survives(row.rhs.class)
  PROVE  RowTrue(row)
<1>1. row \in Range(AssocTable) /\ row.assoc \notin Incomparable
  BY DEF Compared
<1>2. Sorted(row)
  <2>1. PICK g \in Groups : row \in Range(g)
    BY <1>1, TableRows
  <2>. QED  BY <1>1, <2>1, ProfileRowsSorted, HostRowsSorted, DeviceRowsSorted, SettingRowsSorted,
            HostedDeviceRowsSorted, HostedPoolRowsSorted, AllocationRowsSorted, FromPoolRowsSorted,
            ComponentRowsSorted, CapabilitiesRowsSorted, ElementRowsSorted,
            HostProcessorMetricsSorted, ProcessorMetricsSorted, DiskMetricRowsSorted,
            NetworkPortMetricsSorted DEF Groups, AllSorted
<1>3. CASE WholeRow(row)
  BY <1>1, <1>2, <1>3, FlatSeparate, WholeTrue DEF Sorted, WholeRow
<1>4. CASE row.assoc \notin Special /\ (PartRow(row) \/ SameRow(row))
  BY <1>1, <1>2, <1>4, PartTrue, SameTrue DEF Sorted
<1>5. CASE OwnMeaning(row)
  BY <1>1, <1>2, <1>5, HostedMachines, HostedStorage, OwnSettings, PortMetrics
     DEF Sorted, OwnMeaning
<1>. QED  BY <1>2, <1>3, <1>4, <1>5 DEF Sorted

\* There is one instance of each service and of its capabilities.
LEMMA OneService ==
  ASSUME Settled(db), NEW class \in ServiceClasses
  PROVE  \E i : EnumInstances(db, class) = {i} /\ i.class = class
<1>1. class \in Served /\ class \notin Tops
  BY DEF Served, ServiceClasses, Services, ServiceCapabilities, Tops
<1>2. AllEntries(db, class) = {Entry(<<"service">>, NoPart)}
  BY ServiceClassesServed DEF AllEntries, ServiceList
<1> DEFINE r == Resource(<<"service">>, NoPart, NoProperties)
<1>3. RecordGetNext(db, class, Entry(<<"service">>, NoPart)) = {r}
  BY ServiceClassesServed DEF ServiceNext, Entry
<1>4. \E p : SetProperties(db, class, r) = {p}
  <2>1. db.host \cap {db.local} = {db.local}
    BY DEF Settled
  <2>2. SetProperties(db, class, r) = ServiceProperties(db, class)
    BY ServiceClassesServed
  <2> DEFINE P(h) == IF class \in Services THEN [Name |-> <<class>>, SystemName |-> h]
                                            ELSE [InstanceID |-> h]
  <2>3. ServiceProperties(db, class) = {P(h) : h \in {db.local}}
    BY <2>1 DEF ServiceProperties
  <2> HIDE DEF P
  <2>. QED  BY <2>2, <2>3
<1> HIDE DEF r
<1>5. PICK p : SetProperties(db, class, r) = {p}
  BY <1>4
<1>6. EnumerateClass(db, class) = {Instance(class, r, p)}
  BY <1>2, <1>3, <1>5 DEF EnumerateClass
<1>7. EnumInstances(db, class) = {Instance(class, r, p)}
  BY <1>1, <1>6, SingleInstances
<1>8. Instance(class, r, p).class = class
  BY DEF Instance
<1>. QED  BY <1>7, <1>8

\* So they know each other.
LEMMA ServiceKnown ==
  ASSUME Settled(db)
  PROVE  CapabilitiesOfService
<1>1. /\ ManagementService \in ServiceClasses /\ ManagementCapabilities \in ServiceClasses
      /\ ManagementService # ManagementCapabilities
      /\ ManagementService \notin Tops /\ ManagementCapabilities \notin Tops
  BY DEF ManagementService, ManagementCapabilities, ServiceClasses, Services, ServiceCapabilities,
         Tops
<1>2. PICK s : EnumInstances(db, ManagementService) = {s} /\ s.class = ManagementService
  BY <1>1, OneService
<1>3. PICK c : EnumInstances(db, ManagementCapabilities) = {c} /\ c.class = ManagementCapabilities
  BY <1>1, OneService
<1>4. /\ OtherSide(ManagementService) = {ManagementCapabilities}
      /\ OtherSide(ManagementCapabilities) = {ManagementService}
  BY <1>1 DEF OtherSide
<1>5. /\ UNION {EnumInstances(db, k) : k \in OtherSide(s.class)} = {c}
      /\ UNION {EnumInstances(db, k) : k \in OtherSide(c.class)} = {s}
  BY <1>2, <1>3, <1>4
<1>6. ManagementAssociators(db, s, NoKey) = {c} /\ ManagementAssociators(db, c, NoKey) = {s}
  BY <1>1, <1>2, <1>3, <1>5 DEF ManagementAssociators
<1>7. ~IsA(c.class, s.class) /\ ~IsA(s.class, c.class)
  BY <1>1, <1>2, <1>3, Single DEF IsA
<1> DEFINE ref == Reference("Xen_VSMSElementCapabilities", s, c)
<1>8. ManagementReferences(db, s) = {ref}
  BY <1>1, <1>2, <1>3, <1>5, <1>7 DEF ManagementReferences
<1>9. ManagementReferences(db, c) = {ref}
  BY <1>1, <1>2, <1>3, <1>5, <1>7 DEF ManagementReferences
<1>10. ref.lhs = s /\ ref.rhs = c
  BY DEF Reference
<1> HIDE DEF ref
<1>11. ManagementReferenceNames(db, c) = {[lhs |-> PathOf(s), rhs |-> PathOf(c)]}
  BY <1>9, <1>10 DEF ManagementReferenceNames
<1>12. ManagementAssociatorNames(db, s, NoKey)
          = {[class |-> ManagementCapabilities, path |-> PathOf(c)]}
  BY <1>3, <1>6 DEF ManagementAssociatorNames
<1>. QED  BY <1>2, <1>3, <1>6, <1>8, <1>9, <1>11, <1>12 DEF CapabilitiesOfService

\* What a client is told of relations is what xapi relates: of every row of the table of
\* associations whose keys can be compared, the routines _AssociationRoutine and
\* _ReferencesRoutine (associationProviderCommon.c) answer the related instances and no
\* others, from either side as far as they answer at all, for any pool and after any
\* changes, unless the server dies while it makes the instances of one of the sides.
THEOREM AssociationsCorrect == Spec => []AssociationsTrue
<1>1. Viewing => AssociationsTrue
  <2>1. SUFFICES ASSUME Viewing PROVE AssociationsTrue
    OBVIOUS
  <2>2. Settled(db)
    BY <2>1 DEF Viewing
  <2>. QED  BY <2>2, ServiceKnown, RowsTrue DEF AssociationsTrue, RowTrue
<1>. QED  BY <1>1, InitViewing, NextViewing, PTL DEF Spec

-----------------------------------------------------------------------------
(* The libraries: the inductive invariant                                  *)

PCs == {"out", "init", "in", "close", "again", "ended"} \cup Opening \cup Closing

\* The users that ref_count counts: between the two stores.
Counts == {"opened", "in", "close", "read_dec", "dec"}
Counted == {u \in Users : pc[u] \in Counts}

\* The libraries are up from the test of an initialisation on.
NeedsUp == Counts \cup {"read_inc", "inc"}

LibraryShape ==
    /\ ref_count_lock \in Users \cup {NoUser}
    /\ ref_count \in Nat
    /\ up \in BOOLEAN
    /\ loaded \subseteq Instances
    /\ pc \in [Users -> PCs]
    /\ register \in [Users -> 0..Cardinality(Users)]

Mutex == \A u \in Users : pc[u] \in Opening \cup Closing => ref_count_lock = u

\* Nobody unlocks a lock that is not his.
NoneAgain == \A u \in Users : pc[u] \notin {"again", "ended"}

Fresh == \A u \in Users : pc[u] \in {"inc", "dec"} => register[u] = ref_count

\* A flag is set only between the initialisation and the end of the close.
Flags == \A u \in loaded : pc[u] \in {"in", "close"} \cup Closing

UpInv == \A u \in Users : pc[u] \in NeedsUp => up

CountInv == ref_count = Cardinality(Counted)

LibraryInv == LibraryShape /\ Mutex /\ NoneAgain /\ Fresh /\ Flags /\ UpInv /\ CountInv

-----------------------------------------------------------------------------
(* Counting                                                                *)

\* A count that does not overflow.
LEMMA ModSmall == ASSUME NEW n \in Nat \ {0}, NEW x \in 0..(n - 1) PROVE x % n = x
  BY SMT

\* The counted users are finitely many, and no more than there are users.
LEMMA Finite ==
    /\ IsFiniteSet(Counted) /\ Cardinality(Counted) \in Nat
    /\ Cardinality(Users) \in Nat
    /\ Cardinality(Counted) <= Cardinality(Users)
    /\ Cardinality(Counted) = 0 <=> Counted = {}
    /\ WordSize \in Nat \ {0} /\ WordSize = Cardinality(Users) + 2
<1>1. IsFiniteSet(Users)
  BY LibraryAssumption
<1>2. Counted \subseteq Users
  BY DEF Counted
<1>3. /\ IsFiniteSet(Counted)
      /\ Cardinality(Counted) <= Cardinality(Users)
  BY <1>1, <1>2, FS_Subset
<1>4. Cardinality(Users) \in Nat /\ Cardinality(Counted) \in Nat
  BY <1>1, <1>3, FS_CardinalityType
<1>5. Cardinality(Counted) = 0 <=> Counted = {}
  BY <1>3, FS_EmptySet
<1> QED
  BY <1>3, <1>4, <1>5 DEF WordSize

\* A step of a user that is counted neither before nor after it, or both times,
\* leaves the counted users alone.
LEMMA SameCounted ==
    ASSUME NEW u \in Users, pc \in [Users -> PCs], NEW to, pc' = [pc EXCEPT ![u] = to],
           pc[u] \in Counts <=> to \in Counts
    PROVE  Counted' = Counted
  BY DEF Counted

-----------------------------------------------------------------------------
(* Every step preserves the invariant                                      *)

\* The invariant holds in the initial state.
LEMMA InitLibraryInv == LibraryInit => LibraryInv
<1> SUFFICES ASSUME LibraryInit PROVE LibraryInv
  OBVIOUS
<1>1. Counted = {}
  BY DEF LibraryInit, Counted, Counts
<1>2. CountInv
  BY <1>1, Finite DEF LibraryInit, CountInv
<1>3. 0 \in 0..Cardinality(Users)
  BY Finite
<1>4. LibraryShape
  BY <1>3 DEF LibraryInit, LibraryShape, PCs
<1> QED
  BY <1>2, <1>4 DEF LibraryInit, LibraryInv, Mutex, NoneAgain, Fresh, Flags, UpInv, NeedsUp,
                    Counts, Opening, Closing

\* What users decide outside the lock.
LEMMA DecideLibraryInv ==
    ASSUME LibraryInv, NEW u \in Users, Load(u) \/ Unload(u) \/ Leave(u) PROVE LibraryInv'
<1> USE DEF PCs, Opening, Closing, Counts
<1>1. /\ pc' \in [Users -> PCs]
      /\ Counted' = Counted
      /\ UNCHANGED <<ref_count_lock, ref_count, up, loaded, register>>
  <2>1. CASE Load(u)
    BY <2>1, SameCounted DEF Load, Goes, LibraryInv, LibraryShape
  <2>2. CASE Unload(u)
    BY <2>2, SameCounted DEF Unload, LibraryInv, LibraryShape, Flags
  <2>3. CASE Leave(u)
    BY <2>3, SameCounted DEF Leave, Goes, LibraryInv, LibraryShape
  <2> QED
    BY <2>1, <2>2, <2>3
<1>2. LibraryShape' /\ CountInv'
  BY <1>1 DEF LibraryInv, LibraryShape, CountInv
<1>3. PICK to \in {"init", "close"} : pc' = [pc EXCEPT ![u] = to]
  BY DEF Load, Unload, Leave, Goes
<1>4. Mutex' /\ NoneAgain' /\ Fresh'
  BY <1>1, <1>3 DEF LibraryInv, LibraryShape, Mutex, NoneAgain, Fresh
<1>5. Flags'
  BY <1>1, <1>3 DEF LibraryInv, LibraryShape, Flags, Load, Unload, Leave, Goes
<1>6. UpInv'
  BY <1>1, <1>3 DEF LibraryInv, LibraryShape, Flags, UpInv, NeedsUp, Load, Unload, Leave, Goes
<1> QED
  BY <1>2, <1>4, <1>5, <1>6 DEF LibraryInv

\* The steps under the lock.
LEMMA LockedLibraryInv ==
    ASSUME Generators = {}, LibraryInv, NEW u \in Users,
           Lock(u) \/ Start(u) \/ ReadCount(u) \/ Increment(u) \/ Decrement(u) \/ Finish(u)
             \/ Unlock(u) \/ UnlockAgain(u)
    PROVE  LibraryInv'
<1> USE DEF PCs, Opening, Closing, Counts
<1> USE LibraryAssumption
<1>1. CASE Lock(u)
  <2>1. Counted' = Counted
    BY <1>1, SameCounted DEF Lock, Goes, LibraryInv, LibraryShape
  <2>2. LibraryShape' /\ CountInv'
    BY <1>1, <2>1 DEF Lock, Goes, LibraryInv, LibraryShape, CountInv
  <2>3. \A v \in Users : pc[v] \notin Opening \cup Closing
    BY <1>1 DEF Lock, LibraryInv, Mutex
  <2>4. PICK to \in {"test", "read_dec"} : pc' = [pc EXCEPT ![u] = to]
    BY <1>1 DEF Lock, Goes
  <2>5. Mutex' /\ NoneAgain' /\ Fresh'
    BY <1>1, <2>3, <2>4 DEF Lock, LibraryInv, LibraryShape, Mutex, NoneAgain, Fresh
  <2>6. Flags'
    BY <1>1 DEF Lock, Goes, LibraryInv, LibraryShape, Flags, Users
  <2>7. UpInv'
    BY <1>1 DEF Lock, Goes, LibraryInv, LibraryShape, UpInv, NeedsUp
  <2> QED
    BY <2>2, <2>5, <2>6, <2>7 DEF LibraryInv
<1>2. CASE Start(u)
  <2>1. Counted' = Counted
    BY <1>2, SameCounted DEF Start, Goes, LibraryInv, LibraryShape
  <2>2. LibraryShape' /\ CountInv'
    BY <1>2, <2>1 DEF Start, Goes, LibraryInv, LibraryShape, CountInv
  <2>3. up'
    <3>1. CASE ref_count = 0
      BY <3>1, <1>2 DEF Start
    <3>2. CASE ref_count # 0
      <4>1. PICK v \in Users : pc[v] \in Counts
        BY <3>2, Finite DEF LibraryInv, CountInv, Counted
      <4> QED
        BY <4>1, <1>2 DEF LibraryInv, UpInv, NeedsUp, Start
    <3> QED
      BY <3>1, <3>2
  <2> QED
    BY <1>2, <2>2, <2>3 DEF Start, Goes, LibraryInv, LibraryShape, Mutex, NoneAgain, Fresh, Flags,
           UpInv
<1>3. CASE ReadCount(u)
  <2>1. Counted' = Counted
    BY <1>3, SameCounted DEF ReadCount, Goes, LibraryInv, LibraryShape
  <2>2. LibraryShape' /\ CountInv'
    BY <1>3, <2>1, Finite DEF ReadCount, Goes, LibraryInv, LibraryShape, CountInv
  <2>3. Mutex' /\ NoneAgain' /\ Fresh'
    BY <1>3 DEF ReadCount, Goes, LibraryInv, LibraryShape, Mutex, NoneAgain, Fresh
  <2>4. Flags'
    BY <1>3 DEF ReadCount, Goes, LibraryInv, LibraryShape, Flags, Users
  <2>5. UpInv'
    BY <1>3 DEF ReadCount, Goes, LibraryInv, LibraryShape, UpInv, NeedsUp
  <2> QED
    BY <2>2, <2>3, <2>4, <2>5 DEF LibraryInv
<1>4. CASE Increment(u)
  <2>1. /\ u \notin Counted
        /\ Counted' = Counted \cup {u}
    BY <1>4 DEF Increment, Goes, LibraryInv, LibraryShape, Counted
  <2>2. Cardinality(Counted') = Cardinality(Counted) + 1
    BY <2>1, Finite, FS_AddElement
  <2>3. Cardinality(Counted) + 1 \in 0..(WordSize - 1)
    BY Finite
  <2>4. ref_count' = ref_count + 1
    BY <1>4, <2>3, Finite, ModSmall DEF Increment, Goes, LibraryInv, Fresh, CountInv
  <2>5. LibraryShape' /\ CountInv'
    BY <1>4, <2>2, <2>4 DEF Increment, Goes, LibraryInv, LibraryShape, CountInv
  <2>6. \A v \in Users \ {u} : pc[v] \notin {"inc", "dec"}
    BY <1>4 DEF Increment, Goes, LibraryInv, Mutex
  <2> QED
    BY <1>4, <2>5, <2>6
       DEF Increment, Goes, LibraryInv, LibraryShape, Mutex, NoneAgain, Fresh, Flags, UpInv, NeedsUp
<1>5. CASE Decrement(u)
  <2>1. /\ u \in Counted
        /\ Counted' = Counted \ {u}
    BY <1>5 DEF Decrement, Goes, LibraryInv, LibraryShape, Counted
  <2>2. Cardinality(Counted') = Cardinality(Counted) - 1
    BY <2>1, Finite, FS_RemoveElement
  <2>3. Cardinality(Counted) - 1 \in 0..(WordSize - 1)
    BY <2>1, Finite
  <2>4. ref_count' = ref_count - 1
    BY <1>5, <2>3, Finite, ModSmall DEF Decrement, Goes, LibraryInv, Fresh, CountInv
  <2>5. LibraryShape' /\ CountInv'
    BY <1>5, <2>2, <2>3, <2>4 DEF Decrement, Goes, LibraryInv, LibraryShape, CountInv
  <2>6. \A v \in Users \ {u} : pc[v] \notin {"inc", "dec"}
    BY <1>5 DEF Decrement, Goes, LibraryInv, Mutex
  <2> QED
    BY <1>5, <2>5, <2>6
       DEF Decrement, Goes, LibraryInv, LibraryShape, Mutex, NoneAgain, Fresh, Flags, UpInv, NeedsUp
<1>6. CASE Finish(u)
  <2>1. Counted' = Counted
    BY <1>6, SameCounted DEF Finish, Goes, LibraryInv, LibraryShape
  <2>2. LibraryShape' /\ CountInv'
    BY <1>6, <2>1 DEF Finish, Goes, LibraryInv, LibraryShape, CountInv
  <2>3. UpInv'
    <3>1. ASSUME NEW v \in Users, pc'[v] \in NeedsUp PROVE up'
      <4>1. v # u /\ pc[v] = pc'[v]
        BY <1>6, <3>1 DEF Finish, Goes, LibraryInv, LibraryShape, NeedsUp
      <4>2. v \in Counted
        BY <1>6, <3>1, <4>1 DEF Finish, Goes, LibraryInv, Mutex, NeedsUp, Counted
      <4>3. ref_count # 0
        BY <4>2, Finite DEF LibraryInv, CountInv
      <4> QED
        BY <1>6, <3>1, <4>1, <4>3 DEF Finish, LibraryInv, UpInv
    <3> QED
      BY <3>1 DEF UpInv
  <2> QED
    BY <1>6, <2>2, <2>3 DEF Finish, Goes, LibraryInv, LibraryShape, Mutex, NoneAgain, Fresh, Flags
<1>7. CASE Unlock(u)
  <2>1. pc' \in [Users -> PCs] /\ Counted' = Counted
    <3>1. CASE Goes(u, "opened", "in")
      BY <3>1, SameCounted DEF Goes, LibraryInv, LibraryShape
    <3>2. CASE Goes(u, "closed", "out")
      BY <3>2, SameCounted DEF Goes, LibraryInv, LibraryShape
    <3> QED
      BY <1>7, <3>1, <3>2 DEF Unlock
  <2>2. LibraryShape' /\ CountInv'
    BY <1>7, <2>1 DEF Unlock, Goes, LibraryInv, LibraryShape, CountInv
  <2>3. Mutex'
    BY <1>7 DEF Unlock, Goes, LibraryInv, LibraryShape, Mutex
  <2>4. NoneAgain' /\ Fresh'
    BY <1>7 DEF Unlock, Goes, LibraryInv, LibraryShape, NoneAgain, Fresh
  <2>5. Flags'
    <3>1. CASE Goes(u, "opened", "in") /\ loaded' = loaded \cup ({u} \cap Instances)
      BY <3>1 DEF Goes, LibraryInv, LibraryShape, Flags
    <3>2. CASE Goes(u, "closed", "out") /\ loaded' = loaded \ {u}
      BY <3>2 DEF Goes, LibraryInv, LibraryShape, Flags, Users
    <3> QED
      BY <1>7, <3>1, <3>2 DEF Unlock
  <2>6. UpInv'
    BY <1>7 DEF Unlock, Goes, LibraryInv, LibraryShape, UpInv, NeedsUp
  <2> QED
    BY <2>2, <2>3, <2>4, <2>5, <2>6 DEF LibraryInv
<1>8. CASE UnlockAgain(u)
  BY <1>8 DEF UnlockAgain, Goes, LibraryInv, NoneAgain
<1> QED
  BY <1>1, <1>2, <1>3, <1>4, <1>5, <1>6, <1>7, <1>8

\* The invariant of the libraries without generators.
THEOREM LibraryInvariant == ASSUME Generators = {} PROVE LibrarySpec => []LibraryInv
<1>1. LibraryInv /\ [LibraryNext]_libraryVars => LibraryInv'
  <2> SUFFICES ASSUME LibraryInv, [LibraryNext]_libraryVars PROVE LibraryInv'
    OBVIOUS
  <2>1. CASE UNCHANGED libraryVars
    BY <2>1 DEF libraryVars, LibraryInv, LibraryShape, Mutex, NoneAgain, Fresh, Flags, UpInv,
           CountInv, Counted
  <2>2. CASE LibraryNext
    <3>1. PICK u \in Users : User(u)
      BY <2>2 DEF LibraryNext
    <3> QED
      BY <3>1, DecideLibraryInv, LockedLibraryInv DEF User
  <2> QED
    BY <2>1, <2>2
<1> QED
  BY <1>1, InitLibraryInv, PTL DEF LibrarySpec

-----------------------------------------------------------------------------
(* The theorems about the libraries                                        *)

\* Without generators the count stays between zero and the number of users: an
\* unload that is repeated takes nothing from it.
THEOREM LibraryTypeCorrect == ASSUME Generators = {} PROVE LibrarySpec => []LibraryTypeOK
<1>1. LibraryInv => LibraryTypeOK
  BY Finite DEF LibraryInv, LibraryShape, CountInv, LibraryTypeOK, PCs
<1> QED
  BY <1>1, LibraryInvariant, PTL

\* Without generators nobody finds the libraries finalised under him.
THEOREM UpSafe == ASSUME Generators = {} PROVE LibrarySpec => []UpWhileUsed
<1>1. LibraryInv => UpWhileUsed
  BY DEF LibraryInv, UpInv, NeedsUp, Counts, UpWhileUsed
<1> QED
  BY <1>1, LibraryInvariant, PTL

\* Without generators the count is exact whenever nobody is changing it.
THEOREM CountSafe == ASSUME Generators = {} PROVE LibrarySpec => []CountExact
<1>1. LibraryInv => CountExact
  <2> SUFFICES ASSUME LibraryInv, \A u \in Users : pc[u] \notin Opening \cup Closing
               PROVE  ref_count = Cardinality({u \in Users : pc[u] \in {"in", "close"}})
    BY DEF CountExact
  <2>1. Counted = {u \in Users : pc[u] \in {"in", "close"}}
    BY DEF Counted, Counts, Opening, Closing
  <2> QED
    BY <2>1 DEF LibraryInv, CountInv
<1> QED
  BY <1>1, LibraryInvariant, PTL
=============================================================================
