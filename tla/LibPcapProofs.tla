--------------------------- MODULE LibPcapProofs ---------------------------
(***************************************************************************)
(* Proofs about LibPcap, for every list of calls in TestAll, every list of *)
(* devices that libpcap may find and every set of addresses.               *)
(***************************************************************************)
EXTENDS LibPcap, SequenceTheorems, TLAPS

USE LibPcapAssumption

-----------------------------------------------------------------------------
(* Lists that are printed from the front                                   *)

LEMMA PrefixOfConcat ==
  ASSUME NEW S, NEW s \in Seq(S), NEW t \in Seq(S)
  PROVE  IsPrefix(s, s \o t)
<1>1. Len(s) \in Nat /\ Len(t) \in Nat
  BY LenProperties
<1>2. \A i \in 1 .. Len(s) : s[i] \in S /\ (s \o t)[i] \in S /\ (s \o t)[i] = s[i]
  BY <1>1, ConcatProperties, ElementOfSeq
<1>3. /\ SubSeq(s, 1, Len(s)) \in Seq(S)
      /\ Len(SubSeq(s, 1, Len(s))) = Len(s)
      /\ \A i \in 1 .. Len(s) : SubSeq(s, 1, Len(s))[i] = s[i]
  BY <1>1, <1>2, SubSeqProperties
<1>4. /\ SubSeq(s \o t, 1, Len(s)) \in Seq(S)
      /\ Len(SubSeq(s \o t, 1, Len(s))) = Len(s)
      /\ \A i \in 1 .. Len(s) : SubSeq(s \o t, 1, Len(s))[i] = (s \o t)[i]
  BY <1>1, <1>2, SubSeqProperties
<1>5. SubSeq(s, 1, Len(s)) = SubSeq(s \o t, 1, Len(s))
  BY <1>2, <1>3, <1>4, SeqEqual
<1>6. Len(s) <= Len(s \o t)
  BY <1>1, ConcatProperties
<1> QED
  BY <1>5, <1>6 DEF IsPrefix

(* Printing the first name of the rest takes it over from the rest.        *)
LEMMA OneMoreName ==
  ASSUME NEW S, NEW s \in Seq(S), NEW t \in Seq(S), t # <<>>
  PROVE  /\ Append(s, Head(t)) \in Seq(S)
         /\ Append(s, Head(t)) # <<>>
         /\ Last(Append(s, Head(t))) = Head(t)
         /\ Tail(t) \in Seq(S)
         /\ Append(s, Head(t)) \o Tail(t) = s \o t
<1> DEFINE a == Append(s, Head(t))
<1>1. Head(t) \in S /\ Tail(t) \in Seq(S) /\ Len(Tail(t)) = Len(t) - 1
      /\ \A i \in 1 .. Len(Tail(t)) : Tail(t)[i] = t[i + 1]
  BY HeadTailProperties
<1>2. Len(s) \in Nat /\ Len(t) \in Nat /\ Len(t) > 0
  BY LenProperties, EmptySeq
<1>3. /\ a \in Seq(S) /\ a # <<>> /\ Len(a) = Len(s) + 1
      /\ \A i \in 1 .. Len(s) : a[i] = s[i]
      /\ a[Len(s) + 1] = Head(t)
  BY <1>1, AppendProperties
<1>4. Last(a) = Head(t)
  BY <1>3 DEF Last
<1> HIDE DEF a
<1>5. /\ a \o Tail(t) \in Seq(S) /\ Len(a \o Tail(t)) = Len(s) + Len(t)
      /\ \A i \in 1 .. Len(s) + Len(t) :
           (a \o Tail(t))[i] = IF i <= Len(s) + 1 THEN a[i]
                               ELSE Tail(t)[i - (Len(s) + 1)]
  <2>1. Len(a) + Len(Tail(t)) = Len(s) + Len(t)
    BY <1>1, <1>2, <1>3
  <2>2. /\ a \o Tail(t) \in Seq(S)
        /\ Len(a \o Tail(t)) = Len(a) + Len(Tail(t))
        /\ \A i \in 1 .. Len(a) + Len(Tail(t)) :
             (a \o Tail(t))[i] = IF i <= Len(a) THEN a[i] ELSE Tail(t)[i - Len(a)]
    BY ONLY <1>1, <1>3, ConcatProperties
  <2> QED
    BY ONLY <2>1, <2>2, <1>3
<1>6. /\ s \o t \in Seq(S) /\ Len(s \o t) = Len(s) + Len(t)
      /\ \A i \in 1 .. Len(s) + Len(t) :
           (s \o t)[i] = IF i <= Len(s) THEN s[i] ELSE t[i - Len(s)]
  BY <1>2, ConcatProperties
<1>7. Head(t) = t[1]
  BY <1>2
<1>8. \A i \in 1 .. Len(s) + Len(t) : (a \o Tail(t))[i] = (s \o t)[i]
  <2> TAKE i \in 1 .. Len(s) + Len(t)
  <2>1. CASE i <= Len(s)
    BY <2>1, <1>2, <1>3, <1>5, <1>6
  <2>2. CASE i = Len(s) + 1
    BY <2>2, <1>2, <1>3, <1>5, <1>6, <1>7
  <2>3. CASE i > Len(s) + 1
    <3>1. i - (Len(s) + 1) \in 1 .. Len(Tail(t))
          /\ i - (Len(s) + 1) + 1 = i - Len(s)
      BY <2>3, <1>1, <1>2
    <3>2. Tail(t)[i - (Len(s) + 1)] = t[i - Len(s)]
      BY <3>1, <1>1
    <3> QED
      BY <3>2, <2>3, <1>2, <1>5, <1>6
  <2>4. i <= Len(s) \/ i = Len(s) + 1 \/ i > Len(s) + 1
    BY <1>2
  <2> QED
    BY <2>1, <2>2, <2>3, <2>4
<1>9. a \o Tail(t) = s \o t
  BY <1>2, <1>5, <1>6, <1>8, SeqEqual
<1> QED
  BY <1>1, <1>3, <1>4, <1>9 DEF a

-----------------------------------------------------------------------------
(* The inductive invariant                                                 *)

Stages ==
  [ListDevices |-> {"find", "loop", "return"},
   GetDeviceInfo |-> {"find", "loop", "lookup", "print", "return"},
   CapturePackets |-> {"open", "capture", "return"},
   pcap_lookupdev_TEST |->
     {"find", "lookup", "formatIp", "formatMask", "print", "return"}]

PlaceInv ==
  /\ agenda \in Seq(Function)
  /\ \/ fn = None /\ stage = None
     \/ fn \in Function /\ stage \in Stages[fn]
  /\ found \in Seq(STRING) /\ device \in Seq(STRING) /\ names \in Seq(STRING)
  /\ DOMAIN texts = {"ip", "mask"}

(* The list falls into what has been printed and what is left of it; while *)
(* a device is looked up, it is at once the last that was printed and the  *)
(* first that is left.                                                     *)
Unknown == names # <<>> /\ told.name = Last(names) /\ ~ told.answered

NamesInv ==
  /\ IsPrefix(names, found)
  /\ fn \in {"ListDevices", "GetDeviceInfo"} =>
       /\ stage \in {"find", "loop"} => found = names \o device
       /\ stage \in {"lookup", "print"} =>
            /\ device # <<>> /\ names # <<>> /\ Last(names) = Head(device)
            /\ found = names \o Tail(device)
       /\ stage = "return" => names = found \/ Unknown
  /\ fn \in {"CapturePackets", "pcap_lookupdev_TEST"} => names = <<>>
  /\ stage = "find" => found = <<>> /\ device = <<>>

(* From the answer of pcap_lookupnet until it is printed, the variables    *)
(* hold it, and then their texts.                                          *)
JustAnswered ==
  told.answered /\ told.name = Head(device) /\ told.net = net

AnswerInv ==
  /\ stage \in {"print", "formatIp", "formatMask"} => JustAnswered
  /\ fn = "pcap_lookupdev_TEST" =>
       /\ stage \in {"formatMask", "print"} => texts.ip = inet_ntoa(net.ip)
       /\ stage = "print" => texts.mask = inet_ntoa(net.mask)

(* Nothing stays on show when the next question is asked.                  *)
ShownInv ==
  /\ PrintsOwnNet
  /\ shown # NothingShown =>
       \/ fn = "GetDeviceInfo" /\ stage = "loop"
       \/ fn = "pcap_lookupdev_TEST" /\ stage = "return"

PcapInv == PlaceInv /\ NamesInv /\ AnswerInv /\ ShownInv

LEMMA NothingYet ==
  ASSUME NEW S, NEW t \in Seq(S)
  PROVE  <<>> \o t = t /\ IsPrefix(<<>>, t)
<1>1. <<>> \in Seq(S) /\ <<>> \o t = t
  BY EmptySeq, ConcatEmptySeq
<1>2. IsPrefix(<<>>, <<>> \o t)
  BY <1>1, PrefixOfConcat
<1> QED
  BY <1>1, <1>2

LEMMA InitHolds == Init => PcapInv
<1> SUFFICES ASSUME Init PROVE PcapInv
  OBVIOUS
<1> USE DEF Init
<1>1. PlaceInv
  BY EmptySeq DEF PlaceInv, NoNet
<1>2. NamesInv
  <2>1. IsPrefix(<<>>, <<>>)
    BY EmptySeq, NothingYet
  <2> QED
    BY <2>1 DEF NamesInv, None
<1>3. AnswerInv
  BY DEF AnswerInv, None
<1>4. ShownInv
  BY DEF ShownInv, PrintsOwnNet
<1> QED
  BY <1>1, <1>2, <1>3, <1>4 DEF PcapInv

LEMMA StepHolds == PcapInv /\ [Next]_pcapVars => PcapInv'
<1> SUFFICES ASSUME PcapInv, [Next]_pcapVars PROVE PcapInv'
  OBVIOUS
<1> USE DEF PcapInv
<1>1. CASE Begin
  <2>1. fn' \in Function /\ agenda' \in Seq(Function) /\ stage' = Start[fn']
    BY <1>1, HeadTailProperties DEF Begin, PlaceInv
  <2>2. PlaceInv'
    BY <1>1, <2>1, EmptySeq DEF Begin, PlaceInv, Start, Stages, Function, NoNet
  <2>3. NamesInv'
    <3>1. IsPrefix(<<>>, <<>>) /\ <<>> \o <<>> = <<>>
      BY EmptySeq, NothingYet
    <3> QED
      BY <1>1, <2>1, <3>1 DEF Begin, NamesInv, Start, Function
  <2>4. AnswerInv'
    BY <2>1 DEF AnswerInv, Start, Function
  <2>5. ShownInv'
    BY <1>1 DEF Begin, ShownInv, PrintsOwnNet
  <2> QED
    BY <2>2, <2>3, <2>4, <2>5
<1>2. CASE Return
  <2>1. PlaceInv' /\ NamesInv'
    BY <1>2 DEF Return, PlaceInv, NamesInv, None
  <2>2. AnswerInv' /\ ShownInv'
    BY <1>2 DEF Return, AnswerInv, ShownInv, PrintsOwnNet, None
  <2> QED
    BY <2>1, <2>2
<1>3. CASE Exit
  <2>1. PlaceInv' /\ NamesInv'
    BY <1>3 DEF Exit, PlaceInv, NamesInv, Unknown
  <2>2. AnswerInv' /\ ShownInv'
    BY <1>3 DEF Exit, AnswerInv, JustAnswered, ShownInv, PrintsOwnNet
  <2> QED
    BY <2>1, <2>2
<1>4. CASE FindAllDevs
  <2>1. fn \in {"ListDevices", "GetDeviceInfo"} /\ stage = "find"
    BY <1>4 DEF FindAllDevs, At
  <2>2. found = <<>> /\ device = <<>> /\ names \in Seq(STRING)
        /\ found = names \o device
    BY <2>1 DEF PlaceInv, NamesInv
  <2>3. names = <<>>
    BY <2>2, ConcatEqualIffEmpty
  <2>4. found' \in Seq(STRING) /\ device' = found' /\ names' = <<>>
    BY <1>4, <2>2, <2>3, EmptySeq DEF FindAllDevs
  <2>5. found' = names' \o device' /\ IsPrefix(names', found')
    BY <2>4, NothingYet
  <2>6. (stage' = "loop") \/ (stage' = "return" /\ found' = names')
    BY <1>4, <2>2, <2>3 DEF FindAllDevs
  <2>7. fn' = fn /\ agenda' = agenda /\ texts' = texts /\ shown' = shown
    BY <1>4 DEF FindAllDevs
  <2>8. PlaceInv'
    BY <2>1, <2>4, <2>6, <2>7, EmptySeq DEF PlaceInv, Stages
  <2>9. NamesInv'
    BY <2>1, <2>4, <2>5, <2>6, <2>7 DEF NamesInv
  <2>10. shown = NothingShown
    BY <2>1 DEF ShownInv
  <2>11. AnswerInv' /\ ShownInv'
    BY <2>1, <2>6, <2>7, <2>10 DEF AnswerInv, ShownInv, PrintsOwnNet
  <2> QED
    BY <2>8, <2>9, <2>11
<1>5. CASE LoopEnds
  <2>1. fn \in {"ListDevices", "GetDeviceInfo"} /\ stage = "loop" /\ device = <<>>
    BY <1>5 DEF LoopEnds, At, MoreDevices
  <2>2. found = names
    BY <2>1, ConcatEmptySeq DEF PlaceInv, NamesInv
  <2>3. PlaceInv' /\ NamesInv'
    BY <1>5, <2>1, <2>2 DEF LoopEnds, PlaceInv, NamesInv, Stages
  <2>4. AnswerInv' /\ ShownInv'
    BY <1>5, <2>1 DEF LoopEnds, AnswerInv, ShownInv, PrintsOwnNet
  <2> QED
    BY <2>3, <2>4
<1>6. CASE PrintName
  <2>1. fn \in {"ListDevices", "GetDeviceInfo"} /\ stage = "loop" /\ device # <<>>
        /\ found = names \o device
    BY <1>6 DEF PrintName, At, MoreDevices, NamesInv
  <2>2. names \in Seq(STRING) /\ device \in Seq(STRING) /\ found \in Seq(STRING)
    BY DEF PlaceInv
  <2>3. /\ names' \in Seq(STRING) /\ names' # <<>> /\ Last(names') = Head(device)
        /\ Tail(device) \in Seq(STRING) /\ found = names' \o Tail(device)
    BY <1>6, <2>1, <2>2, OneMoreName DEF PrintName
  <2>4. IsPrefix(names', found)
    BY <2>3, PrefixOfConcat
  <2>5. \/ fn = "ListDevices" /\ stage' = "loop" /\ device' = Tail(device)
        \/ fn = "GetDeviceInfo" /\ stage' = "lookup" /\ device' = device
    BY <1>6 DEF PrintName, At
  <2>6. /\ fn' = fn /\ agenda' = agenda /\ texts' = texts /\ found' = found
        /\ shown' = NothingShown
    BY <1>6 DEF PrintName
  <2>7. PlaceInv'
    <3>1. agenda' \in Seq(Function) /\ DOMAIN texts' = {"ip", "mask"}
      BY <2>6 DEF PlaceInv
    <3>2. fn' \in Function /\ stage' \in Stages[fn']
      BY <2>5, <2>6 DEF Function, Stages
    <3>3. found' \in Seq(STRING) /\ device' \in Seq(STRING) /\ names' \in Seq(STRING)
      BY <2>2, <2>3, <2>5, <2>6
    <3> QED
      BY <3>1, <3>2, <3>3 DEF PlaceInv
  <2>8. NamesInv'
    BY <2>1, <2>3, <2>4, <2>5, <2>6 DEF NamesInv
  <2>9. AnswerInv' /\ ShownInv'
    BY <2>5, <2>6 DEF AnswerInv, ShownInv, PrintsOwnNet
  <2> QED
    BY <2>7, <2>8, <2>9
<1>7. CASE LookupNet
  <2>1. fn \in {"GetDeviceInfo", "pcap_lookupdev_TEST"} /\ stage = "lookup"
    BY <1>7 DEF LookupNet, At
  <2>2. /\ fn' = fn /\ agenda' = agenda /\ texts' = texts /\ found' = found
        /\ device' = device /\ names' = names /\ shown' = shown
    BY <1>7 DEF LookupNet
  <2>3. \/ /\ stage' = IF fn = "GetDeviceInfo" THEN "print" ELSE "formatIp"
           /\ JustAnswered'
        \/ /\ stage' = "return"
           /\ told'.name = Head(device) /\ ~ told'.answered
    BY <1>7, <2>2 DEF LookupNet, JustAnswered, OnLookupFailure
  <2>4. PlaceInv'
    BY <2>1, <2>2, <2>3 DEF PlaceInv, Stages
  <2>5. NamesInv'
    BY <2>1, <2>2, <2>3 DEF NamesInv, Unknown
  <2>6. AnswerInv'
    BY <2>1, <2>2, <2>3 DEF AnswerInv
  <2>7. shown = NothingShown
    BY <2>1 DEF ShownInv
  <2>8. ShownInv'
    BY <2>2, <2>7 DEF ShownInv, PrintsOwnNet
  <2> QED
    BY <2>4, <2>5, <2>6, <2>8
<1>8. CASE PrintNet
  <2>1. fn = "GetDeviceInfo" /\ stage = "print" /\ JustAnswered
    BY <1>8 DEF PrintNet, At, AnswerInv
  <2>2. /\ device # <<>> /\ names # <<>> /\ found = names \o Tail(device)
        /\ IsPrefix(names, found)
    BY <2>1 DEF NamesInv
  <2>3. /\ fn' = fn /\ agenda' = agenda /\ texts' = texts /\ found' = found
        /\ device' = Tail(device) /\ names' = names /\ told' = told
        /\ stage' = "loop"
        /\ shown' = [name |-> Head(device), ip |-> net.ip, mask |-> net.mask]
    BY <1>8 DEF PrintNet
  <2>4. PlaceInv'
    BY <2>1, <2>2, <2>3, HeadTailProperties DEF PlaceInv, Stages
  <2>5. NamesInv'
    BY <2>1, <2>2, <2>3 DEF NamesInv
  <2>6. AnswerInv' /\ ShownInv'
    BY <2>1, <2>3 DEF AnswerInv, ShownInv, PrintsOwnNet, JustAnswered
  <2> QED
    BY <2>4, <2>5, <2>6
<1>9. CASE LookupDev
  <2>1. fn = "pcap_lookupdev_TEST" /\ stage = "find" /\ names = <<>>
        /\ found = <<>> /\ device = <<>>
    BY <1>9 DEF LookupDev, At, NamesInv
  <2>2. /\ fn' = fn /\ agenda' = agenda /\ texts' = texts /\ names' = <<>>
        /\ shown' = shown /\ device' = found' /\ stage' \in {"lookup", "return"}
    BY <1>9, <2>1 DEF LookupDev
  <2>3. found' \in Seq(STRING)
    <3>1. CASE \E list \in Lists : list # <<>> /\ found' = <<Head(list)>>
      BY <3>1, HeadTailProperties
    <3>2. CASE found' = <<>>
      BY <3>2, EmptySeq
    <3> QED
      BY <1>9, <2>1, <3>1, <3>2 DEF LookupDev
  <2>4. IsPrefix(names', found')
    BY <2>2, <2>3, NothingYet
  <2>5. PlaceInv'
    BY <2>1, <2>2, <2>3 DEF PlaceInv, Stages
  <2>6. NamesInv'
    BY <2>1, <2>2, <2>4 DEF NamesInv
  <2>7. shown = NothingShown
    BY <2>1 DEF ShownInv
  <2>8. AnswerInv' /\ ShownInv'
    BY <2>1, <2>2, <2>7 DEF AnswerInv, ShownInv, PrintsOwnNet
  <2> QED
    BY <2>5, <2>6, <2>8
<1>10. CASE FormatIp
  <2>1. fn = "pcap_lookupdev_TEST" /\ stage = "formatIp" /\ JustAnswered
    BY <1>10 DEF FormatIp, At, AnswerInv
  <2>2. /\ stage' = "formatMask" /\ DOMAIN texts' = {"ip", "mask"}
        /\ texts'.ip = inet_ntoa(net.ip)
    BY <1>10 DEF FormatIp, PlaceInv
  <2>3. UNCHANGED <<agenda, fn, found, device, net, names, told, shown>>
    BY <1>10 DEF FormatIp
  <2>4. PlaceInv' /\ NamesInv'
    BY <2>1, <2>2, <2>3 DEF PlaceInv, NamesInv, Stages
  <2>5. AnswerInv'
    BY <2>1, <2>2, <2>3 DEF AnswerInv, JustAnswered
  <2>6. ShownInv'
    BY <2>1, <2>2, <2>3 DEF ShownInv, PrintsOwnNet
  <2> QED
    BY <2>4, <2>5, <2>6
<1>11. CASE FormatMask
  <2>1. fn = "pcap_lookupdev_TEST" /\ stage = "formatMask" /\ JustAnswered
        /\ texts.ip = inet_ntoa(net.ip)
    BY <1>11 DEF FormatMask, At, AnswerInv
  <2>2. /\ stage' = "print" /\ DOMAIN texts' = {"ip", "mask"}
        /\ texts'.ip = texts.ip /\ texts'.mask = inet_ntoa(net.mask)
    BY <1>11 DEF FormatMask, PlaceInv
  <2>3. UNCHANGED <<agenda, fn, found, device, net, names, told, shown>>
    BY <1>11 DEF FormatMask
  <2>4. PlaceInv' /\ NamesInv'
    BY <2>1, <2>2, <2>3 DEF PlaceInv, NamesInv, Stages
  <2>5. AnswerInv'
    BY <2>1, <2>2, <2>3 DEF AnswerInv, JustAnswered
  <2>6. ShownInv'
    BY <2>1, <2>2, <2>3 DEF ShownInv, PrintsOwnNet
  <2> QED
    BY <2>4, <2>5, <2>6
<1>12. CASE PrintTexts
  <2>1. fn = "pcap_lookupdev_TEST" /\ stage = "print" /\ JustAnswered
        /\ texts.ip = inet_ntoa(net.ip) /\ texts.mask = inet_ntoa(net.mask)
    BY <1>12 DEF PrintTexts, At, AnswerInv
  <2>2. /\ stage' = "return"
        /\ shown' = [name |-> Head(device), ip |-> texts.ip, mask |-> texts.mask]
    BY <1>12 DEF PrintTexts, IpText
  <2>3. UNCHANGED <<agenda, fn, found, device, net, texts, names, told>>
    BY <1>12 DEF PrintTexts
  <2>4. PlaceInv' /\ NamesInv'
    BY <2>1, <2>2, <2>3 DEF PlaceInv, NamesInv, Stages
  <2>5. AnswerInv' /\ ShownInv'
    BY <2>1, <2>2, <2>3 DEF AnswerInv, JustAnswered, ShownInv, PrintsOwnNet
  <2> QED
    BY <2>4, <2>5
<1>13. CASE OpenLive \/ CaptureEnds
  <2>1. /\ fn = "CapturePackets" /\ stage \in {"open", "capture"}
        /\ stage' \in {"capture", "return"}
        /\ UNCHANGED <<agenda, fn, found, device, net, texts, names, told, shown>>
    BY <1>13 DEF OpenLive, CaptureEnds, At, OnCaptureError
  <2>2. PlaceInv' /\ NamesInv'
    BY <2>1 DEF PlaceInv, NamesInv, Stages
  <2>3. AnswerInv' /\ ShownInv'
    BY <2>1 DEF AnswerInv, ShownInv, PrintsOwnNet
  <2> QED
    BY <2>2, <2>3
<1>14. CASE UNCHANGED pcapVars
  <2>1. PlaceInv' /\ NamesInv'
    BY <1>14 DEF pcapVars, PlaceInv, NamesInv, Unknown
  <2>2. AnswerInv' /\ ShownInv'
    BY <1>14 DEF pcapVars, AnswerInv, JustAnswered, ShownInv, PrintsOwnNet
  <2> QED
    BY <2>1, <2>2
<1> QED
  BY <1>1, <1>2, <1>3, <1>4, <1>5, <1>6, <1>7, <1>8, <1>9, <1>10, <1>11, <1>12,
     <1>13, <1>14 DEF Next, Progress

LEMMA PcapCorrect == Spec => []PcapInv
<1> QED
  BY InitHolds, StepHolds, PTL DEF Spec

(* LibPcapExperiments.cpp:87-99, 182-225: a function never prints for a    *)
(* device what its variables held before libpcap answered, nor the network *)
(* of another device, nor one text twice.                                  *)
THEOREM PrintsOnlyOwnNet == Spec => []PrintsOwnNet
<1>1. PcapInv => PrintsOwnNet
  BY DEF PcapInv, ShownInv
<1> QED
  BY <1>1, PcapCorrect, PTL

(* LibPcapExperiments.cpp:65-68, 87-99: the loops over devices leave none  *)
(* out and none in front, however long the list is, and GetDeviceInfo      *)
(* stops early only at a device whose network is not known.                *)
THEOREM NamesEveryDevice == Spec => []NamesAllDevices
<1>1. PcapInv => NamesAllDevices
  BY DEF PcapInv, NamesInv, NamesAllDevices, Unknown
<1> QED
  BY <1>1, PcapCorrect, PTL

=============================================================================
