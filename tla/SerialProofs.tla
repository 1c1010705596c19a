---------------------------- MODULE SerialProofs ----------------------------
(***************************************************************************)
(* Proofs about the serial boot loader, for pages below 65536 bytes, an    *)
(* application that word addresses of sixteen bits reach, every set of     *)
(* blocks up to a page, addresses and questions of the host, and any       *)
(* number of power failures (SerialAssumption, HostAssumption).            *)
(***************************************************************************)
EXTENDS SerialBootProps, SequenceTheorems, TLAPS

\* The number of arguments that cmd takes when a are the first of them.
Needed(c, a) ==
  IF c = 66 /\ Len(a) >= 3 THEN 3 + Buffered((a[1] * 256 + a[2]) % Word) ELSE Arguments(c)

LoaderInv ==
  /\ mode \in {"wait", "blink", "loader", "app", "off", "hung"} /\ cnt \in 0..WaitValue
  /\ cmd \in {None} \union WithArguments
  /\ args \in Seq(Char) /\ (cmd = None => args = <<>>) /\ (cmd # None => Len(args) <= Needed(cmd, args))
  /\ erasing \in {None} \union 0..FlashSize /\ (erasing # None => erasing % PageSize = 0)
  /\ cmd # None => mode = "loader" /\ erasing = None
  /\ erasing # None => mode = "loader"
  /\ address \in 0..(Word - 1) /\ device \in Char
  /\ DOMAIN flash = 0..(FlashSize - 1) /\ DOMAIN eeprom = 0..(EepromSize - 1)
  /\ rx \in Seq(Char)

HostInv ==
  /\ hostAddr \in Nat \union {None}
  /\ DOMAIN image = {"FLASH", "EEPROM"}
  /\ DOMAIN image["FLASH"] = 0..(FlashSize - 1)
  /\ DOMAIN image["EEPROM"] = 0..(EepromSize - 1)
  /\ losses \in Nat

TypeInv == LoaderInv /\ HostInv

-----------------------------------------------------------------------------
(* Arguments. *)

LEMMA SizesFacts ==
  /\ PageSize \in Nat /\ PageSize > 0 /\ FlashSize \in Nat /\ FlashSize > 0
  /\ EepromSize \in Nat /\ EepromSize > 0 /\ EepromSize < Word
  /\ Word = 65536 /\ PageSize < Word /\ FlashSize < 2 * Word /\ DevType \in Char /\ DevType # 0 /\ WaitValue \in Nat
<1>1. /\ PageSize \in Nat \ {0} /\ FlashSize \in Nat \ {0} /\ EepromSize \in Nat \ {0} /\ EepromSize < Word
      /\ PageSize < Word /\ FlashSize < 2 * Word /\ DevType \in 1..255 /\ WaitValue \in Nat
  BY SerialAssumption
<1> QED BY <1>1 DEF Char, Word

LEMMA LettersAreChars == WithArguments \subseteq Char /\ 66 \in Char
BY DEF WithArguments, Char

\* Sixteen bits.
LEMMA Bits16 ==
  ASSUME NEW n \in Nat
  PROVE  /\ n % Word \in Nat /\ n % Word \in 0..(Word - 1)
         /\ n < Word => n % Word = n
<1>1. Word \in Nat /\ Word > 0
  BY DEF Word
<1> QED BY <1>1

\* The two bytes of a number.
LEMMA Halves ==
  ASSUME NEW n \in 0..(Word - 1)
  PROVE  /\ High(n) \in Char /\ Low(n) \in Char
         /\ High(n) * 256 + Low(n) = n /\ (High(n) * 256 + Low(n)) % Word = n
         /\ n < 256 => High(n) = 0 /\ Low(n) = n
<1>0. n \in Nat /\ n < 65536 /\ n < Word
  BY SizesFacts
<1>1. n \in Nat /\ n < 65536 /\ n % Word = n
  BY <1>0, Bits16
<1>2. n \div 256 \in 0..255 /\ n % 256 \in 0..255 /\ (n \div 256) * 256 + (n % 256) = n
  BY <1>1
<1>3. n < 256 => n \div 256 = 0 /\ n % 256 = n
  BY <1>1
<1> QED BY <1>1, <1>2, <1>3 DEF High, Low, Char

LEMMA SmallHalves == \A n \in 1..PageSize : High(n) \in Char /\ Low(n) \in Char /\ (n <= 69 => High(n) = 0 /\ Low(n) = n)
<1> SUFFICES ASSUME NEW n \in 1..PageSize
             PROVE  High(n) \in Char /\ Low(n) \in Char /\ (n <= 69 => High(n) = 0 /\ Low(n) = n)
  OBVIOUS
<1>1. n \in Nat /\ n \in 0..(Word - 1) /\ (n <= 69 => n < 256)
  BY SizesFacts
<1> QED BY <1>1, Halves

\* The first two elements of a sequence of characters.
LEMMA FirstTwo ==
  ASSUME NEW a \in Seq(Char), Len(a) >= 2
  PROVE  /\ a[1] \in Char /\ a[2] \in Char
         /\ (a[1] * 256 + a[2]) % Word = a[1] * 256 + a[2]
         /\ a[1] * 256 + a[2] \in Nat /\ a[1] * 256 + a[2] \in 0..(Word - 1)
<1>1. Len(a) \in Nat /\ 1 \in 1..Len(a) /\ 2 \in 1..Len(a)
  OBVIOUS
<1>2. a[1] \in Char /\ a[2] \in Char
  BY <1>1, ElementOfSeq
<1> DEFINE x == a[1]
           y == a[2]
<1> HIDE DEF x, y
<1>3. x \in Char /\ y \in Char
  BY <1>2 DEF x, y
<1>4. x * 256 + y \in Nat /\ x * 256 + y < Word
  BY <1>3 DEF Char, Word
<1>5. (x * 256 + y) % Word = x * 256 + y
  BY <1>4, Bits16
<1>6. x * 256 + y \in 0..(Word - 1)
  BY <1>4, <1>5, Bits16
<1> QED BY <1>2, <1>5, <1>6 DEF x, y

LEMMA ArgumentsIs ==
  ASSUME NEW c \in Char
  PROVE  /\ Arguments(c) \in 0..3
         /\ Arguments(c) > 0 <=> c \in WithArguments
         /\ Arguments(66) = 3 /\ Arguments(65) = 2 /\ Arguments(84) = 1 /\ Arguments(103) = 3
         /\ Arguments(120) = 1 /\ Arguments(121) = 1
BY DEF Arguments, WithArguments, Char

LEMMA BufferedIs ==
  ASSUME NEW n \in Nat
  PROVE  Buffered(n) \in 0..PageSize
BY SizesFacts DEF Buffered, Smaller

\* A command is complete with the number of arguments it needs.
LEMMA CompleteIs ==
  ASSUME NEW c \in WithArguments, NEW a \in Seq(Char), Len(a) <= Needed(c, a)
  PROVE  /\ Complete(c, a) <=> Len(a) = Needed(c, a)
         /\ Needed(c, a) \in 1..(3 + PageSize)
<1>1. c \in Char /\ Arguments(c) \in 1..3 /\ Arguments(66) = 3
  <2>1. c \in Char /\ 66 \in Char
    BY LettersAreChars
  <2>2. Arguments(c) \in 0..3 /\ Arguments(c) > 0 /\ Arguments(66) = 3
    BY <2>1, ArgumentsIs
  <2> QED BY <2>1, <2>2
<1>2. CASE c = 66 /\ Len(a) >= 3
  <2>1. Len(a) \in Nat /\ Len(a) >= 2
    BY <1>2
  <2>2. (a[1] * 256 + a[2]) % Word \in Nat
    BY <2>1, FirstTwo
  <2>3. Buffered((a[1] * 256 + a[2]) % Word) \in 0..PageSize
    BY <2>2, BufferedIs
  <2> QED BY <1>1, <1>2, <2>3, SizesFacts DEF Complete, Needed
<1>3. CASE c # 66 \/ Len(a) < 3
  BY <1>1, <1>3, SizesFacts DEF Complete, Needed
<1> QED BY <1>2, <1>3

\* One more argument is not too many.
LEMMA OneMore ==
  ASSUME NEW c \in WithArguments, NEW a \in Seq(Char), Len(a) <= Needed(c, a), ~Complete(c, a),
         NEW x \in Char
  PROVE  Append(a, x) \in Seq(Char) /\ Len(Append(a, x)) <= Needed(c, Append(a, x))
<1>1. Len(a) < Needed(c, a) /\ Len(a) \in Nat /\ Len(Append(a, x)) = Len(a) + 1
  BY CompleteIs
<1>2. Arguments(66) = 3 /\ Arguments(c) \in 0..3
  BY LettersAreChars, ArgumentsIs
<1>3. CASE c = 66 /\ Len(a) >= 3
  <2>1. Append(a, x)[1] = a[1] /\ Append(a, x)[2] = a[2]
    BY <1>3
  <2>2. Needed(c, Append(a, x)) = Needed(c, a)
    BY <1>1, <1>3, <2>1 DEF Needed
  <2>3. Needed(c, a) \in Nat
    BY CompleteIs
  <2> QED BY <1>1, <2>2, <2>3
<1>4. CASE c = 66 /\ Len(a) = 2
  <2>1. Append(a, x) \in Seq(Char) /\ Len(Append(a, x)) >= 2
    BY <1>1, <1>4
  <2> DEFINE b == Append(a, x)
  <2> HIDE DEF b
  <2>2. (b[1] * 256 + b[2]) % Word \in Nat
    BY <2>1, FirstTwo DEF b
  <2>3. Buffered((b[1] * 256 + b[2]) % Word) \in 0..PageSize
    BY <2>2, BufferedIs
  <2>4. Len(b) = 3 /\ b \in Seq(Char)
    BY <1>1, <1>4, <2>1 DEF b
  <2>5. Needed(c, b) >= 3 /\ Needed(c, b) \in Nat
    BY <1>4, <2>3, <2>4, SizesFacts DEF Needed
  <2>6. b \in Seq(Char) /\ Len(b) <= Needed(c, b)
    BY <2>4, <2>5
  <2> QED BY <2>6 DEF b
<1>5. CASE c # 66 \/ Len(a) < 2
  BY <1>1, <1>2, <1>5 DEF Needed
<1>6. (c = 66 /\ Len(a) >= 3) \/ (c = 66 /\ Len(a) = 2) \/ (c # 66 \/ Len(a) < 2)
  <2> DEFINE n == Len(a)
  <2>1. n \in Nat
    OBVIOUS
  <2> HIDE DEF n
  <2>2. n >= 3 \/ n = 2 \/ n < 2
    BY <2>1
  <2> QED BY <2>2 DEF n
<1> QED BY <1>3, <1>4, <1>5, <1>6, Zenon

\* What the receiver keeps while the loader is busy.
LEMMA KeptType ==
  ASSUME NEW q \in Seq(Char), NEW r \in Kept(q)
  PROVE  /\ r \in Seq(Char) /\ Len(r) <= Len(q)
         /\ Len(q) <= 3 => r = q
<1>1. PICK n \in Smaller(3, Len(q))..Len(q) : r = SubSeq(q, 1, n)
  BY DEF Kept
<1>2. n \in Nat /\ n <= Len(q) /\ (Len(q) <= 3 => n = Len(q))
  BY <1>1 DEF Smaller
<1>3. r \in Seq(Char) /\ Len(r) = n
  BY <1>1, <1>2
<1>4. SubSeq(q, 1, Len(q)) = q
  BY SubSeqFull
<1> QED BY <1>1, <1>2, <1>3, <1>4

\* The next page of an erase.
LEMMA NextPage ==
  ASSUME NEW e \in 0..FlashSize, e % PageSize = 0, e < FlashSize
  PROVE  e + PageSize \in 0..FlashSize /\ (e + PageSize) % PageSize = 0
<1>1. PageSize \in Nat \ {0} /\ FlashSize % PageSize = 0 /\ FlashSize \in Nat /\ e \in Nat
  BY SerialAssumption
<1> DEFINE p == PageSize
           k == e \div p
           m == FlashSize \div p
<1>2. e = p * k /\ FlashSize = p * m /\ k \in Int /\ m \in Int
  BY <1>1
<1>3. k < m
  BY <1>1, <1>2
<1>4. p * (k + 1) <= p * m /\ p * (k + 1) = p * k + p
  BY <1>1, <1>2, <1>3
<1>5. (p * (k + 1)) % p = 0
  BY <1>1, <1>2
<1> QED BY <1>1, <1>2, <1>4, <1>5

-----------------------------------------------------------------------------
(* Types. *)

LEMMA InitType == Init => TypeInv
<1> SUFFICES ASSUME Init PROVE TypeInv
  OBVIOUS
<1> USE DEF Init
<1>1. <<>> \in Seq(Char) /\ None \in {None} \union WithArguments /\ 0 \in Char
  BY DEF Char
<1>2. 0 \in 0..WaitValue /\ 0 \in 0..(Word - 1)
  BY SizesFacts DEF Word
<1>3. LoaderInv
  BY <1>1, <1>2 DEF LoaderInv
<1>4. HostInv
  BY DEF HostInv
<1> QED BY <1>3, <1>4 DEF TypeInv

\* What the loader leaves alone when it only answers.
LEMMA LoaderKept ==
  ASSUME LoaderInv, UNCHANGED <<mode, cnt, cmd, args, erasing, address, device, flash, eeprom>>,
         rx' \in Seq(Char)
  PROVE  LoaderInv'
BY DEF LoaderInv, Needed

\* Back in its command loop, without arguments.
LEMMA CarryType ==
  ASSUME LoaderInv, NEW c, Carry(c), c # None,
         mode' \in {"loader", "hung"}, UNCHANGED <<cnt, erasing>>, rx' \in Seq(Char),
         address' \in 0..(Word - 1), device' \in Char,
         DOMAIN flash' = DOMAIN flash, DOMAIN eeprom' = DOMAIN eeprom
  PROVE  LoaderInv'
<1>1. cmd' = None /\ args' = <<>> /\ erasing' = None /\ <<>> \in Seq(Char)
  BY DEF Carry, LoaderInv
<1> QED BY <1>1 DEF LoaderInv

\* The arguments of a command that is carried out.
LEMMA CarryArguments ==
  ASSUME LoaderInv, NEW c \in WithArguments, Carry(c)
  PROVE  /\ cmd = c /\ cmd # None /\ mode = "loader" /\ erasing = None
         /\ args \in Seq(Char) /\ Len(args) = Needed(c, args)
<1>1. cmd = c /\ Complete(c, args) /\ c # None
  BY DEF Carry, WithArguments, None
<1>2. args \in Seq(Char) /\ Len(args) <= Needed(c, args)
  BY <1>1 DEF LoaderInv
<1> QED BY <1>1, <1>2, CompleteIs DEF LoaderInv

LEMMA RestartsType ==
  ASSUME LoaderInv, Restarts, DOMAIN flash' = DOMAIN flash, DOMAIN eeprom' = DOMAIN eeprom
  PROVE  LoaderInv'
<1>1. <<>> \in Seq(Char) /\ None \in {None} \union WithArguments /\ 0 \in Char
  BY DEF Char
<1>2. 0 \in 0..WaitValue /\ 0 \in 0..(Word - 1)
  BY SizesFacts DEF Word
<1> QED BY <1>1, <1>2 DEF Restarts, LoaderInv

LEMMA PowerType ==
  ASSUME LoaderInv, WatchdogReset \/ PowerFails
  PROVE  LoaderInv'
<1>1. Restarts
  BY DEF WatchdogReset, PowerFails
<1>2. UNCHANGED memVars => DOMAIN flash' = DOMAIN flash /\ DOMAIN eeprom' = DOMAIN eeprom
  BY DEF memVars
<1>3. TornBlock => DOMAIN flash' = DOMAIN flash /\ DOMAIN eeprom' = DOMAIN eeprom
  BY DEF TornBlock, Torn
<1>4. TornErase => DOMAIN flash' = DOMAIN flash /\ DOMAIN eeprom' = DOMAIN eeprom
  BY DEF TornErase, Torn
<1> QED BY <1>1, <1>2, <1>3, <1>4, RestartsType DEF WatchdogReset, PowerFails

LEMMA WaitType ==
  ASSUME LoaderInv, WaitCharacter \/ WaitTick \/ Blink \/ AppIgnores
  PROVE  LoaderInv'
<1>1. CASE WaitCharacter
  <2>1. /\ mode = "wait" /\ rx' \in Seq(Char)
        /\ cnt' \in {cnt, WaitValue} \/ (cnt < WaitValue /\ cnt' = cnt + 1)
        /\ mode' \in {"blink", "wait", "app"}
        /\ UNCHANGED <<cmd, args, erasing, address, device, flash, eeprom>>
    BY <1>1 DEF WaitCharacter, Waits, LoaderInv, memVars
  <2>2. cnt' \in 0..WaitValue
    BY <2>1, SizesFacts DEF LoaderInv
  <2> QED BY <2>1, <2>2 DEF LoaderInv
<1>2. CASE WaitTick
  <2>1. /\ mode = "wait" /\ rx' = rx /\ mode' \in {"wait", "app"}
        /\ cnt' = cnt \/ (cnt < WaitValue /\ cnt' = cnt + 1)
        /\ UNCHANGED <<cmd, args, erasing, address, device, flash, eeprom>>
    BY <1>2 DEF WaitTick, Waits, memVars, lineVars
  <2>2. cnt' \in 0..WaitValue
    BY <2>1, SizesFacts DEF LoaderInv
  <2> QED BY <2>1, <2>2 DEF LoaderInv
<1>3. CASE Blink
  <2>1. /\ mode = "blink" /\ rx' \in Kept(rx) /\ mode' = "loader"
        /\ UNCHANGED <<cnt, cmd, args, erasing, address, device, flash, eeprom>>
    BY <1>3 DEF Blink, memVars
  <2>2. rx' \in Seq(Char)
    BY <2>1, KeptType DEF LoaderInv
  <2> QED BY <2>1, <2>2 DEF LoaderInv
<1>4. CASE AppIgnores
  <2>1. <<>> \in Seq(Char)
    OBVIOUS
  <2> QED BY <1>4, <2>1, LoaderKept DEF AppIgnores, loaderVars, memVars
<1> QED BY <1>1, <1>2, <1>3, <1>4

LEMMA ReceiveType ==
  ASSUME LoaderInv, CommandLetter \/ CommandErase \/ CommandExit \/ Argument
  PROVE  LoaderInv'
<1>1. /\ mode = "loader" /\ erasing = None /\ rx # <<>> /\ rx \in Seq(Char)
      /\ Head(rx) \in Char /\ Tail(rx) \in Seq(Char)
  BY DEF CommandLetter, CommandErase, CommandExit, Argument, Listening, LoaderInv
<1>2. CASE CommandLetter
  <2>1. /\ cmd = None /\ rx' = Tail(rx)
        /\ cmd' = None \/ (Arguments(Head(rx)) > 0 /\ cmd' = Head(rx))
        /\ UNCHANGED <<mode, cnt, args, erasing, address, device, flash, eeprom>>
    BY <1>2 DEF CommandLetter, Received, memVars
  <2>2. cmd' \in {None} \union WithArguments
    BY <1>1, <2>1, ArgumentsIs
  <2>3. args = <<>> /\ Len(args') = 0
    BY <2>1 DEF LoaderInv
  <2>4. cmd' # None => Len(args') <= Needed(cmd', args')
    <3> SUFFICES ASSUME cmd' # None PROVE Len(args') <= Needed(cmd', args')
      OBVIOUS
    <3>1. Needed(cmd', args') = Arguments(cmd') /\ Arguments(cmd') \in 0..3
      BY <2>2, <2>3, LettersAreChars, ArgumentsIs DEF Needed
    <3> QED BY <2>3, <3>1
  <2> QED BY <1>1, <2>1, <2>2, <2>3, <2>4 DEF LoaderInv
<1>3. CASE CommandErase
  <2>1. /\ cmd = None /\ rx' = Tail(rx) /\ erasing' \in {None, 0}
        /\ UNCHANGED <<mode, cnt, cmd, args, address, device, flash, eeprom>>
    BY <1>1, <1>3 DEF CommandErase, Received, memVars
  <2>2. 0 \in 0..FlashSize /\ 0 % PageSize = 0
    BY SizesFacts
  <2> QED BY <1>1, <2>1, <2>2 DEF LoaderInv
<1>4. CASE CommandExit
  <2>1. /\ cmd = None /\ rx' = <<>> /\ mode' = "off" /\ <<>> \in Seq(Char)
        /\ UNCHANGED <<cnt, cmd, args, erasing, address, device, flash, eeprom>>
    BY <1>4 DEF CommandExit, memVars
  <2> QED BY <1>1, <2>1 DEF LoaderInv
<1>5. CASE Argument
  <2>1. /\ cmd # None /\ ~Complete(cmd, args) /\ rx' = Tail(rx) /\ args' = Append(args, Head(rx))
        /\ UNCHANGED <<mode, cnt, cmd, erasing, address, device, flash, eeprom>>
    BY <1>5 DEF Argument, Received, memVars
  <2>2. cmd \in WithArguments /\ args \in Seq(Char) /\ Len(args) <= Needed(cmd, args)
    BY <2>1 DEF LoaderInv
  <2>3. args' \in Seq(Char) /\ Len(args') <= Needed(cmd, args')
    BY <1>1, <2>1, <2>2, OneMore
  <2> QED BY <1>1, <2>1, <2>3 DEF LoaderInv
<1> QED BY <1>2, <1>3, <1>4, <1>5

LEMMA EraseType ==
  ASSUME LoaderInv, ErasePage
  PROVE  LoaderInv'
<1>1. /\ mode = "loader" /\ erasing # None /\ rx' \in Seq(Char)
      /\ erasing' = None \/ (erasing < FlashSize /\ erasing' = erasing + PageSize)
      /\ DOMAIN flash' = DOMAIN flash
      /\ UNCHANGED <<mode, cnt, cmd, args, address, device, eeprom>>
  BY KeptType DEF ErasePage, MoreToErase, PageErased, LoaderInv
<1>2. erasing \in 0..FlashSize /\ erasing % PageSize = 0
  BY <1>1 DEF LoaderInv
<1>3. erasing' \in {None} \union 0..FlashSize /\ (erasing' # None => erasing' % PageSize = 0)
  BY <1>1, <1>2, NextPage
<1> QED BY <1>1, <1>3 DEF LoaderInv

\* The address moves on inside its sixteen bits.
LEMMA AddressType ==
  ASSUME NEW a \in Nat, NEW n \in Nat
  PROVE  (a + n) % Word \in 0..(Word - 1) /\ NextWord(a, n) \in 0..(Word - 1)
<1>1. a + n \in Nat /\ a * 2 + n \in Nat
  OBVIOUS
<1> DEFINE m == a * 2 + n
<1> HIDE DEF m
<1>2. m \in Nat => m \div 2 \in Nat
  OBVIOUS
<1>3. m \div 2 \in Nat
  BY <1>1, <1>2 DEF m
<1>4. (m \div 2) % Word \in 0..(Word - 1)
  BY <1>3, Bits16
<1> QED BY <1>1, <1>4, Bits16 DEF NextWord, m

LEMMA ArgumentsType ==
  ASSUME LoaderInv, NEW c \in WithArguments, Carry(c)
  PROVE  /\ c # 120 /\ c # 121 => args[1] \in Char
         /\ c \in {65, 66, 103} => /\ Size \in Nat /\ FlashCount(Size) \in Nat
                                   /\ args[1] * 256 + args[2] \in 0..(Word - 1)
         /\ address \in Nat
<1>1. args \in Seq(Char) /\ Len(args) = Needed(c, args)
  BY CarryArguments
<1>2. c \in Char /\ Arguments(c) >= 1 /\ (c \in {65, 66, 103} => Arguments(c) >= 2)
  BY LettersAreChars, ArgumentsIs DEF WithArguments
<1>3. Len(args) >= 1 /\ (c \in {65, 66, 103} => Len(args) >= 2)
  <2> DEFINE n == Len(args)
  <2>1. n \in Nat /\ n = Needed(c, args)
    BY <1>1
  <2>2. n = Arguments(c) \/ n >= 3
    BY <2>1 DEF Needed, n
  <2>3. Arguments(c) \in 0..3
    BY <1>2, ArgumentsIs
  <2> HIDE DEF n
  <2>4. n >= 1 /\ (c \in {65, 66, 103} => n >= 2)
    BY <1>2, <2>1, <2>2, <2>3
  <2> QED BY <2>4 DEF n
<1>4. args[1] \in Char
  <2>1. 1 \in 1..Len(args)
    BY <1>1, <1>3
  <2> QED BY <1>1, <2>1, ElementOfSeq
<1>5. c \in {65, 66, 103} => /\ Size \in Nat /\ args[1] * 256 + args[2] \in 0..(Word - 1)
  BY <1>1, <1>3, FirstTwo DEF Size
<1>6. address \in Nat
  BY SizesFacts DEF LoaderInv, Word
<1>7. Word \in Nat
  BY DEF Word
<1>8. c \in {65, 66, 103} => FlashCount(Size) \in Nat
  BY <1>5, <1>7 DEF FlashCount
<1> QED BY <1>4, <1>5, <1>6, <1>8

LEMMA SetType ==
  ASSUME LoaderInv, SetAddress \/ SetDevice \/ LedIgnored
  PROVE  LoaderInv'
<1>0. mode = "loader" /\ rx \in Seq(Char) /\ address \in 0..(Word - 1) /\ device \in Char
  BY DEF SetAddress, SetDevice, LedIgnored, Carry, LoaderInv
<1>1. CASE SetAddress
  <2>1. Carry(65) /\ 65 \in WithArguments /\ 65 # None
    BY <1>1 DEF SetAddress, WithArguments, None
  <2>2. address' \in 0..(Word - 1)
    BY <1>1, <2>1, ArgumentsType DEF SetAddress
  <2> QED BY <1>0, <1>1, <2>1, <2>2, CarryType DEF SetAddress, memVars
<1>2. CASE SetDevice
  <2>1. Carry(84) /\ 84 \in WithArguments /\ 84 # None
    BY <1>2 DEF SetDevice, WithArguments, None
  <2>2. device' \in Char
    BY <1>2, <2>1, ArgumentsType DEF SetDevice
  <2> QED BY <1>0, <1>2, <2>1, <2>2, CarryType DEF SetDevice, memVars
<1>3. CASE LedIgnored
  <2>1. PICK c \in {120, 121} : Carry(c)
    BY <1>3 DEF LedIgnored
  <2>2. c # None
    BY DEF None
  <2> QED BY <1>0, <1>3, <2>1, <2>2, CarryType DEF LedIgnored, memVars
<1> QED BY <1>1, <1>2, <1>3

LEMMA BlockType ==
  ASSUME LoaderInv, LoadBlock \/ ReadBlock
  PROVE  LoaderInv'
<1>0. mode = "loader" /\ rx \in Seq(Char) /\ address \in 0..(Word - 1) /\ device \in Char
  BY DEF LoadBlock, ReadBlock, Carry, LoaderInv
<1>1. CASE LoadBlock
  <2>1. Carry(66) /\ 66 \in WithArguments /\ 66 # None
    BY <1>1 DEF LoadBlock, WithArguments, None
  <2>2. Size \in Nat /\ FlashCount(Size) \in Nat /\ address \in Nat
    BY <2>1, ArgumentsType
  <2>3. rx' \in Seq(Char) /\ UNCHANGED <<cnt, erasing, device>>
    BY <1>0, <1>1, KeptType DEF LoadBlock
  <2>4. \/ WriteFlash \/ WriteEeprom \/ UNCHANGED <<mode, flash, eeprom, address>>
    BY <1>1 DEF LoadBlock
  <2>5. ASSUME WriteFlash
        PROVE  /\ mode' \in {"loader", "hung"} /\ address' \in 0..(Word - 1)
               /\ DOMAIN flash' = DOMAIN flash /\ DOMAIN eeprom' = DOMAIN eeprom
    <3>1. CASE Hangs(Size)
      BY <1>0, <2>5, <3>1 DEF WriteFlash
    <3>2. CASE ~Hangs(Size)
      <4>1. /\ address' = NextWord(address, FlashCount(Size)) /\ mode' = mode /\ eeprom' = eeprom
            /\ DOMAIN flash' = DOMAIN flash
        BY <2>5, <3>2 DEF WriteFlash, WrittenFlash
      <4> QED BY <1>0, <2>2, <4>1, AddressType
    <3> QED BY <3>1, <3>2
  <2>6. ASSUME WriteEeprom
        PROVE  /\ mode' \in {"loader", "hung"} /\ address' \in 0..(Word - 1)
               /\ DOMAIN flash' = DOMAIN flash /\ DOMAIN eeprom' = DOMAIN eeprom
    BY <1>0, <2>2, <2>6, AddressType DEF WriteEeprom, WrittenEeprom
  <2>7. /\ mode' \in {"loader", "hung"} /\ address' \in 0..(Word - 1)
        /\ DOMAIN flash' = DOMAIN flash /\ DOMAIN eeprom' = DOMAIN eeprom
    BY <1>0, <2>4, <2>5, <2>6
  <2>8. device' \in Char
    BY <1>0, <2>3
  <2> QED BY <2>1, <2>3, <2>7, <2>8, CarryType
<1>2. CASE ReadBlock
  <2>1. Carry(103) /\ 103 \in WithArguments /\ 103 # None
    BY <1>2 DEF ReadBlock, WithArguments, None
  <2>2. Size \in Nat /\ FlashCount(Size) \in Nat /\ address \in Nat
    BY <2>1, ArgumentsType
  <2>3. UNCHANGED <<cnt, erasing, device, flash, eeprom, rx>>
    BY <1>2 DEF ReadBlock, memVars
  <2>4. \/ address' = NextWord(address, FlashCount(Size)) /\ mode' = mode
        \/ address' = (address + Size) % Word /\ mode' = mode
        \/ address' = address /\ mode' \in {mode, "hung"}
    BY <1>2 DEF ReadBlock
  <2>5. mode' \in {"loader", "hung"} /\ address' \in 0..(Word - 1)
    BY <1>0, <2>2, <2>4, AddressType
  <2>6. rx' \in Seq(Char) /\ device' \in Char
    BY <1>0, <2>3
  <2> QED BY <2>1, <2>3, <2>5, <2>6, CarryType
<1> QED BY <1>1, <1>2

\* A command of the host is a sequence of characters.
LEMMA AskingType ==
  ASSUME LoaderInv, NEW bytes \in Seq(Char), NEW what, NEW want, Asking(bytes, what, want)
  PROVE  LoaderInv' /\ UNCHANGED losses
BY LoaderKept DEF Asking, loaderVars, memVars

LEMMA HostCommandType ==
  ASSUME TypeInv, Host
  PROVE  TypeInv'
<1> USE DEF TypeInv
<1>1. 84 \in Char /\ 65 \in Char /\ 0 \in Char /\ 101 \in Char /\ 66 \in Char /\ 103 \in Char
      /\ 69 \in Char /\ 70 \in Char /\ 2 \in Char /\ Start \in Char
  BY DEF Char, Start
<1>2. ASSUME HostConnect PROVE TypeInv'
  <2>1. <<Start>> \in Seq(Char)
    BY <1>1
  <2>2. LoaderInv'
    BY <1>2, <2>1, LoaderKept DEF HostConnect, loaderVars, memVars
  <2> QED BY <1>2, <2>2 DEF HostConnect, HostInv
<1>3. ASSUME HostSetDevice PROVE TypeInv'
  <2>1. <<84, DevType>> \in Seq(Char)
    BY <1>1, SizesFacts
  <2> QED BY <1>3, <2>1, AskingType DEF HostSetDevice, HostInv
<1>4. ASSUME HostAsk PROVE TypeInv'
  <2>1. PICK q \in Asks : Asking(q.bytes, "ask", q.want)
    BY <1>4 DEF HostAsk
  <2>2. q.bytes \in Seq(Char)
    BY HostAssumption DEF Char
  <2> QED BY <1>4, <2>1, <2>2, AskingType DEF HostAsk, HostInv
<1>5. ASSUME HostSetAddress PROVE TypeInv'
  <2>1. PICK w \in Addresses : Asking(<<65, High(w), Low(w)>>, "cr", 1) /\ hostAddr' = w /\ UNCHANGED <<selected, image>>
    BY <1>5 DEF HostSetAddress
  <2>2. High(w) \in Char /\ Low(w) \in Char /\ w \in Nat
    BY HostAssumption, Halves
  <2>3. <<65, High(w), Low(w)>> \in Seq(Char)
    BY <1>1, <2>2
  <2> QED BY <2>1, <2>2, <2>3, AskingType DEF HostInv
<1>6. ASSUME HostErase PROVE TypeInv'
  <2>1. <<101>> \in Seq(Char)
    BY <1>1
  <2>2. DOMAIN image' = DOMAIN image /\ DOMAIN image'["FLASH"] = DOMAIN image["FLASH"]
        /\ image'["EEPROM"] = image["EEPROM"]
    BY <1>6 DEF HostErase, NothingIn, HostInv
  <2> QED BY <1>6, <2>1, <2>2, AskingType DEF HostErase, HostInv
<1>7. ASSUME NEW b \in Blocks, HostBlock(b) PROVE TypeInv'
  <2>0. /\ b.data \in Seq(Char) /\ Len(b.data) \in 1..PageSize /\ b.mem \in {"FLASH", "EEPROM"}
    BY HostAssumption DEF Char
  <2>1. /\ b.data \in Seq(Char) /\ Len(b.data) \in Nat /\ b.mem \in {"FLASH", "EEPROM"}
        /\ High(Len(b.data)) \in Char /\ Low(Len(b.data)) \in Char
    BY <2>0, SmallHalves
  <2>2. TypeOf(b.mem) \in Char
    BY <1>1 DEF TypeOf, FlashType, EepromType
  <2>3. <<66, High(Len(b.data)), Low(Len(b.data)), TypeOf(b.mem)>> \in Seq(Char)
    BY <1>1, <2>1, <2>2
  <2>4. <<66, High(Len(b.data)), Low(Len(b.data)), TypeOf(b.mem)>> \o b.data \in Seq(Char)
    BY <2>1, <2>3, ConcatProperties
  <2>5. /\ hostAddr' = hostAddr + Units(b.mem, Len(b.data)) /\ hostAddr \in Nat
        /\ Asking(<<66, High(Len(b.data)), Low(Len(b.data)), TypeOf(b.mem)>> \o b.data, "cr", 1)
    BY <1>7 DEF HostBlock, HostInv
  <2>6. hostAddr' \in Nat
    <3> DEFINE n == Len(b.data)
    <3>1. n \in Nat /\ hostAddr' = hostAddr + Units(b.mem, n)
      BY <2>1, <2>5
    <3> HIDE DEF n
    <3>2. n \div 2 \in Nat
      BY <3>1
    <3>3. Units(b.mem, n) \in Nat
      BY <3>1, <3>2 DEF Units
    <3> QED BY <3>1, <3>3, <2>5
  <2>7. DOMAIN image' = DOMAIN image /\ \A m \in DOMAIN image : DOMAIN image'[m] = DOMAIN image[m]
    BY <1>7, <2>1 DEF HostBlock, HostInv
  <2> QED BY <2>4, <2>5, <2>6, <2>7, AskingType DEF HostInv
<1>8. ASSUME NEW mem \in {"FLASH", "EEPROM"}, HostRead(mem, 2) PROVE TypeInv'
  <2>1. TypeOf(mem) \in Char
    BY <1>1 DEF TypeOf, FlashType, EepromType
  <2>2. <<103, 0, 2, TypeOf(mem)>> \in Seq(Char)
    BY <1>1, <2>1
  <2>3. /\ hostAddr' = hostAddr + Units(mem, 2) /\ hostAddr \in Nat /\ UNCHANGED image
        /\ Asking(<<103, 0, 2, TypeOf(mem)>>, mem, 2)
    BY <1>8 DEF HostRead, HostInv
  <2>4. hostAddr' \in Nat
    BY <2>3 DEF Units
  <2> QED BY <2>2, <2>3, <2>4, AskingType DEF HostInv
<1>9. ASSUME HostExit PROVE TypeInv'
  <2>1. <<69>> \in Seq(Char)
    BY <1>1
  <2> QED BY <1>9, <2>1, AskingType DEF HostExit, HostInv
<1> QED BY <1>2, <1>3, <1>4, <1>5, <1>6, <1>7, <1>8, <1>9 DEF Host

LEMMA LostType ==
  ASSUME HostInv, Lost, UNCHANGED losses
  PROVE  HostInv'
<1>1. DOMAIN Nothing = DOMAIN image /\ \A m \in DOMAIN image : DOMAIN Nothing[m] = DOMAIN image[m]
  BY DEF Nothing
<1> QED BY <1>1 DEF HostInv, Lost

LEMMA NextType == TypeInv /\ [Next]_vars => TypeInv'
<1> SUFFICES ASSUME TypeInv, [Next]_vars PROVE TypeInv'
  OBVIOUS
<1> USE DEF TypeInv
<1>0. rx \in Seq(Char) /\ <<>> \in Seq(Char)
  BY DEF LoaderInv
<1>1. CASE UNCHANGED vars
  BY <1>0, <1>1, LoaderKept DEF vars, loaderVars, memVars, lineVars, hostVars, HostInv
<1>2. CASE Loader
  <2>1. LoaderInv'
    <3>1. CASE WatchdogReset
      BY <3>1, PowerType
    <3>2. CASE ~WatchdogReset
      BY <1>2, <3>2, WaitType, ReceiveType, EraseType, SetType, BlockType DEF Loader
    <3> QED BY <3>1, <3>2
  <2>2. UNCHANGED <<hostVars, losses>>
    BY <1>2 DEF Loader, WaitCharacter, WaitTick, Blink, CommandLetter, CommandErase, ErasePage,
                CommandExit, Argument, SetAddress, SetDevice, LedIgnored, LoadBlock, ReadBlock,
                WatchdogReset, Restarts, AppIgnores
  <2> QED BY <2>1, <2>2 DEF hostVars, HostInv
<1>3. CASE Host
  BY <1>3, HostCommandType
<1>4. CASE HostReceives
  <2>1. LoaderInv'
    BY <1>0, <1>4, LoaderKept DEF HostReceives, loaderVars, memVars
  <2>2. CASE Lost
    BY <1>4, <2>1, <2>2, LostType DEF HostReceives
  <2>3. CASE ~Lost
    <3>1. /\ UNCHANGED <<hostAddr, losses>>
          /\ \/ image' = image
             \/ image' = [image EXCEPT !["FLASH"] = [a \in DOMAIN @ |-> Blank]]
      BY <1>4, <2>3 DEF HostReceives
    <3>2. DOMAIN image' = DOMAIN image /\ \A m \in DOMAIN image : DOMAIN image'[m] = DOMAIN image[m]
      BY <3>1 DEF HostInv
    <3>3. DOMAIN image' = {"FLASH", "EEPROM"} /\ DOMAIN image'["FLASH"] = 0..(FlashSize - 1)
          /\ DOMAIN image'["EEPROM"] = 0..(EepromSize - 1)
      BY <3>2 DEF HostInv
    <3>4. hostAddr' \in Nat \union {None} /\ losses' \in Nat
      BY <3>1 DEF HostInv
    <3>5. HostInv'
      BY <3>3, <3>4 DEF HostInv
    <3> QED BY <2>1, <3>5
  <2> QED BY <2>2, <2>3
<1>5. CASE HostTimeout
  BY <1>0, <1>5, LoaderKept, LostType DEF HostTimeout, loaderVars, memVars, lineVars
<1>6. CASE HostEscapes
  <2>1. <<ESC>> \in Seq(Char)
    BY DEF ESC, Char
  <2> QED BY <1>6, <2>1, LoaderKept DEF HostEscapes, loaderVars, memVars, HostInv
<1>7. CASE HostSynced
  BY <1>0, <1>7, LoaderKept DEF HostSynced, loaderVars, memVars, HostInv
<1>8. CASE LoseToLoader
  <2>1. rx' \in Seq(Char) /\ losses' = losses + 1
    BY <1>0, <1>8 DEF LoseToLoader
  <2> QED BY <1>8, <2>1, LoaderKept DEF LoseToLoader, loaderVars, memVars, hostVars, HostInv
<1>9. CASE LoseToHost
  BY <1>0, <1>9, LoaderKept DEF LoseToHost, loaderVars, memVars, hostVars, HostInv
<1>10. CASE PowerFails
  BY <1>10, PowerType DEF PowerFails, Restarts, hostVars, HostInv
<1> QED BY <1>1, <1>2, <1>3, <1>4, <1>5, <1>6, <1>7, <1>8, <1>9, <1>10 DEF Next, HostProceeds

LEMMA TypeInvariant == Spec => []TypeInv
BY InitType, NextType, PTL DEF Spec

\* Types of the loader and its line: the address stays inside sixteen bits,
\* an erase inside the flash, and no command holds more than its arguments.
THEOREM SerialTypes == Spec => []SerialTypeOK
<1>1. TypeInv => SerialTypeOK
  <2> SUFFICES ASSUME TypeInv PROVE SerialTypeOK
    OBVIOUS
  <2>1. Len(args) <= 3 + PageSize
    <3>1. CASE cmd = None
      BY <3>1, SizesFacts DEF TypeInv, LoaderInv
    <3>2. CASE cmd # None
      <4>1. Len(args) <= Needed(cmd, args) /\ Needed(cmd, args) \in 1..(3 + PageSize) /\ Len(args) \in Nat
        BY <3>2, CompleteIs DEF TypeInv, LoaderInv
      <4> QED BY <4>1, SizesFacts
    <3> QED BY <3>1, <3>2
  <2> QED BY <2>1 DEF TypeInv, LoaderInv, HostInv, SerialTypeOK, WithArguments, Char
<1> QED BY <1>1, TypeInvariant, PTL

-----------------------------------------------------------------------------
(* The host's escape characters.  Each one that the loader has taken is an argument of the command
   it is in, and on its way is at most one. *)

EscapesInv ==
  /\ escs \in Nat
  /\ host.pc = "sync" /\ escs > 0 =>
       /\ rx = <<>> \/ rx = <<ESC>>
       /\ cmd # None /\ ~Complete(cmd, args) => Len(args) >= escs - Len(rx)

\* What a step of the loader may do while the host synchronises.
LEMMA EscapesByLoader ==
  ASSUME TypeInv, EscapesInv, UNCHANGED <<host, escs>>,
         rx' = rx \/ rx' = <<>> \/ rx' \in Kept(rx),
         cmd' = None \/ (UNCHANGED <<cmd, args, rx>>)
  PROVE  EscapesInv'
<1>1. rx \in Seq(Char)
  BY DEF TypeInv, LoaderInv
<1> SUFFICES ASSUME host.pc = "sync", escs > 0
             PROVE  /\ rx' = <<>> \/ rx' = <<ESC>>
                    /\ cmd' # None /\ ~Complete(cmd', args') => Len(args') >= escs - Len(rx')
  BY DEF EscapesInv
<1>2. rx = <<>> \/ rx = <<ESC>>
  BY DEF EscapesInv
<1>3. Len(rx) <= 3
  <2>1. Len(<<ESC>>) = 1 /\ Len(<<>>) = 0
    OBVIOUS
  <2>2. Len(rx) = 1 \/ Len(rx) = 0
    BY <1>2, <2>1, Zenon
  <2> QED BY <2>2, SMT
<1>4. rx' = <<>> \/ rx' = <<ESC>>
  BY <1>1, <1>2, <1>3, KeptType
<1> QED BY <1>4 DEF EscapesInv

\* The command loop takes an escape character for nothing or for an argument.
LEMMA EscapesReceived ==
  ASSUME TypeInv, EscapesInv, CommandLetter \/ CommandErase \/ CommandExit \/ Argument \/ WaitCharacter
  PROVE  EscapesInv'
<1>1. UNCHANGED <<host, escs>> /\ rx # <<>>
  BY DEF CommandLetter, CommandErase, CommandExit, Argument, WaitCharacter, Listening, hostVars
<1>2. escs' \in Nat
  BY <1>1 DEF EscapesInv
<1> SUFFICES ASSUME host.pc = "sync", escs > 0
             PROVE  /\ rx' = <<>> \/ rx' = <<ESC>>
                    /\ cmd' # None /\ ~Complete(cmd', args') => Len(args') >= escs - Len(rx')
  BY <1>1, <1>2 DEF EscapesInv
<1>3. rx = <<ESC>> /\ Head(rx) = 27 /\ Tail(rx) = <<>> /\ Len(rx) = 1
  <2>1. rx = <<ESC>> /\ ESC = 27
    BY <1>1 DEF EscapesInv, ESC
  <2>2. Head(<<ESC>>) = ESC /\ Tail(<<ESC>>) = <<>> /\ Len(<<ESC>>) = 1
    OBVIOUS
  <2> QED BY <2>1, <2>2
<1>4. CASE CommandLetter
  <2>1. Arguments(27) = 0
    BY DEF Arguments
  <2>2. rx' = <<>> /\ cmd' = None
    BY <1>3, <1>4, <2>1 DEF CommandLetter, Received
  <2> QED BY <2>2
<1>5. CASE CommandErase
  BY <1>3, <1>5 DEF CommandErase
<1>6. CASE CommandExit
  BY <1>3, <1>6 DEF CommandExit
<1>7. CASE Argument
  <2>1. /\ cmd # None /\ ~Complete(cmd, args) /\ rx' = <<>> /\ args' = Append(args, 27)
        /\ args \in Seq(Char) /\ 27 \in Char
    BY <1>3, <1>7 DEF Argument, Received, TypeInv, LoaderInv, Char
  <2>2. Len(args) >= escs - 1 /\ escs \in Nat
    BY <1>3, <2>1 DEF EscapesInv
  <2>3. Len(args') = Len(args) + 1 /\ Len(args) \in Nat
    BY <2>1
  <2>4. Len(rx') = 0
    BY <2>1
  <2> QED BY <2>1, <2>2, <2>3, <2>4
<1>8. CASE WaitCharacter
  <2>1. rx' = <<>> /\ UNCHANGED cmd /\ cmd = None
    BY <1>3, <1>8, SMT DEF WaitCharacter, TypeInv, LoaderInv
  <2> QED BY <2>1
<1> QED BY <1>4, <1>5, <1>6, <1>7, <1>8

LEMMA EscapesNext == TypeInv /\ EscapesInv /\ [Next]_vars => EscapesInv'
<1> SUFFICES ASSUME TypeInv, EscapesInv, [Next]_vars PROVE EscapesInv'
  OBVIOUS
<1>1. CASE UNCHANGED vars
  BY <1>1, EscapesByLoader DEF vars, loaderVars, lineVars, hostVars
<1>2. CASE Loader
  <2>1. CASE CommandLetter \/ CommandErase \/ CommandExit \/ Argument \/ WaitCharacter
    BY <2>1, EscapesReceived
  <2>2. CASE SetAddress \/ SetDevice \/ LedIgnored \/ LoadBlock \/ ReadBlock
    <3>1. UNCHANGED <<host, escs>> /\ cmd' = None /\ (rx' = rx \/ rx' \in Kept(rx))
      BY <2>2 DEF SetAddress, SetDevice, LedIgnored, LoadBlock, ReadBlock, Carry, hostVars
    <3> QED BY <3>1, EscapesByLoader
  <2>3. CASE WaitTick \/ Blink \/ ErasePage \/ WatchdogReset \/ AppIgnores
    <3>1. UNCHANGED <<host, escs>> /\ cmd' = None /\ (rx' = rx \/ rx' = <<>> \/ rx' \in Kept(rx))
      BY <2>3 DEF WaitTick, Blink, ErasePage, WatchdogReset, Restarts, AppIgnores, hostVars, loaderVars,
                  lineVars, TypeInv, LoaderInv
    <3> QED BY <3>1, EscapesByLoader
  <2> QED BY <1>2, <2>1, <2>2, <2>3 DEF Loader
<1>3. CASE Host
  <2>1. \A bytes, what, want : Asking(bytes, what, want) => host'.pc = "await" /\ escs' = escs
    BY DEF Asking
  <2>2. HostConnect => host'.pc = "await" /\ escs' = escs
    BY DEF HostConnect
  <2>3. HostConnect \/ \E bytes, what, want : Asking(bytes, what, want)
    BY <1>3 DEF Host, HostSetDevice, HostAsk, HostSetAddress, HostErase, HostBlock, HostRead, HostExit
  <2> QED BY <2>1, <2>2, <2>3 DEF EscapesInv
<1>4. CASE HostReceives
  <2>1. CASE Lost
    BY <2>1 DEF Lost, EscapesInv
  <2>2. CASE ~Lost
    <3>1. escs' = escs /\ host.pc = "await"
          /\ host' = CASE host.want > 1 -> [host EXCEPT !.want = @ - 1]
                       [] host.what = "exit" -> [Idle EXCEPT !.pc = "off"]
                       [] OTHER -> Idle
      BY <1>4, <2>2 DEF HostReceives
    <3>2. host'.pc # "sync"
      BY <3>1 DEF Idle
    <3> QED BY <3>1, <3>2 DEF EscapesInv
  <2> QED BY <2>1, <2>2
<1>5. CASE HostTimeout
  BY <1>5 DEF HostTimeout, Lost, EscapesInv
<1>6. CASE HostEscapes
  <2>1. /\ rx = <<>> /\ rx' = <<ESC>> /\ escs' = escs + 1 /\ UNCHANGED <<cmd, args>> /\ host.pc = "sync"
        /\ escs \in Nat
    BY <1>6 DEF HostEscapes, loaderVars, EscapesInv
  <2>2. cmd # None /\ ~Complete(cmd, args) => Len(args) >= escs
    <3>1. CASE escs > 0
      BY <2>1, <3>1 DEF EscapesInv
    <3>2. CASE escs = 0
      BY <2>1, <3>2 DEF TypeInv, LoaderInv
    <3> QED BY <2>1, <3>1, <3>2
  <2>3. Len(rx') = 1
    BY <2>1
  <2>4. escs' - Len(rx') = escs /\ escs' \in Nat
    BY <2>1, <2>3
  <2> QED BY <2>1, <2>2, <2>4 DEF EscapesInv
<1>7. CASE HostSynced
  BY <1>7 DEF HostSynced, Idle, EscapesInv
<1>8. CASE LoseToLoader
  BY <1>8 DEF LoseToLoader, hostVars, EscapesInv
<1>9. CASE LoseToHost
  BY <1>9, EscapesByLoader DEF LoseToHost, hostVars, loaderVars
<1>10. CASE PowerFails
  BY <1>10, EscapesByLoader DEF PowerFails, Restarts, hostVars
<1> QED BY <1>1, <1>2, <1>3, <1>4, <1>5, <1>6, <1>7, <1>8, <1>9, <1>10 DEF Next, HostProceeds

LEMMA EscapesOut == TypeInv /\ EscapesInv => EscapesSuffice
<1> SUFFICES ASSUME TypeInv, EscapesInv, host.pc = "sync", escs = SyncLength, rx = <<>>,
                    cmd # None, ~Complete(cmd, args)
             PROVE  FALSE
  BY DEF EscapesSuffice
<1>1. cmd \in WithArguments /\ args \in Seq(Char) /\ Len(args) <= Needed(cmd, args)
  BY DEF TypeInv, LoaderInv
<1>2. Len(args) # Needed(cmd, args) /\ Needed(cmd, args) \in 1..(3 + PageSize) /\ Len(args) \in Nat
  BY <1>1, CompleteIs
<1>3. Len(args) < 3 + PageSize
  BY <1>1, <1>2, SizesFacts
<1>4. escs = PageSize + 3 /\ Len(rx) = 0 /\ escs > 0
  BY SizesFacts DEF SyncLength
<1>5. Len(args) >= escs - Len(rx)
  BY <1>4 DEF EscapesInv
<1> QED BY <1>2, <1>3, <1>4, <1>5, SizesFacts

\* After as many ESC as the longest command has arguments nothing that was sent is taken for an
\* argument any more: the loader is between commands wherever lost characters had left it.
THEOREM EscapesLeadOut == Spec => []EscapesSuffice
<1>1. Init => EscapesInv
  BY DEF Init, EscapesInv
<1>2. Spec => [](TypeInv /\ EscapesInv)
  BY <1>1, InitType, NextType, EscapesNext, PTL DEF Spec
<1> QED BY <1>2, EscapesOut, PTL

-----------------------------------------------------------------------------
(* The session on a line without losses: at each of its steps loader and host agree on the command,
   on the arguments that are still to come, on device and address, and on what is in memory. *)

Holds == \A m \in DOMAIN image : \A a \in DOMAIN image[m] : image[m][a] \in {NoPromise, Memory[m][a]}
Settings == (selected => device = DevType) /\ (hostAddr # None => address = hostAddr)
AtRest == cmd = None /\ erasing = None
Awaits(what, want) == host = [pc |-> "await", want |-> want, what |-> what]
Up == mode \in {"blink", "loader"}
FlashBlank == \A a \in DOMAIN flash : flash[a] = Blank
NoFlash == \A a \in DOMAIN image["FLASH"] : image["FLASH"][a] = NoPromise

\* Nobody calls; the host calls; between two commands.
Unconnected == host.pc = "off" /\ mode \in {"off", "wait", "app", "hung"} /\ rx = <<>> /\ Holds
Calling == /\ Awaits("connect", 1) /\ mode \in {"wait", "app", "hung"} /\ rx = <<Start>> /\ tx = <<>>
           /\ hostAddr = None /\ ~selected /\ Holds
Ready == /\ host.pc = "idle" /\ Up /\ rx = <<>> /\ AtRest /\ Settings /\ Holds
         /\ (mode = "blink" => hostAddr = None)

\* The characters of a command on their way: s, in the loader and on the line.
Way(s) == \/ cmd = None /\ rx = s
          \/ cmd # None /\ cmd = Head(s) /\ args \o rx = Tail(s)
Coming(what, want, s) ==
  Awaits(what, want) /\ Way(s) /\ tx = <<>> /\ erasing = None /\ Up

ComingDevice == /\ Coming("cr", 1, <<84, DevType>>)
                /\ (hostAddr # None => address = hostAddr) /\ Holds
ComingAddress == \E w \in Addresses : /\ Coming("cr", 1, <<65, High(w), Low(w)>>) /\ hostAddr = w
                                      /\ (selected => device = DevType) /\ Holds
ComingAsk == \E q \in Asks : Coming("ask", q.want, q.bytes) /\ Settings /\ Holds
ComingErase == Coming("erase", 1, <<101>>) /\ selected /\ Settings /\ Holds /\ NoFlash
ComingExit == Coming("exit", 1, <<69>>) /\ Holds

From(m) == IF m = "FLASH" THEN address * 2 ELSE address
ComingRead(m) ==
  /\ Coming(m, 2, <<103, 0, 2, TypeOf(m)>>) /\ (selected => device = DevType) /\ Holds
  /\ mode = "blink" => hostAddr = None
  /\ hostAddr = address + Units(m, 2)
  /\ \A a \in From(m)..(From(m) + 1) : a \in DOMAIN image[m] /\ image[m][a] # NoPromise
BlockArgs(b) == <<High(Len(b.data)), Low(Len(b.data)), TypeOf(b.mem)>> \o b.data
BlockBytes(b) == <<66, High(Len(b.data)), Low(Len(b.data)), TypeOf(b.mem)>> \o b.data
Cells(b) == From(b.mem)..(From(b.mem) + Len(b.data) - 1)
ComingBlock(b) ==
  /\ Coming("cr", 1, BlockBytes(b)) /\ device = DevType /\ (mode = "blink" => hostAddr = None)
  /\ hostAddr = address + Units(b.mem, Len(b.data)) /\ Cells(b) \subseteq DOMAIN image[b.mem]
  /\ b.mem = "FLASH" => \A a \in Cells(b) : flash[a] = Blank /\ PageOf(a) = PageOf(From(b.mem))
  /\ \A m \in DOMAIN image : \A a \in DOMAIN image[m] :
       IF m = b.mem /\ a \in Cells(b) THEN image[m][a] = b.data[a - From(m) + 1]
       ELSE image[m][a] \in {NoPromise, Memory[m][a]}

\* The loader erases; the answer is on its way.
ErasingAll ==
  /\ Awaits("erase", 1) /\ erasing # None /\ rx = <<>> /\ tx = <<>> /\ Settings /\ Holds /\ NoFlash
  /\ \A a \in DOMAIN flash : a < erasing => flash[a] = Blank
Matches ==
  /\ host.what \in {"cr", "erase", "exit"} => tx = <<CR>>
  /\ host.what = "connect" => tx = <<Boot>>
  /\ host.what \in {"FLASH", "EEPROM"} =>
       \A i \in 1..Len(tx) : tx[i] = image[host.what][ByteAddr(host.what) - host.want + i - 1]
Answered ==
  /\ host.pc = "await" /\ host.what \in {"cr", "erase", "exit", "connect", "FLASH", "EEPROM", "ask"}
  /\ rx = <<>> /\ AtRest /\ Len(tx) = host.want /\ tx # <<>> /\ Matches /\ Holds
  /\ host.what = "erase" => FlashBlank
  /\ host.what = "exit" => mode \in {"off", "wait", "app"}
  /\ host.what # "exit" => Up /\ Settings
  /\ mode = "blink" => hostAddr = None

OnItsWay == \/ ComingDevice \/ ComingAddress \/ ComingAsk \/ ComingErase \/ ComingExit
            \/ \E m \in {"FLASH", "EEPROM"} : ComingRead(m)
            \/ \E b \in Blocks : ComingBlock(b)
Agreed == Unconnected \/ Calling \/ Ready \/ Answered \/ ErasingAll \/ OnItsWay

InSession == mode \notin {"app", "hung"}
CleanInv == losses = 0 /\ resets = 0 => mode = "app" \/ (Agreed /\ mode # "hung")

-----------------------------------------------------------------------------
(* Steps of the loader. *)

\* With nothing to do it only waits for characters, or starts.
LEMMA Idling ==
  ASSUME LoaderInv, Loader, rx = <<>>, AtRest, InSession
  PROVE  /\ UNCHANGED <<cmd, args, erasing, flash, eeprom, rx, tx, hostVars, commands, losses, resets>>
         /\ \/ mode = "wait" /\ mode' \in {"wait", "app"} /\ UNCHANGED <<address, device>>
            \/ mode = "blink" /\ mode' = "loader" /\ UNCHANGED <<address, device>>
            \/ mode = "off" /\ mode' = "wait"
<1>1. ~WaitCharacter /\ ~CommandLetter /\ ~CommandErase /\ ~CommandExit /\ ~Argument /\ ~AppIgnores /\ ~ErasePage
  BY DEF WaitCharacter, CommandLetter, CommandErase, CommandExit, Argument, AppIgnores, Listening,
         ErasePage, AtRest
<1>2. ~SetAddress /\ ~SetDevice /\ ~LedIgnored /\ ~LoadBlock /\ ~ReadBlock
  BY DEF SetAddress, SetDevice, LedIgnored, LoadBlock, ReadBlock, Carry, AtRest, None
<1>3. CASE WaitTick
  BY <1>3 DEF WaitTick, Waits, memVars, lineVars, hostVars, InSession
<1>4. CASE Blink
  <2>1. /\ mode = "blink" /\ mode' = "loader" /\ rx' \in Kept(rx)
        /\ UNCHANGED <<cmd, args, erasing, address, device, flash, eeprom, tx, hostVars, commands, losses, resets>>
    BY <1>4 DEF Blink, memVars, hostVars
  <2>2. rx \in Seq(Char) /\ Len(rx) <= 3
    BY DEF LoaderInv
  <2>3. rx' = rx
    BY <2>1, <2>2, KeptType
  <2> QED BY <2>1, <2>3
<1>5. CASE WatchdogReset
  BY <1>5 DEF WatchdogReset, Restarts, LoaderInv, AtRest, memVars, hostVars
<1> QED BY <1>1, <1>2, <1>3, <1>4, <1>5 DEF Loader

\* The arguments of one command: no shorter list completes it.
LEMMA AllOrMore ==
  ASSUME NEW c \in WithArguments, NEW t \in Seq(Char), Len(t) <= Needed(c, t), Complete(c, t),
         NEW a \in Seq(Char), NEW r \in Seq(Char), a \o r = t, Len(a) <= Needed(c, a)
  PROVE  Complete(c, a) => a = t /\ r = <<>>
<1> SUFFICES ASSUME Complete(c, a) PROVE a = t /\ r = <<>>
  OBVIOUS
<1>1. Len(a) = Needed(c, a) /\ Len(t) = Needed(c, t)
  BY CompleteIs
<1>2. Len(t) = Len(a) + Len(r) /\ Len(a) \in Nat /\ Len(r) \in Nat
  BY ConcatProperties
<1>3. Needed(c, a) = Needed(c, t)
  <2>1. CASE c = 66
    <3>1. Len(a) >= 3
      <4>1. Len(a) >= Arguments(66) /\ Arguments(66) = 3
        BY <2>1, LettersAreChars, ArgumentsIs DEF Complete
      <4> QED BY <4>1
    <3>2. t[1] = a[1] /\ t[2] = a[2]
      BY <1>2, <3>1, ConcatProperties
    <3>3. Len(t) >= 3
      BY <1>2, <3>1
    <3> QED BY <3>1, <3>2, <3>3 DEF Needed
  <2>2. CASE c # 66
    BY <2>2 DEF Needed
  <2> QED BY <2>1, <2>2
<1>4. Len(r) = 0
  BY <1>1, <1>2, <1>3
<1>5. r = <<>>
  BY <1>4, EmptySeq
<1> QED BY <1>5, ConcatEmptySeq

\* A command with arguments: its characters are taken one by one, and nothing else changes until
\* the last one is in.
Untouched == UNCHANGED <<address, device, flash, eeprom, host, hostAddr, selected, image, escs>>
LEMMA CommandComes ==
  ASSUME LoaderInv, Loader, NEW what, NEW want, NEW s, NEW c \in WithArguments, NEW t \in Seq(Char),
         Len(t) <= Needed(c, t), Complete(c, t), s = <<c>> \o t,
         Coming(what, want, s), Len(s) <= 3 \/ mode = "loader"
  PROVE  \/ Untouched /\ Coming(what, want, s)' /\ (mode' = mode \/ mode' = "loader")
            /\ UNCHANGED <<losses, resets>>
         \/ Carry(c) /\ args = t /\ rx = <<>> /\ tx = <<>> /\ erasing = None /\ mode = "loader"
<1>1. Head(s) = c /\ Tail(s) = t /\ s # <<>> /\ s \in Seq(Char)
  <2>1. c \in Char
    BY LettersAreChars
  <2>2. <<c>> \in Seq(Char) /\ Len(<<c>>) = 1
    BY <2>1
  <2>3. s \in Seq(Char) /\ Len(s) = 1 + Len(t) /\ s[1] = c
    BY <2>2, ConcatProperties
  <2>4. Tail(s) = t
    <3>1. \A i \in 1..Len(t) : s[i + 1] = t[i]
      BY <2>2, <2>3, ConcatProperties
    <3>2. Len(Tail(s)) = Len(t) /\ \A i \in 1..Len(t) : Tail(s)[i] = s[i + 1]
      BY <2>3, HeadTailProperties
    <3>3. Tail(s) \in Seq(Char)
      BY <2>3, HeadTailProperties
    <3> QED BY <3>1, <3>2, <3>3, SeqEqual
  <2> QED BY <2>3, <2>4
<1>2. /\ rx \in Seq(Char) /\ args \in Seq(Char) /\ erasing = None /\ mode \in {"blink", "loader"} /\ tx = <<>>
      /\ Awaits(what, want)
  BY DEF LoaderInv, Coming, Up
<1>3. cmd = None => rx = s /\ args = <<>>
  BY DEF Coming, Way, LoaderInv
<1>4. cmd # None => cmd = c /\ args \o rx = t /\ Len(args) <= Needed(c, args)
  BY <1>1 DEF Coming, Way, LoaderInv
<1>5. ~WaitCharacter /\ ~WaitTick /\ ~WatchdogReset /\ ~AppIgnores /\ ~ErasePage
  BY <1>2 DEF WaitCharacter, WaitTick, WatchdogReset, AppIgnores, ErasePage
<1>6. ~CommandErase /\ ~CommandExit
  BY <1>1, <1>3 DEF CommandErase, CommandExit, WithArguments
<1>7. CASE Blink
  <2>1. /\ mode = "blink" /\ mode' = "loader" /\ rx' \in Kept(rx) /\ cmd = None
        /\ UNCHANGED <<cmd, args, erasing, tx, losses, resets>> /\ Untouched
    BY <1>7 DEF Blink, memVars, hostVars, Untouched, LoaderInv
  <2>2. rx' = rx
    BY <1>2, <1>3, <2>1, KeptType
  <2>3. Way(s)' /\ Awaits(what, want)'
    BY <1>2, <1>3, <2>1, <2>2 DEF Way, Awaits, Untouched
  <2> QED BY <1>2, <2>1, <2>3 DEF Coming, Up, Untouched
<1>8. CASE CommandLetter
  <2>1. /\ cmd = None /\ mode = "loader" /\ rx' = Tail(rx) /\ Head(rx) = c
        /\ UNCHANGED <<mode, args, erasing, losses, resets>> /\ Untouched
    BY <1>1, <1>3, <1>8 DEF CommandLetter, Received, Listening, memVars, hostVars, Untouched
  <2>2. cmd' = c /\ tx' = tx /\ c # None
    <3>1. Arguments(c) > 0 /\ c # None
      BY LettersAreChars, ArgumentsIs DEF WithArguments, None
    <3> QED BY <1>8, <2>1, <3>1 DEF CommandLetter
  <2>3. args' \o rx' = t
    BY <1>1, <1>3, <2>1, ConcatEmptySeq
  <2>4. Way(s)' /\ Awaits(what, want)'
    BY <1>1, <1>2, <2>1, <2>2, <2>3 DEF Way, Awaits, Untouched
  <2> QED BY <1>2, <2>1, <2>2, <2>4 DEF Coming, Up, Untouched
<1>9. CASE Argument
  <2>1. /\ cmd # None /\ mode = "loader" /\ rx # <<>> /\ rx' = Tail(rx) /\ args' = Append(args, Head(rx))
        /\ UNCHANGED <<mode, cmd, erasing, tx, losses, resets>> /\ Untouched
    BY <1>9 DEF Argument, Received, Listening, memVars, hostVars, Untouched
  <2>2. Head(rx) \in Char /\ Tail(rx) \in Seq(Char) /\ rx = <<Head(rx)>> \o Tail(rx) /\ <<Head(rx)>> \in Seq(Char)
    BY <1>2, <2>1
  <2>3. args' = args \o <<Head(rx)>>
    BY <1>2, <2>1, <2>2, AppendIsConcat
  <2>4. args' \o rx' = args \o (<<Head(rx)>> \o Tail(rx))
    BY <1>2, <2>1, <2>2, <2>3, ConcatAssociative
  <2>5. args' \o rx' = t
    BY <1>4, <2>1, <2>2, <2>4
  <2>6. Way(s)' /\ Awaits(what, want)'
    BY <1>1, <1>2, <1>4, <2>1, <2>5 DEF Way, Awaits, Untouched
  <2> QED BY <1>2, <2>1, <2>6 DEF Coming, Up, Untouched
<1>10. CASE SetAddress \/ SetDevice \/ LedIgnored \/ LoadBlock \/ ReadBlock
  <2>1. PICK d \in WithArguments : Carry(d)
    BY <1>10 DEF SetAddress, SetDevice, LedIgnored, LoadBlock, ReadBlock, WithArguments
  <2>2. cmd = d /\ cmd # None /\ mode = "loader" /\ Complete(cmd, args)
    BY <2>1 DEF Carry, WithArguments, None
  <2>3. d = c
    BY <1>4, <2>2
  <2>4. args = t /\ rx = <<>>
    BY <1>2, <1>4, <2>2, AllOrMore
  <2> QED BY <1>2, <2>1, <2>2, <2>3, <2>4
<1> QED BY <1>5, <1>6, <1>7, <1>8, <1>9, <1>10 DEF Loader

\* A command without arguments: it is carried out with its letter.
LEMMA LetterComes ==
  ASSUME LoaderInv, Loader, NEW what, NEW want, NEW c \in Char \ WithArguments,
         Coming(what, want, <<c>>)
  PROVE  \/ Untouched /\ Coming(what, want, <<c>>)' /\ (mode' = mode \/ mode' = "loader")
            /\ UNCHANGED <<losses, resets>>
         \/ /\ CommandLetter \/ CommandErase \/ CommandExit
            /\ mode = "loader" /\ AtRest /\ args = <<>> /\ tx = <<>> /\ Head(rx) = c /\ Tail(rx) = <<>>
<1>1. /\ rx \in Seq(Char) /\ erasing = None /\ mode \in {"blink", "loader"} /\ tx = <<>>
      /\ Awaits(what, want)
  BY DEF LoaderInv, Coming, Up
<1>2. cmd = None /\ rx = <<c>> /\ args = <<>>
  <2>1. Head(<<c>>) = c
    OBVIOUS
  <2> QED BY <2>1 DEF Coming, Way, LoaderInv
<1>3. Head(rx) = c /\ Tail(rx) = <<>> /\ Len(rx) <= 3
  BY <1>2
<1>4. ~WaitCharacter /\ ~WaitTick /\ ~WatchdogReset /\ ~AppIgnores /\ ~ErasePage /\ ~Argument
  BY <1>1, <1>2 DEF WaitCharacter, WaitTick, WatchdogReset, AppIgnores, ErasePage, Argument
<1>5. ~SetAddress /\ ~SetDevice /\ ~LedIgnored /\ ~LoadBlock /\ ~ReadBlock
  BY <1>2 DEF SetAddress, SetDevice, LedIgnored, LoadBlock, ReadBlock, Carry, None
<1>6. CASE Blink
  <2>1. /\ mode = "blink" /\ mode' = "loader" /\ rx' \in Kept(rx)
        /\ UNCHANGED <<cmd, args, erasing, tx, losses, resets>> /\ Untouched
    BY <1>6 DEF Blink, memVars, hostVars, Untouched
  <2>2. rx' = rx
    BY <1>1, <1>3, <2>1, KeptType
  <2>3. Way(<<c>>)' /\ Awaits(what, want)'
    BY <1>1, <1>2, <2>1, <2>2 DEF Way, Awaits, Untouched
  <2> QED BY <1>1, <2>1, <2>3 DEF Coming, Up, Untouched
<1>7. CASE CommandLetter \/ CommandErase \/ CommandExit
  BY <1>1, <1>2, <1>3, <1>7 DEF CommandLetter, CommandErase, CommandExit, Listening, AtRest
<1> QED BY <1>4, <1>5, <1>6, <1>7 DEF Loader

-----------------------------------------------------------------------------
(* The loader in a session. *)

LEMMA HoldsKept ==
  ASSUME Holds, UNCHANGED <<flash, eeprom, image>>
  PROVE  Holds'
BY DEF Holds, Memory

LEMMA RestsOn ==
  ASSUME TypeInv, Loader, InSession, Unconnected \/ Ready \/ Answered
  PROVE  /\ (Unconnected \/ Ready \/ Answered)' /\ mode' # "hung"
         /\ UNCHANGED <<losses, resets>>
<1>1. rx = <<>> /\ AtRest /\ LoaderInv /\ Holds
  BY DEF Unconnected, Ready, Answered, TypeInv, LoaderInv, AtRest
<1>2. /\ UNCHANGED <<cmd, args, erasing, flash, eeprom, rx, tx, hostVars, losses, resets>>
      /\ \/ mode = "wait" /\ mode' \in {"wait", "app"} /\ UNCHANGED <<address, device>>
         \/ mode = "blink" /\ mode' = "loader" /\ UNCHANGED <<address, device>>
         \/ mode = "off" /\ mode' = "wait"
  BY <1>1, Idling
<1>3. Holds' /\ AtRest' /\ UNCHANGED <<host, hostAddr, selected, image>>
  BY <1>1, <1>2, HoldsKept DEF AtRest, hostVars
<1>4. CASE Unconnected
  BY <1>2, <1>3, <1>4 DEF Unconnected
<1>5. CASE Ready
  BY <1>2, <1>3, <1>5 DEF Ready, Up, Settings
<1>6. CASE Answered
  <2>1. Matches'
    <3>1. Matches /\ tx' = tx /\ host' = host /\ image' = image /\ hostAddr' = hostAddr
      BY <1>2, <1>3, <1>6 DEF Answered
    <3>2. \A m : ByteAddr(m)' = ByteAddr(m)
      BY <3>1 DEF ByteAddr
    <3>3. (host.what \in {"FLASH", "EEPROM"})' =>
            \A i \in 1..Len(tx') : tx'[i] = image'[host'.what][ByteAddr(host.what)' - host'.want + i - 1]
      BY <3>1, <3>2 DEF Matches
    <3> QED BY <3>1, <3>2, <3>3 DEF Matches
  <2>2. FlashBlank => FlashBlank'
    BY <1>2 DEF FlashBlank
  <2> QED BY <1>2, <1>3, <1>6, <2>1, <2>2 DEF Answered, Up, Settings
<1> QED BY <1>2, <1>4, <1>5, <1>6

LEMMA CallComes ==
  ASSUME TypeInv, Loader, InSession, Calling
  PROVE  Answered' /\ mode' # "hung" /\ UNCHANGED <<losses, resets>>
<1>1. /\ mode = "wait" /\ rx = <<Start>> /\ tx = <<>> /\ cmd = None /\ erasing = None
      /\ hostAddr = None /\ ~selected /\ Holds
  BY DEF Calling, InSession, TypeInv, LoaderInv
<1>2. Head(rx) = Start /\ Tail(rx) = <<>> /\ rx # <<>>
  BY <1>1
<1>3. WaitCharacter
  BY <1>1, <1>2 DEF Loader, WaitTick, Blink, CommandLetter, CommandErase, ErasePage, CommandExit,
          Argument, SetAddress, SetDevice, LedIgnored, LoadBlock, ReadBlock, WatchdogReset,
          AppIgnores, Listening, Carry
<1>4. /\ rx' = <<>> /\ mode' = "blink" /\ tx' = Append(tx, Boot)
      /\ UNCHANGED <<cmd, erasing, flash, eeprom, host, hostAddr, selected, image, losses, resets>>
  <2>1. Start # ESC
    BY DEF Start, ESC
  <2> QED BY <1>2, <1>3, <2>1 DEF WaitCharacter, memVars, hostVars
<1>5. tx' = <<Boot>> /\ Len(tx') = 1 /\ tx' # <<>>
  BY <1>1, <1>4
<1>6. Holds'
  BY <1>1, <1>4, HoldsKept
<1>7. host' = [pc |-> "await", want |-> 1, what |-> "connect"]
  BY <1>4 DEF Calling, Awaits
<1> QED BY <1>1, <1>4, <1>5, <1>6, <1>7 DEF Answered, AtRest, Matches, Up, Settings

\* A page of flash starts at a multiple of its size.
LEMMA PageStart ==
  ASSUME NEW e \in Nat, e % PageSize = 0, NEW a \in Nat, e <= a, a < e + PageSize
  PROVE  PageOf(a) = e
<1>1. PageSize \in Nat \ {0}
  BY SerialAssumption
<1> DEFINE p == PageSize
           k == e \div p
<1>2. k \in Nat /\ e = p * k
  BY <1>1
<1> HIDE DEF k
<1>3. a \div p = k
  <2> DEFINE r == a - p * k
  <2>1. r \in 0..(p - 1) /\ a = p * k + r
    BY <1>1, <1>2
  <2> HIDE DEF r
  <2> QED BY <1>1, <1>2, <2>1
<1>4. k * p = p * k
  BY <1>1, <1>2
<1> QED BY <1>2, <1>3, <1>4 DEF PageOf

LEMMA EraseGoesOn ==
  ASSUME TypeInv, Loader, ErasingAll
  PROVE  (ErasingAll \/ Answered)' /\ mode' # "hung" /\ UNCHANGED <<losses, resets>>
<1>1. /\ erasing # None /\ mode = "loader" /\ cmd = None /\ args = <<>> /\ erasing \in 0..FlashSize
      /\ erasing % PageSize = 0 /\ rx = <<>> /\ tx = <<>> /\ Settings /\ Holds /\ NoFlash
      /\ \A a \in DOMAIN flash : a < erasing => flash[a] = Blank
      /\ DOMAIN flash = 0..(FlashSize - 1)
  BY DEF ErasingAll, TypeInv, LoaderInv
<1>2. ErasePage
  BY <1>1 DEF Loader, WaitCharacter, WaitTick, Blink, CommandLetter, CommandErase, CommandExit,
          Argument, SetAddress, SetDevice, LedIgnored, LoadBlock, ReadBlock, WatchdogReset,
          AppIgnores, Listening, Carry, None
<1>3. UNCHANGED <<mode, cmd, args, address, device, eeprom, host, hostAddr, selected, image, losses, resets>>
  BY <1>2 DEF ErasePage, hostVars
<1>4. Settings' /\ NoFlash'
  BY <1>1, <1>3 DEF Settings, NoFlash
<1>5. CASE MoreToErase
  <2>1. /\ flash' = [a \in DOMAIN flash |-> IF PageOf(a) = erasing THEN Blank ELSE flash[a]]
        /\ erasing' = erasing + PageSize /\ rx' \in Kept(rx) /\ tx' = tx
    BY <1>2, <1>5 DEF ErasePage, PageErased
  <2>2. rx' = <<>>
    <3>1. rx \in Seq(Char) /\ Len(rx) <= 3
      BY <1>1
    <3> QED BY <1>1, <2>1, <3>1, KeptType
  <2>3. \A a \in DOMAIN flash' : a < erasing' => flash'[a] = Blank
    <3> SUFFICES ASSUME NEW a \in 0..(FlashSize - 1), a < erasing + PageSize
                 PROVE  flash'[a] = Blank
      BY <1>1, <2>1
    <3>1. CASE a < erasing
      BY <1>1, <2>1, <3>1
    <3>2. CASE ~(a < erasing)
      <4>1. PageOf(a) = erasing
        BY <1>1, <3>2, SizesFacts, PageStart
      <4> QED BY <1>1, <2>1, <4>1
    <3> QED BY <3>1, <3>2
  <2>4. Holds'
    <3>1. SUFFICES ASSUME NEW m \in {"FLASH", "EEPROM"}, NEW a \in DOMAIN image[m]
                   PROVE  image[m][a] \in {NoPromise, Memory'[m][a]}
      BY <1>3 DEF Holds, TypeInv, HostInv
    <3>2. CASE m = "FLASH"
      BY <1>1, <3>2 DEF NoFlash
    <3>3. CASE m = "EEPROM"
      BY <1>1, <1>3, <3>3 DEF Holds, Memory, TypeInv, HostInv
    <3> QED BY <3>1, <3>2, <3>3
  <2>5. erasing' # None
    BY <1>1, <2>1, SizesFacts DEF None
  <2>6. Awaits("erase", 1)'
    BY <1>3 DEF ErasingAll, Awaits
  <2>7. ErasingAll'
    BY <1>1, <1>4, <2>1, <2>2, <2>3, <2>4, <2>5, <2>6 DEF ErasingAll
  <2> QED BY <1>1, <1>3, <2>7
<1>6. CASE ~MoreToErase
  <2>1. erasing' = None /\ tx' = tx \o <<CR>> /\ UNCHANGED <<flash, rx>>
    BY <1>2, <1>6 DEF ErasePage, Replies
  <2>2. tx' = <<CR>> /\ Len(tx') = 1 /\ tx' # <<>>
    BY <1>1, <2>1
  <2>3. FlashBlank'
    BY <1>1, <1>6, <2>1, SizesFacts DEF FlashBlank, MoreToErase
  <2>4. Holds'
    BY <1>1, <1>3, <2>1, HoldsKept
  <2>5. host' = [pc |-> "await", want |-> 1, what |-> "erase"]
    BY <1>3 DEF ErasingAll, Awaits
  <2>6. AtRest' /\ Up' /\ Matches'
    BY <1>1, <1>3, <2>1, <2>2, <2>5 DEF AtRest, Up, Matches
  <2>7. Answered'
    BY <1>1, <1>3, <1>4, <2>1, <2>2, <2>3, <2>4, <2>5, <2>6 DEF Answered
  <2> QED BY <1>1, <1>3, <2>7
<1> QED BY <1>5, <1>6

\* The last argument is in: the command is carried out.
LEMMA Carrying ==
  ASSUME Loader, NEW c \in WithArguments, Carry(c), rx = <<>>, erasing = None, mode = "loader"
  PROVE  /\ c = 84 => SetDevice
         /\ c = 65 => SetAddress
         /\ c \in {120, 121} => LedIgnored
         /\ c = 66 => LoadBlock
         /\ c = 103 => ReadBlock
         /\ cmd' = None /\ args' = <<>> /\ erasing' = None
         /\ UNCHANGED <<host, hostAddr, selected, image, escs, losses, resets>>
<1>1. cmd = c /\ cmd # None /\ cmd' = None /\ args' = <<>>
  BY DEF Carry, WithArguments, None
<1>2. SetAddress \/ SetDevice \/ LedIgnored \/ LoadBlock \/ ReadBlock
  BY <1>1 DEF Loader, WaitCharacter, WaitTick, Blink, CommandLetter, CommandErase, ErasePage, CommandExit,
          Argument, WatchdogReset, AppIgnores, Listening
<1>3. /\ SetAddress => c = 65
      /\ SetDevice => c = 84
      /\ LedIgnored => c \in {120, 121}
      /\ LoadBlock => c = 66
      /\ ReadBlock => c = 103
  BY <1>1 DEF SetAddress, SetDevice, LedIgnored, LoadBlock, ReadBlock, Carry
<1>4. UNCHANGED <<erasing, host, hostAddr, selected, image, escs, losses, resets>>
  BY <1>2 DEF SetAddress, SetDevice, LedIgnored, LoadBlock, ReadBlock, hostVars
<1> QED BY <1>1, <1>2, <1>3, <1>4

LEMMA WholeCommand ==
  ASSUME NEW c \in WithArguments, c # 66, NEW t \in Seq(Char), Len(t) = Arguments(c)
  PROVE  Len(t) <= Needed(c, t) /\ Complete(c, t)
<1>1. Arguments(c) \in 0..3
  BY LettersAreChars, ArgumentsIs
<1> QED BY <1>1 DEF Needed, Complete

\* The characters of a command are its letter and its arguments.
LEMMA SpelledTwo ==
  ASSUME NEW c \in Char, NEW x \in Char
  PROVE  <<c, x>> = <<c>> \o <<x>> /\ Len(<<c, x>>) = 2 /\ <<x>> \in Seq(Char) /\ Len(<<x>>) = 1
<1>1. /\ <<c>> \in Seq(Char) /\ Len(<<c>>) = 1 /\ <<x>> \in Seq(Char) /\ Len(<<x>>) = 1
      /\ <<c, x>> \in Seq(Char) /\ Len(<<c, x>>) = 2 /\ <<c, x>>[1] = c /\ <<c, x>>[2] = x
  OBVIOUS
<1> PICK s, u : s = <<c>> \o <<x>> /\ u = <<c, x>>
  OBVIOUS
<1>2. s \in Seq(Char) /\ Len(s) = 2 /\ s[1] = c /\ s[2] = x
  BY <1>1, ConcatProperties
<1>3. \A i \in 1..2 : i = 1 \/ i = 2
  OBVIOUS
<1>4. u \in Seq(Char) /\ Len(u) = 2 /\ \A i \in 1..2 : s[i] = u[i]
  BY <1>1, <1>2, <1>3
<1>5. s = u
  BY <1>2, <1>4, SeqEqual
<1> QED BY <1>1, <1>5

LEMMA SpelledThree ==
  ASSUME NEW c \in Char, NEW x \in Char, NEW y \in Char
  PROVE  /\ <<c, x, y>> = <<c>> \o <<x, y>> /\ Len(<<c, x, y>>) = 3
         /\ <<x, y>> \in Seq(Char) /\ Len(<<x, y>>) = 2
<1>1. /\ <<c>> \in Seq(Char) /\ Len(<<c>>) = 1 /\ <<x, y>> \in Seq(Char) /\ Len(<<x, y>>) = 2
      /\ <<c, x, y>> \in Seq(Char) /\ Len(<<c, x, y>>) = 3
      /\ <<c, x, y>>[1] = c /\ <<c, x, y>>[2] = x /\ <<c, x, y>>[3] = y
      /\ <<x, y>>[1] = x /\ <<x, y>>[2] = y
  OBVIOUS
<1> PICK s, u : s = <<c>> \o <<x, y>> /\ u = <<c, x, y>>
  OBVIOUS
<1>2. s \in Seq(Char) /\ Len(s) = 3 /\ s[1] = c /\ s[2] = x /\ s[3] = y
  BY <1>1, ConcatProperties
<1>3. \A i \in 1..3 : i = 1 \/ i = 2 \/ i = 3
  OBVIOUS
<1>4. u \in Seq(Char) /\ Len(u) = 3 /\ \A i \in 1..3 : s[i] = u[i]
  BY <1>1, <1>2, <1>3
<1>5. s = u
  BY <1>2, <1>4, SeqEqual
<1> QED BY <1>1, <1>5

LEMMA DeviceComes ==
  ASSUME TypeInv, Loader, ComingDevice
  PROVE  (ComingDevice \/ Answered)' /\ mode' # "hung" /\ UNCHANGED <<losses, resets>>
<1>0. PICK t, s : t = <<DevType>> /\ s = <<84, DevType>>
  OBVIOUS
<1>1. /\ 84 \in WithArguments /\ t \in Seq(Char) /\ Len(t) = Arguments(84)
      /\ s = <<84>> \o t /\ Len(s) <= 3 /\ 84 # 66
  <2>1. 84 \in WithArguments /\ DevType \in Char /\ 84 \in Char /\ Arguments(84) = 1
    BY SizesFacts, LettersAreChars, ArgumentsIs DEF WithArguments, Char
  <2> QED BY <1>0, <2>1, SpelledTwo
<1>2. Len(t) <= Needed(84, t) /\ Complete(84, t)
  BY <1>1, WholeCommand
<1>3. Coming("cr", 1, s) /\ LoaderInv /\ mode # "hung" /\ Awaits("cr", 1) /\ Holds
  BY <1>0 DEF ComingDevice, Coming, TypeInv, Up
<1>4. CASE Untouched /\ Coming("cr", 1, s)' /\ (mode' = mode \/ mode' = "loader") /\ UNCHANGED <<losses, resets>>
  <2>1. Holds' /\ (hostAddr' # None => address' = hostAddr')
    BY <1>3, <1>4, HoldsKept DEF Untouched, ComingDevice
  <2> QED BY <1>0, <1>3, <1>4, <2>1 DEF ComingDevice
<1>5. CASE Carry(84) /\ args = t /\ rx = <<>> /\ tx = <<>> /\ erasing = None /\ mode = "loader"
  <2>1. /\ SetDevice /\ cmd' = None /\ erasing' = None
        /\ UNCHANGED <<host, hostAddr, selected, image, losses, resets>>
    BY <1>1, <1>5, Carrying
  <2>2. /\ device' = DevType /\ tx' = <<>> \o <<CR>> /\ UNCHANGED <<mode, address, flash, eeprom, rx>>
    BY <1>0, <1>5, <2>1 DEF SetDevice, Replies, memVars
  <2>3. tx' = <<CR>> /\ Len(tx') = 1 /\ tx' # <<>>
    BY <2>2
  <2>4. host' = [pc |-> "await", want |-> 1, what |-> "cr"] /\ Holds'
    BY <1>3, <2>1, <2>2, HoldsKept DEF Awaits
  <2>5. Settings' /\ AtRest' /\ Up' /\ Matches'
    BY <1>5, <2>1, <2>2, <2>3, <2>4 DEF Settings, AtRest, Up, Matches, ComingDevice
  <2> QED BY <1>5, <2>1, <2>2, <2>3, <2>4, <2>5 DEF Answered
<1>6. \/ Untouched /\ Coming("cr", 1, s)' /\ (mode' = mode \/ mode' = "loader") /\ UNCHANGED <<losses, resets>>
      \/ Carry(84) /\ args = t /\ rx = <<>> /\ tx = <<>> /\ erasing = None /\ mode = "loader"
  BY <1>1, <1>2, <1>3, CommandComes
<1> QED BY <1>4, <1>5, <1>6

LEMMA AddressComes ==
  ASSUME TypeInv, Loader, ComingAddress
  PROVE  (ComingAddress \/ Answered)' /\ mode' # "hung" /\ UNCHANGED <<losses, resets>>
<1>0. PICK w \in Addresses : /\ Coming("cr", 1, <<65, High(w), Low(w)>>) /\ hostAddr = w
                             /\ (selected => device = DevType) /\ Holds
  BY DEF ComingAddress
<1>000. w \in 0..(Word - 1)
  BY HostAssumption
<1>00. PICK x, y : x = High(w) /\ y = Low(w)
  OBVIOUS
<1>01. PICK t, s : t = <<x, y>> /\ s = <<65, x, y>>
  OBVIOUS
<1>1. /\ 65 \in WithArguments /\ t \in Seq(Char) /\ Len(t) = Arguments(65)
      /\ s = <<65>> \o t /\ Len(s) <= 3 /\ 65 # 66
  <2>1. 65 \in WithArguments /\ 65 \in Char /\ Arguments(65) = 2
    BY LettersAreChars, ArgumentsIs DEF WithArguments, Char
  <2>11. x \in Char /\ y \in Char
    BY <1>00, <1>000, Halves
  <2>2. <<65, x, y>> = <<65>> \o <<x, y>> /\ Len(<<65, x, y>>) = 3 /\ <<x, y>> \in Seq(Char) /\ Len(<<x, y>>) = 2
    BY <2>1, <2>11, SpelledThree
  <2> QED BY <1>01, <2>1, <2>2
<1>2. Len(t) <= Needed(65, t) /\ Complete(65, t)
  BY <1>1, WholeCommand
<1>3. Coming("cr", 1, s) /\ LoaderInv /\ mode # "hung" /\ Awaits("cr", 1) /\ Holds
  BY <1>0, <1>00, <1>01 DEF Coming, TypeInv, Up
<1>4. t[1] * 256 + t[2] = w
  BY <1>00, <1>000, <1>01, Halves
<1>5. CASE Untouched /\ Coming("cr", 1, s)' /\ (mode' = mode \/ mode' = "loader") /\ UNCHANGED <<losses, resets>>
  <2>1. Holds' /\ hostAddr' = w /\ (selected' => device' = DevType)
    BY <1>0, <1>3, <1>5, HoldsKept DEF Untouched
  <2> QED BY <1>00, <1>01, <1>3, <1>5, <2>1 DEF ComingAddress
<1>6. CASE Carry(65) /\ args = t /\ rx = <<>> /\ tx = <<>> /\ erasing = None /\ mode = "loader"
  <2>1. /\ SetAddress /\ cmd' = None /\ erasing' = None
        /\ UNCHANGED <<host, hostAddr, selected, image, losses, resets>>
    BY <1>1, <1>6, Carrying
  <2>2. /\ address' = w /\ tx' = <<>> \o <<CR>> /\ UNCHANGED <<mode, device, flash, eeprom, rx>>
    BY <1>4, <1>6, <2>1 DEF SetAddress, Replies, memVars
  <2>3. tx' = <<CR>> /\ Len(tx') = 1 /\ tx' # <<>> /\ address' = w
    BY <2>2
  <2>4. host' = [pc |-> "await", want |-> 1, what |-> "cr"] /\ Holds'
    BY <1>3, <2>1, <2>2, HoldsKept DEF Awaits
  <2>5. Settings' /\ AtRest' /\ Up' /\ Matches'
    BY <1>0, <1>6, <2>1, <2>2, <2>3, <2>4 DEF Settings, AtRest, Up, Matches
  <2> QED BY <1>6, <2>1, <2>2, <2>3, <2>4, <2>5 DEF Answered
<1>7. \/ Untouched /\ Coming("cr", 1, s)' /\ (mode' = mode \/ mode' = "loader") /\ UNCHANGED <<losses, resets>>
      \/ Carry(65) /\ args = t /\ rx = <<>> /\ tx = <<>> /\ erasing = None /\ mode = "loader"
  BY <1>1, <1>2, <1>3, CommandComes
<1> QED BY <1>5, <1>6, <1>7

\* The answers are short and not empty but for ESC.
LEMMA AnswerType ==
  ASSUME NEW c \in Char
  PROVE  Answer(c) \in Seq(Nat)
<1>1. PageSize \div 256 \in Nat /\ PageSize % 256 \in Nat /\ DevType \in Nat
  BY SizesFacts DEF Char
<1>2. /\ <<89>> \in Seq(Nat) /\ <<CR>> \in Seq(Nat) /\ <<83>> \in Seq(Nat) /\ <<Garbage>> \in Seq(Nat)
      /\ <<Boot>> \in Seq(Nat) /\ <<48, 56>> \in Seq(Nat) /\ <<Garbage, Garbage, Garbage>> \in Seq(Nat)
      /\ <<>> \in Seq(Nat) /\ <<63>> \in Seq(Nat)
  BY DEF CR, Garbage, Boot
<1>3. <<89, PageSize \div 256, PageSize % 256>> \in Seq(Nat) /\ <<DevType, 0>> \in Seq(Nat)
  BY <1>1
<1> QED BY <1>2, <1>3 DEF Answer

\* The same, for a command with one argument.
LEMMA TwoCome ==
  ASSUME LoaderInv, Loader, NEW what, NEW want, NEW s, NEW c \in WithArguments, NEW x \in Char, c # 66,
         Arguments(c) = 1, s = <<c, x>>, Coming(what, want, s)
  PROVE  \/ Untouched /\ Coming(what, want, s)' /\ (mode' = mode \/ mode' = "loader")
            /\ UNCHANGED <<losses, resets>>
         \/ Carry(c) /\ args = <<x>> /\ rx = <<>> /\ tx = <<>> /\ erasing = None /\ mode = "loader"
<1> PICK t : t = <<x>>
  OBVIOUS
<1>1. t \in Seq(Char) /\ Len(t) = Arguments(c) /\ s = <<c>> \o t /\ Len(s) <= 3
  <2>1. c \in Char
    BY LettersAreChars
  <2>2. <<c, x>> = <<c>> \o <<x>> /\ Len(<<c, x>>) = 2 /\ <<x>> \in Seq(Char) /\ Len(<<x>>) = 1
    BY <2>1, SpelledTwo
  <2>3. Len(s) = 2
    BY <2>2
  <2> QED BY <2>2, <2>3
<1>2. Len(t) <= Needed(c, t) /\ Complete(c, t)
  BY <1>1, WholeCommand
<1>3. \/ Untouched /\ Coming(what, want, s)' /\ (mode' = mode \/ mode' = "loader")
         /\ UNCHANGED <<losses, resets>>
      \/ Carry(c) /\ args = t /\ rx = <<>> /\ tx = <<>> /\ erasing = None /\ mode = "loader"
  BY <1>1, <1>2, CommandComes
<1> QED BY <1>3

LEMMA AskComes ==
  ASSUME AsksFit, TypeInv, Loader, ComingAsk
  PROVE  (ComingAsk \/ Answered)' /\ mode' # "hung" /\ UNCHANGED <<losses, resets>>
<1>1. PICK q \in Asks : Coming("ask", q.want, q.bytes) /\ Settings /\ Holds
  BY DEF ComingAsk
<1>2. q.want \in Nat \ {0} /\ LoaderInv /\ mode # "hung" /\ Awaits("ask", q.want) /\ tx = <<>>
  BY <1>1, HostAssumption DEF Coming, TypeInv, Up
<1>3. ASSUME Untouched, Coming("ask", q.want, q.bytes)', mode' = mode \/ mode' = "loader", UNCHANGED <<losses, resets>>
      PROVE  ComingAsk' /\ mode' # "hung" /\ UNCHANGED <<losses, resets>>
  <2>1. Holds' /\ Settings'
    BY <1>1, <1>3, HoldsKept DEF Untouched, Settings
  <2> QED BY <1>2, <1>3, <2>1 DEF ComingAsk
<1>4. ASSUME NEW r \in Seq(Nat), Len(r) = q.want, tx' = r, rx' = <<>>, cmd' = None, erasing' = None,
             mode' = "loader", UNCHANGED <<address, device, flash, eeprom, host, hostAddr, selected, image>>
      PROVE  Answered'
  <2>1. Holds' /\ Settings'
    BY <1>1, <1>4, HoldsKept DEF Settings
  <2>2. host' = [pc |-> "await", want |-> q.want, what |-> "ask"]
    BY <1>2, <1>4 DEF Awaits
  <2>3. Len(tx') = q.want /\ tx' # <<>>
    BY <1>2, <1>4
  <2> QED BY <1>4, <2>1, <2>2, <2>3 DEF Answered, AtRest, Up, Matches
<1>5. CASE \E c \in Char \ (WithArguments \union {69, 101}) : q.bytes = <<c>> /\ q.want = Len(Answer(c))
  <2>1. PICK c \in Char \ (WithArguments \union {69, 101}) : q.bytes = <<c>> /\ q.want = Len(Answer(c))
    BY <1>5
  <2>2. CASE Untouched /\ Coming("ask", q.want, <<c>>)' /\ (mode' = mode \/ mode' = "loader") /\ UNCHANGED <<losses, resets>>
    BY <1>3, <2>1, <2>2
  <2>3. CASE /\ CommandLetter \/ CommandErase \/ CommandExit
             /\ mode = "loader" /\ AtRest /\ args = <<>> /\ tx = <<>> /\ Head(rx) = c /\ Tail(rx) = <<>>
    <3>1. CommandLetter
      BY <2>1, <2>3 DEF CommandErase, CommandExit
    <3>2. ~(Arguments(c) > 0)
      BY <2>1, ArgumentsIs
    <3>3. /\ tx' = <<>> \o Answer(c) /\ rx' = <<>> /\ cmd' = None /\ erasing' = None
          /\ UNCHANGED <<mode, address, device, flash, eeprom, host, hostAddr, selected, image, losses, resets>>
      BY <2>3, <3>1, <3>2 DEF CommandLetter, Received, Replies, AtRest, memVars, hostVars
    <3>4. Answer(c) \in Seq(Nat)
      BY <2>1, AnswerType
    <3>5. tx' = Answer(c)
      BY <3>3, <3>4, ConcatEmptySeq
    <3> QED BY <1>4, <2>1, <2>3, <3>3, <3>4, <3>5
  <2> QED BY <1>1, <1>2, <2>1, <2>2, <2>3, LetterComes
<1>6. CASE \E c \in {120, 121}, x \in Char : q.bytes = <<c, x>> /\ q.want = 1
  <2>1. PICK c \in {120, 121}, x \in Char : q.bytes = <<c, x>> /\ q.want = 1
    BY <1>6
  <2>2. c \in WithArguments /\ c # 66 /\ Arguments(c) = 1
    <3>1. Arguments(120) = 1 /\ Arguments(121) = 1
      BY LettersAreChars, ArgumentsIs
    <3> QED BY <2>1, <3>1 DEF WithArguments
  <2> PICK s, k : s = q.bytes /\ k = q.want
    OBVIOUS
  <2>3. Coming("ask", k, s) /\ s = <<c, x>>
    BY <1>1, <2>1
  <2>4. CASE Untouched /\ Coming("ask", k, s)' /\ (mode' = mode \/ mode' = "loader") /\ UNCHANGED <<losses, resets>>
    BY <1>3, <2>4
  <2>5. CASE Carry(c) /\ args = <<x>> /\ rx = <<>> /\ tx = <<>> /\ erasing = None /\ mode = "loader"
    <3>1. /\ LedIgnored /\ cmd' = None /\ erasing' = None
          /\ UNCHANGED <<host, hostAddr, selected, image, losses, resets>>
      BY <2>1, <2>2, <2>5, Carrying
    <3>2. /\ tx' = <<>> \o <<CR>> /\ UNCHANGED <<mode, address, device, flash, eeprom, rx>>
      BY <2>5, <3>1 DEF LedIgnored, Replies, memVars
    <3>3. tx' = <<CR>> /\ Len(tx') = 1 /\ <<CR>> \in Seq(Nat)
      BY <3>2 DEF CR
    <3> QED BY <1>4, <2>1, <2>5, <3>1, <3>2, <3>3
  <2>6. \/ Untouched /\ Coming("ask", k, s)' /\ (mode' = mode \/ mode' = "loader") /\ UNCHANGED <<losses, resets>>
        \/ Carry(c) /\ args = <<x>> /\ rx = <<>> /\ tx = <<>> /\ erasing = None /\ mode = "loader"
    BY <1>2, <2>2, <2>3, TwoCome
  <2> QED BY <2>4, <2>5, <2>6
<1> QED BY <1>5, <1>6 DEF AsksFit

LEMMA EraseComes ==
  ASSUME TypeInv, Loader, ComingErase
  PROVE  (ComingErase \/ ErasingAll)' /\ mode' # "hung" /\ UNCHANGED <<losses, resets>>
<1>1. /\ Coming("erase", 1, <<101>>) /\ 101 \in Char \ WithArguments /\ selected /\ Settings /\ Holds /\ NoFlash
      /\ LoaderInv /\ mode # "hung" /\ Awaits("erase", 1)
  BY DEF ComingErase, Coming, TypeInv, Up, Char, WithArguments
<1>2. CASE Untouched /\ Coming("erase", 1, <<101>>)' /\ (mode' = mode \/ mode' = "loader") /\ UNCHANGED <<losses, resets>>
  <2>1. Holds' /\ Settings' /\ NoFlash' /\ selected'
    BY <1>1, <1>2, HoldsKept DEF Untouched, Settings, NoFlash
  <2> QED BY <1>1, <1>2, <2>1 DEF ComingErase
<1>3. CASE /\ CommandLetter \/ CommandErase \/ CommandExit
           /\ mode = "loader" /\ AtRest /\ args = <<>> /\ tx = <<>> /\ Head(rx) = 101 /\ Tail(rx) = <<>>
  <2>1. CommandErase /\ device = DevType
    BY <1>1, <1>3 DEF CommandLetter, CommandExit, Settings
  <2>2. /\ erasing' = 0 /\ rx' = <<>> /\ tx' = <<>>
        /\ UNCHANGED <<mode, address, device, flash, eeprom, host, hostAddr, selected, image, losses, resets>>
    BY <1>3, <2>1 DEF CommandErase, Received, memVars, hostVars
  <2>3. Holds' /\ Settings' /\ NoFlash' /\ Awaits("erase", 1)' /\ erasing' # None
    BY <1>1, <2>2, HoldsKept DEF Settings, NoFlash, Awaits, None
  <2>4. \A a \in DOMAIN flash' : a < erasing' => flash'[a] = Blank
    BY <2>2 DEF TypeInv, LoaderInv
  <2> QED BY <1>3, <2>2, <2>3, <2>4 DEF ErasingAll
<1> QED BY <1>1, <1>2, <1>3, LetterComes

LEMMA ExitComes ==
  ASSUME TypeInv, Loader, ComingExit
  PROVE  (ComingExit \/ Answered)' /\ mode' # "hung" /\ UNCHANGED <<losses, resets>>
<1>1. /\ Coming("exit", 1, <<69>>) /\ 69 \in Char \ WithArguments /\ Holds
      /\ LoaderInv /\ mode # "hung" /\ Awaits("exit", 1)
  BY DEF ComingExit, Coming, TypeInv, Up, Char, WithArguments
<1>2. CASE Untouched /\ Coming("exit", 1, <<69>>)' /\ (mode' = mode \/ mode' = "loader") /\ UNCHANGED <<losses, resets>>
  <2>1. Holds'
    BY <1>1, <1>2, HoldsKept DEF Untouched
  <2> QED BY <1>1, <1>2, <2>1 DEF ComingExit
<1>3. CASE /\ CommandLetter \/ CommandErase \/ CommandExit
           /\ mode = "loader" /\ AtRest /\ args = <<>> /\ tx = <<>> /\ Head(rx) = 69 /\ Tail(rx) = <<>>
  <2>1. CommandExit
    BY <1>3 DEF CommandLetter, CommandErase
  <2>2. /\ mode' = "off" /\ rx' = <<>> /\ tx' = <<>> \o <<CR>> /\ cmd' = None /\ erasing' = None
        /\ UNCHANGED <<flash, eeprom, host, hostAddr, selected, image, losses, resets>>
    BY <1>3, <2>1 DEF CommandExit, Replies, memVars, hostVars, AtRest
  <2>3. tx' = <<CR>> /\ Len(tx') = 1 /\ tx' # <<>>
    BY <2>2
  <2>4. Holds' /\ host' = [pc |-> "await", want |-> 1, what |-> "exit"]
    BY <1>1, <2>2, HoldsKept DEF Awaits
  <2> QED BY <2>2, <2>3, <2>4 DEF Answered, AtRest, Matches
<1> QED BY <1>1, <1>2, <1>3, LetterComes

Spelled(c, x, y, z) ==
  /\ <<c, x, y, z>> = <<c>> \o <<x, y, z>> /\ <<c>> \in Seq(Char)
  /\ <<x, y, z>> \in Seq(Char) /\ Len(<<x, y, z>>) = 3
  /\ <<x, y, z>>[1] = x /\ <<x, y, z>>[2] = y /\ <<x, y, z>>[3] = z
LEMMA SpelledFour ==
  ASSUME NEW c \in Char, NEW x \in Char, NEW y \in Char, NEW z \in Char
  PROVE  Spelled(c, x, y, z)
<1>1. /\ <<c>> \in Seq(Char) /\ Len(<<c>>) = 1 /\ <<x, y, z>> \in Seq(Char) /\ Len(<<x, y, z>>) = 3
      /\ <<c, x, y, z>> \in Seq(Char) /\ Len(<<c, x, y, z>>) = 4
      /\ <<c, x, y, z>>[1] = c /\ <<c, x, y, z>>[2] = x /\ <<c, x, y, z>>[3] = y /\ <<c, x, y, z>>[4] = z
      /\ <<x, y, z>>[1] = x /\ <<x, y, z>>[2] = y /\ <<x, y, z>>[3] = z
  OBVIOUS
<1> PICK s, u : s = <<c>> \o <<x, y, z>> /\ u = <<c, x, y, z>>
  OBVIOUS
<1>2. s \in Seq(Char) /\ Len(s) = 4 /\ s[1] = c /\ s[2] = x /\ s[3] = y /\ s[4] = z
  BY <1>1, ConcatProperties
<1>3. \A i \in 1..4 : i = 1 \/ i = 2 \/ i = 3 \/ i = 4
  OBVIOUS
<1>4. u \in Seq(Char) /\ Len(u) = 4 /\ \A i \in 1..4 : s[i] = u[i]
  BY <1>1, <1>2, <1>3
<1>5. s = u
  BY <1>2, <1>4, SeqEqual
<1> QED BY <1>1, <1>5 DEF Spelled

LEMMA TypeOfIs ==
  ASSUME NEW m \in {"FLASH", "EEPROM"}
  PROVE  /\ TypeOf(m) \in Char /\ m \in {"FLASH", "EEPROM"}
         /\ m = "FLASH" => TypeOf(m) = FlashType
         /\ m = "EEPROM" => TypeOf(m) = EepromType /\ TypeOf(m) # FlashType
BY DEF TypeOf, FlashType, EepromType, Char

\* Addresses: where a read of two bytes, or a block, ends.
LEMMA NextFlash ==
  ASSUME NEW a \in Nat, NEW n \in Nat, n >= 1, n % 2 = 0, a * 2 + n < 2 * Word
  PROVE  NextWord(a, n) = a + (n \div 2) /\ (a + (n \div 2)) * 2 = a * 2 + n
<1>1. \A x \in Nat, k \in Nat : (x * 2 + 2 * k) \div 2 = x + k
  OBVIOUS
<1>2. PICK k \in Nat : n = 2 * k /\ n \div 2 = k
  OBVIOUS
<1>3. (a * 2 + n) \div 2 = a + k
  BY <1>1, <1>2
<1>4. (a + k) < Word
  BY <1>2 DEF Word
<1>5. (a + k) % Word = a + k
  BY <1>2, <1>4, Bits16
<1> QED BY <1>2, <1>3, <1>5 DEF NextWord

\* The loader has taken what the host sent, and answers with r.
LEMMA NowAnswered ==
  ASSUME NEW what \in {"cr", "FLASH", "EEPROM"}, NEW want \in Nat \ {0}, Awaits(what, want),
         UNCHANGED <<host, hostAddr, selected, image>>,
         rx' = <<>>, cmd' = None, erasing' = None, mode' = "loader", Len(tx') = want,
         (selected => device' = DevType), (hostAddr # None => address' = hostAddr),
         what = "cr" => tx' = <<CR>>,
         what # "cr" => \A i \in 1..Len(tx') : tx'[i] = image[what][ByteAddr(what) - want + i - 1],
         Holds'
  PROVE  Answered'
<1>1. host' = [pc |-> "await", want |-> want, what |-> what] /\ host' = host
  BY DEF Awaits
<1>2. host'.pc = "await" /\ host'.want = want /\ host'.what = what
  BY <1>1
<1>3. \A m : ByteAddr(m)' = ByteAddr(m)
  BY DEF ByteAddr
<1>4. Matches'
  <2>1. CASE what = "cr"
    BY <1>2, <2>1 DEF Matches
  <2>2. CASE what # "cr"
    <3>1. \A i \in 1..Len(tx') : tx'[i] = image'[host'.what][ByteAddr(host.what)' - host'.want + i - 1]
      BY <1>1, <1>2, <1>3, <2>2
    <3> QED BY <1>2, <2>2, <3>1 DEF Matches
  <2> QED BY <2>1, <2>2
<1>5. tx' # <<>>
  BY Len(<<>>) = 0
<1> QED BY <1>2, <1>4, <1>5 DEF Answered, AtRest, Up, Settings

LEMMA ReadComes ==
  ASSUME TypeInv, Loader, NEW m \in {"FLASH", "EEPROM"}, ComingRead(m)
  PROVE  (ComingRead(m) \/ Answered)' /\ mode' # "hung" /\ UNCHANGED <<losses, resets>>
<1>01. PICK t, s : t = <<0, 2, TypeOf(m)>> /\ s = <<103, 0, 2, TypeOf(m)>>
  OBVIOUS
<1>1. /\ 103 \in WithArguments /\ t \in Seq(Char) /\ Len(t) = Arguments(103) /\ s = <<103>> \o t /\ 103 # 66
      /\ Len(t) = 3 /\ t[1] = 0 /\ t[2] = 2 /\ t[3] = TypeOf(m)
  <2>1. 103 \in WithArguments /\ 103 \in Char /\ 0 \in Char /\ 2 \in Char /\ TypeOf(m) \in Char /\ Arguments(103) = 3
    BY LettersAreChars, ArgumentsIs, TypeOfIs DEF WithArguments, Char
  <2>2. /\ <<103, 0, 2, TypeOf(m)>> = <<103>> \o <<0, 2, TypeOf(m)>>
        /\ <<0, 2, TypeOf(m)>> \in Seq(Char) /\ Len(<<0, 2, TypeOf(m)>>) = 3
        /\ <<0, 2, TypeOf(m)>>[1] = 0 /\ <<0, 2, TypeOf(m)>>[2] = 2 /\ <<0, 2, TypeOf(m)>>[3] = TypeOf(m)
    <3> PICK y : y = TypeOf(m)
      OBVIOUS
    <3>1. /\ <<103, 0, 2, y>> = <<103>> \o <<0, 2, y>>
          /\ <<0, 2, y>> \in Seq(Char) /\ Len(<<0, 2, y>>) = 3
          /\ <<0, 2, y>>[1] = 0 /\ <<0, 2, y>>[2] = 2 /\ <<0, 2, y>>[3] = y
      <4>1. PICK c, x, n : c = 103 /\ x = 0 /\ n = 2
        OBVIOUS
      <4>2. Spelled(c, x, n, y)
        <5>1. c \in Char /\ x \in Char /\ n \in Char /\ y \in Char
          BY <2>1, <4>1
        <5> QED BY <5>1, SpelledFour
      <4>3. Spelled(103, 0, 2, y)
        BY <4>1, <4>2
      <4> QED BY <4>3 DEF Spelled
    <3> QED BY <3>1
  <2> QED BY <1>01, <2>1, <2>2
<1>2. Len(t) <= Needed(103, t) /\ Complete(103, t)
  BY <1>1, WholeCommand
<1>3. /\ Coming(m, 2, s) /\ LoaderInv /\ Awaits(m, 2) /\ Holds /\ (selected => device = DevType)
      /\ hostAddr = address + Units(m, 2) /\ Units(m, 2) \in Nat
      /\ (mode = "blink" => hostAddr = None) /\ mode \in {"blink", "loader"}
      /\ \A a \in From(m)..(From(m) + 1) : a \in DOMAIN image[m] /\ image[m][a] # NoPromise
  BY <1>01 DEF ComingRead, Coming, TypeInv, Up, Units
<1>4. address \in Nat /\ hostAddr # None /\ hostAddr \in Nat /\ mode = "loader"
  <2>1. address \in Nat
    <3>1. address \in 0..(Word - 1)
      BY <1>3 DEF LoaderInv
    <3> QED BY <3>1 DEF Word
  <2>2. hostAddr \in Nat
    BY <1>3, <2>1
  <2>3. hostAddr # None
    BY <2>2 DEF None
  <2> QED BY <1>3, <2>1, <2>2, <2>3
<1>5. CASE Untouched /\ Coming(m, 2, s)' /\ (mode' = mode \/ mode' = "loader") /\ UNCHANGED <<losses, resets>>
  <2>1. Holds' /\ From(m)' = From(m)
    BY <1>3, <1>5, HoldsKept DEF Untouched, From
  <2>2. \A a \in From(m)'..(From(m)' + 1) : a \in DOMAIN image'[m] /\ image'[m][a] # NoPromise
    BY <1>3, <1>5, <2>1 DEF Untouched
  <2> QED BY <1>01, <1>3, <1>4, <1>5, <2>1, <2>2 DEF ComingRead, Untouched
<1>6. CASE Carry(103) /\ args = t /\ rx = <<>> /\ tx = <<>> /\ erasing = None /\ mode = "loader"
  <2>1. /\ ReadBlock /\ cmd' = None /\ erasing' = None
        /\ UNCHANGED <<host, hostAddr, selected, image, losses, resets>>
    BY <1>1, <1>6, Carrying
  <2>2. UNCHANGED <<device, flash, eeprom, rx>>
    BY <2>1 DEF ReadBlock, memVars
  <2>3. Size = 2 /\ ~Hangs(Size) /\ FlashCount(Size) = 2
    <3>1. Size = (0 * 256 + 2) % Word
      BY <1>1, <1>6 DEF Size
    <3>2. Size = 2
      BY <3>1 DEF Word
    <3> QED BY <3>2 DEF Hangs, FlashCount
  <2>4. Holds' /\ (selected => device' = DevType)
    BY <1>3, <2>1, <2>2, HoldsKept
  <2>5. DOMAIN flash = DOMAIN image["FLASH"] /\ DOMAIN eeprom = DOMAIN image["EEPROM"] /\ DOMAIN image = {"FLASH", "EEPROM"}
        /\ DOMAIN flash = 0..(FlashSize - 1) /\ DOMAIN eeprom = 0..(EepromSize - 1)
    BY DEF TypeInv, LoaderInv, HostInv
  <2>6. From(m) + 1 \in DOMAIN image[m] /\ From(m) \in Nat
    <3>1. From(m) \in Nat
      BY <1>4 DEF From
    <3>2. From(m) + 1 \in From(m)..(From(m) + 1)
      BY <3>1
    <3> QED BY <1>3, <3>1, <3>2
  <2>7. \A a \in From(m)..(From(m) + 1) : ReadAt(Memory[m], a) = image[m][a]
    <3> SUFFICES ASSUME NEW a \in From(m)..(From(m) + 1) PROVE ReadAt(Memory[m], a) = image[m][a]
      OBVIOUS
    <3>1. a \in DOMAIN image[m] /\ image[m][a] # NoPromise
      BY <1>3
    <3>2. image[m][a] \in {NoPromise, Memory[m][a]}
      BY <1>3, <2>5, <3>1 DEF Holds
    <3>3. a \in DOMAIN Memory[m]
      <4>1. CASE m = "FLASH"
        BY <2>5, <3>1, <4>1 DEF Memory
      <4>2. CASE m = "EEPROM"
        BY <2>5, <3>1, <4>2 DEF Memory
      <4> QED BY <4>1, <4>2
    <3> QED BY <3>1, <3>2, <3>3 DEF ReadAt
  <2>8. PICK r : r = [i \in 1..2 |-> ReadAt(Memory[m], From(m) + i - 1)]
    OBVIOUS
  <2>9. tx' = r /\ mode' = "loader" /\ address' = hostAddr /\ ByteAddr(m) - 2 = From(m)
    <3>1. tx \o r = r
      <4>1. r \in Seq({ReadAt(Memory[m], From(m) + i - 1) : i \in 1..2})
        BY <2>8
      <4> QED BY <1>6, <4>1, ConcatEmptySeq
    <3>2. CASE m = "FLASH"
      <4>1. args[3] = FlashType
        BY <1>1, <1>6, <3>2, TypeOfIs
      <4>2. tx' = tx \o ReadFlash(address, 2) /\ address' = NextWord(address, 2) /\ mode' = mode
        <5>1. args[3] = FlashType /\ ~Hangs(Size)
          BY <2>3, <4>1
        <5>2. Replies(ReadFlash(address, FlashCount(Size))) /\ address' = NextWord(address, FlashCount(Size))
              /\ UNCHANGED mode
          BY <2>1, <5>1 DEF ReadBlock, FlashType, EepromType
        <5> QED BY <2>3, <5>2 DEF Replies
      <4>3. ReadFlash(address, 2) = r
        BY <2>8, <3>2 DEF ReadFlash, From, Memory
      <4>4. address * 2 + 2 < 2 * Word
        <5>1. From(m) = address * 2 /\ DOMAIN image[m] = 0..(FlashSize - 1)
          BY <2>5, <3>2 DEF From
        <5>2. address * 2 + 1 <= FlashSize - 1
          BY <1>4, <2>6, <5>1, SizesFacts
        <5> QED BY <1>4, <5>2, SizesFacts
      <4>5. NextWord(address, 2) = address + (2 \div 2) /\ (address + (2 \div 2)) * 2 = address * 2 + 2
        BY <1>4, <4>4, NextFlash
      <4>6. hostAddr = address + 1
        BY <1>3, <3>2 DEF Units
      <4> QED BY <1>4, <1>6, <3>1, <3>2, <4>2, <4>3, <4>5, <4>6 DEF ByteAddr, From
    <3>3. CASE m = "EEPROM"
      <4>1. args[3] = EepromType /\ args[3] # FlashType
        BY <1>1, <1>6, <3>3, TypeOfIs
      <4>2. tx' = tx \o ReadEeprom(address, 2) /\ address' = (address + 2) % Word /\ mode' = mode
        BY <2>1, <2>3, <4>1 DEF ReadBlock, Replies
      <4>3. ReadEeprom(address, 2) = r
        BY <2>8, <3>3 DEF ReadEeprom, From, Memory
      <4>4. address + 2 < Word
        <5>1. From(m) = address /\ DOMAIN image[m] = 0..(EepromSize - 1)
          BY <2>5, <3>3 DEF From
        <5>2. address + 1 <= EepromSize - 1
          BY <1>4, <2>6, <5>1, SizesFacts
        <5> QED BY <1>4, <5>2, SizesFacts DEF Word
      <4>5. (address + 2) % Word = address + 2
        BY <1>4, <4>4, Bits16
      <4>6. hostAddr = address + 2
        BY <1>3, <3>3 DEF Units
      <4> QED BY <1>4, <1>6, <3>1, <3>3, <4>2, <4>3, <4>5, <4>6 DEF ByteAddr, From
    <3> QED BY <3>2, <3>3
  <2>10. Len(tx') = 2 /\ \A i \in 1..2 : tx'[i] = image[m][ByteAddr(m) - 2 + i - 1]
    <3>1. Len(r) = 2
      BY <2>8
    <3>2. ASSUME NEW i \in 1..2 PROVE r[i] = image[m][From(m) + i - 1]
      <4>1. From(m) + i - 1 \in From(m)..(From(m) + 1)
        BY <2>6
      <4>2. r[i] = ReadAt(Memory[m], From(m) + i - 1)
        BY <2>8
      <4> QED BY <2>7, <4>1, <4>2
    <3> QED BY <2>9, <3>1, <3>2
  <2>11. rx' = <<>>
    BY <1>6, <2>2
  <2>12. Answered'
    BY <1>3, <2>1, <2>4, <2>9, <2>10, <2>11, NowAnswered
  <2> QED BY <2>1, <2>9, <2>12
<1>7. \/ Untouched /\ Coming(m, 2, s)' /\ (mode' = mode \/ mode' = "loader") /\ UNCHANGED <<losses, resets>>
      \/ Carry(103) /\ args = t /\ rx = <<>> /\ tx = <<>> /\ erasing = None /\ mode = "loader"
  BY <1>1, <1>2, <1>3, <1>4, CommandComes
<1> QED BY <1>5, <1>6, <1>7

BlockFits(b) == /\ b.mem \in {"FLASH", "EEPROM"} /\ b.data \in Seq(Char) /\ Len(b.data) \in 1..PageSize
LEMMA BlocksFit == \A b \in Blocks : BlockFits(b)
BY HostAssumption DEF BlockFits, Char

LEMMA SpelledHead ==
  ASSUME NEW x \in Char, NEW n \in Char, NEW y \in Char
  PROVE  /\ <<66, x, n, y>> = <<66>> \o <<x, n, y>> /\ <<66>> \in Seq(Char)
         /\ <<x, n, y>> \in Seq(Char) /\ Len(<<x, n, y>>) = 3
         /\ <<x, n, y>>[1] = x /\ <<x, n, y>>[2] = n /\ <<x, n, y>>[3] = y
<1>1. PICK c : c = 66
  OBVIOUS
<1>2. c \in Char
  BY <1>1 DEF Char
<1>3. Spelled(c, x, n, y)
  BY <1>2, SpelledFour
<1>4. Spelled(66, x, n, y)
  BY <1>1, <1>3
<1> QED BY <1>4 DEF Spelled

\* Four characters and data.
SpelledWith(x, n, y, d, t, s) ==
  /\ t \in Seq(Char) /\ s = <<66>> \o t /\ Len(t) = 3 + Len(d)
  /\ t[1] = x /\ t[2] = n /\ t[3] = y
  /\ \A i \in 1..Len(d) : t[3 + i] = d[i]
LEMMA SpelledBlock ==
  ASSUME NEW x \in Char, NEW n \in Char, NEW y \in Char, NEW d \in Seq(Char), NEW h, h = <<x, n, y>>,
         NEW t, t = h \o d, NEW s, s = <<66, x, n, y>> \o d
  PROVE  SpelledWith(x, n, y, d, t, s)
<1>1. /\ <<66, x, n, y>> = <<66>> \o <<x, n, y>> /\ <<66>> \in Seq(Char)
      /\ <<x, n, y>> \in Seq(Char) /\ Len(<<x, n, y>>) = 3
      /\ <<x, n, y>>[1] = x /\ <<x, n, y>>[2] = n /\ <<x, n, y>>[3] = y
  BY SpelledHead
<1>2. /\ <<66, x, n, y>> = <<66>> \o h /\ <<66>> \in Seq(Char)
      /\ h \in Seq(Char) /\ Len(h) = 3 /\ h[1] = x /\ h[2] = n /\ h[3] = y
  BY <1>1
<1>3. PICK k : k = <<66>>
  OBVIOUS
<1>4. k \in Seq(Char) /\ s = (k \o h) \o d
  BY <1>2, <1>3
<1>5. (k \o h) \o d = k \o (h \o d)
  BY <1>2, <1>4, ConcatAssociative
<1>6. s = <<66>> \o t
  BY <1>3, <1>4, <1>5
<1>7. /\ t \in Seq(Char) /\ Len(t) = Len(h) + Len(d)
      /\ \A i \in 1..(Len(h) + Len(d)) : t[i] = IF i <= Len(h) THEN h[i] ELSE d[i - Len(h)]
  BY <1>2, ConcatProperties
<1>8. Len(d) \in Nat
  OBVIOUS
<1>9. \A i \in 1..(3 + Len(d)) : t[i] = IF i <= 3 THEN h[i] ELSE d[i - 3]
  BY <1>2, <1>7
<1>10. t[1] = h[1] /\ t[2] = h[2] /\ t[3] = h[3]
  BY <1>8, <1>9
<1>11. ASSUME NEW i \in 1..Len(d) PROVE t[3 + i] = d[i]
  <2>1. 3 + i \in 1..(3 + Len(d)) /\ ~(3 + i <= 3) /\ (3 + i) - 3 = i
    BY <1>8
  <2> QED BY <1>9, <2>1
<1> QED BY <1>2, <1>6, <1>7, <1>10, <1>11 DEF SpelledWith

\* Enough arguments for the length.
LEMMA LengthFits ==
  ASSUME NEW n \in 1..PageSize, NEW t, Len(t) = 3 + n, t[1] * 256 + t[2] = n
  PROVE  Len(t) <= Needed(66, t) /\ Complete(66, t)
<1>2. n \in Nat /\ n < Word /\ n <= PageSize
  BY SizesFacts
<1>3. (t[1] * 256 + t[2]) % Word = n
  BY <1>2, Bits16
<1>4. Buffered(n) = n
  BY <1>2, SizesFacts DEF Buffered, Smaller
<1>5. Arguments(66) = 3
  BY LettersAreChars, ArgumentsIs
<1>6. Len(t) >= 3
  BY <1>2
<1> QED BY <1>3, <1>4, <1>5, <1>6 DEF Needed, Complete

\* The arguments of a block are its length, its type and its data.
LEMMA BlockArguments ==
  ASSUME NEW b \in Blocks, NEW t, t = BlockArgs(b), NEW s, s = BlockBytes(b)
  PROVE  /\ t \in Seq(Char) /\ s = <<66>> \o t
         /\ Len(t) <= Needed(66, t) /\ Complete(66, t) /\ Len(t) = 3 + Len(b.data)
         /\ t[1] = High(Len(b.data)) /\ t[2] = Low(Len(b.data)) /\ t[3] = TypeOf(b.mem)
         /\ t[1] * 256 + t[2] = Len(b.data)
         /\ \A i \in 1..Len(b.data) : SubSeq(t, 4, Len(t))[i] = b.data[i]
<1>0. PICK n, x, z, y : n = Len(b.data) /\ x = High(n) /\ z = Low(n) /\ y = TypeOf(b.mem)
  OBVIOUS
<1>01. PICK d : d = b.data
  OBVIOUS
<1>02. PICK h : h = <<x, z, y>>
  OBVIOUS
<1>1. b.mem \in {"FLASH", "EEPROM"}
  BY BlocksFit DEF BlockFits
<1>11. d \in Seq(Char) /\ n = Len(d)
  BY <1>0, <1>01, BlocksFit DEF BlockFits
<1>12. n \in 1..PageSize
  BY <1>0, BlocksFit DEF BlockFits
<1>2. n \in Nat /\ n >= 1 /\ n \in 0..(Word - 1)
  BY <1>12, SizesFacts
<1>3. x \in Char /\ z \in Char /\ x * 256 + z = n
  BY <1>0, <1>2, Halves
<1>4. y \in Char
  BY <1>0, <1>1, TypeOfIs
<1>5. t = h \o d /\ s = <<66, x, z, y>> \o d
  BY <1>0, <1>01, <1>02 DEF BlockArgs, BlockBytes
<1>6. /\ t \in Seq(Char) /\ s = <<66>> \o t /\ Len(t) = 3 + Len(d)
      /\ t[1] = x /\ t[2] = z /\ t[3] = y
      /\ \A i \in 1..Len(d) : t[3 + i] = d[i]
  <2>1. SpelledWith(x, z, y, d, t, s)
    BY <1>11, <1>02, <1>3, <1>4, <1>5, SpelledBlock
  <2> QED BY <2>1 DEF SpelledWith
<1>61. t[1] * 256 + t[2] = n
  BY <1>3, <1>6
<1>7. Len(t) <= Needed(66, t) /\ Complete(66, t)
  BY <1>11, <1>12, <1>6, <1>61, LengthFits
<1>8. ASSUME NEW i \in 1..n PROVE SubSeq(t, 4, Len(t))[i] = d[i]
  <2>1. SubSeq(t, 4, Len(t))[i] = t[i + 3]
    BY <1>2, <1>6, <1>11
  <2>2. i + 3 = 3 + i
    BY <1>2
  <2> QED BY <1>11, <1>6, <2>1, <2>2
<1> QED BY <1>0, <1>01, <1>11, <1>6, <1>61, <1>7, <1>8

\* An address is in its page.
LEMMA PageBounds ==
  ASSUME NEW a \in Nat
  PROVE  PageOf(a) \in Nat /\ PageOf(a) <= a /\ a < PageOf(a) + PageSize
<1> DEFINE p == PageSize
           k == a \div p
<1>1. p \in Nat /\ p > 0
  BY SizesFacts
<1> HIDE DEF p
<1>2. k \in Nat /\ p * k <= a /\ a < p * k + p
  BY <1>1
<1> HIDE DEF k
<1>3. k * p = p * k /\ p * k \in Nat
  BY <1>1, <1>2
<1> QED BY <1>2, <1>3 DEF PageOf, p, k

\* What a block does to the memory it is for.
LEMMA BlockStored ==
  ASSUME WholeWords, TypeInv, NEW b \in Blocks, ComingBlock(b), LoadBlock, mode = "loader",
         args = BlockArgs(b), rx = <<>>, tx = <<>>,
         UNCHANGED <<hostAddr, image>>
  PROVE  /\ Holds' /\ device' = DevType /\ address' = hostAddr /\ mode' = "loader"
         /\ rx' = <<>> /\ tx' = <<CR>>
<1>0. PICK n, at : n = Len(b.data) /\ at = From(b.mem)
  OBVIOUS
<1>01. n \in 1..PageSize
  BY <1>0, BlocksFit DEF BlockFits
<1>02. n \in Nat /\ n >= 1 /\ n < Word
  BY <1>01, SizesFacts
<1>1. /\ n \in 1..PageSize /\ n <= PageSize /\ b.mem \in {"FLASH", "EEPROM"}
  BY <1>0, <1>01, SizesFacts, BlocksFit DEF BlockFits
<1>2. /\ args[1] * 256 + args[2] = n /\ args[3] = TypeOf(b.mem)
      /\ \A i \in 1..n : Block[i] = b.data[i]
  BY <1>0, BlockArguments DEF Block
<1>3. Size = n
  BY <1>02, <1>2, Bits16 DEF Size
<1>4. /\ device = DevType /\ hostAddr = address + Units(b.mem, n) /\ Cells(b) = at..(at + n - 1)
      /\ Cells(b) \subseteq DOMAIN image[b.mem]
      /\ b.mem = "FLASH" => \A a \in Cells(b) : flash[a] = Blank /\ PageOf(a) = PageOf(at)
      /\ \A m \in DOMAIN image : \A a \in DOMAIN image[m] :
           IF m = b.mem /\ a \in Cells(b) THEN image[m][a] = b.data[a - From(m) + 1]
           ELSE image[m][a] \in {NoPromise, Memory[m][a]}
  BY <1>0 DEF ComingBlock, Cells
<1>5. /\ DOMAIN flash = DOMAIN image["FLASH"] /\ DOMAIN eeprom = DOMAIN image["EEPROM"]
      /\ DOMAIN image = {"FLASH", "EEPROM"}
      /\ DOMAIN flash = 0..(FlashSize - 1) /\ DOMAIN eeprom = 0..(EepromSize - 1)
  BY DEF TypeInv, LoaderInv, HostInv
<1>6. address \in Nat /\ at \in Nat
  <2>1. address \in 0..(Word - 1)
    BY DEF TypeInv, LoaderInv
  <2>2. address \in Nat
    BY <2>1 DEF Word
  <2> QED BY <1>0, <2>2 DEF From
<1>7. at + n - 1 \in DOMAIN image[b.mem]
  <2>1. at + n - 1 \in at..(at + n - 1)
    BY <1>1, <1>6
  <2> QED BY <1>4, <2>1
<1>8. rx' = <<>> /\ UNCHANGED device
  <2>1. rx \in Seq(Char) /\ Len(rx) <= 3 /\ rx' \in Kept(rx)
    BY DEF LoadBlock
  <2> QED BY <2>1, KeptType DEF LoadBlock
<1>9. 0 # DevType
  BY SizesFacts
<1>10. /\ CASE args[3] = FlashType -> WriteFlash
            [] args[3] = EepromType -> WriteEeprom
            [] OTHER -> UNCHANGED <<mode, flash, eeprom, address>>
       /\ tx' = IF mode' = "hung" THEN tx ELSE Append(tx, CR)
  BY <1>4 DEF LoadBlock
<1>11. ASSUME mode' = "loader" PROVE tx' = <<CR>>
  BY <1>10, <1>11
<1>12. CASE b.mem = "FLASH"
  <2>0. n % 2 = 0
    <3>1. Len(b.data) % 2 = 0
      BY <1>12 DEF WholeWords
    <3> QED BY <1>0, <3>1
  <2>1. args[3] = FlashType /\ args[3] # EepromType
    BY <1>2, <1>12, TypeOfIs DEF FlashType, EepromType
  <2>2. WriteFlash
    BY <1>10, <2>1
  <2>3. ~Hangs(Size) /\ FlashCount(Size) = n
    <3>1. n # 0
      BY <1>02
    <3> QED BY <1>3, <1>02, <2>0, <3>1 DEF Hangs, FlashCount
  <2>4. /\ flash' = WrittenFlash(address * 2, n) /\ address' = NextWord(address, n)
        /\ mode' = mode /\ eeprom' = eeprom
    BY <2>2, <2>3 DEF WriteFlash
  <2>5. at = address * 2
    BY <1>0, <1>12 DEF From
  <2>6. address' = hostAddr
    <3>1. at + n - 1 \in 0..(FlashSize - 1)
      BY <1>5, <1>7, <1>12
    <3>11. FlashSize \in Nat /\ FlashSize < 2 * Word
      BY SizesFacts
    <3>12. at + n < 2 * Word
      BY <1>02, <1>6, <3>1, <3>11 DEF Word
    <3>2. address * 2 + n < 2 * Word
      BY <2>5, <3>12
    <3>4. NextWord(address, n) = address + (n \div 2)
      BY <1>6, <1>02, <2>0, <3>2, NextFlash
    <3> QED BY <1>4, <1>12, <2>4, <3>4 DEF Units
  <2>7. ASSUME NEW a \in DOMAIN flash
        PROVE  /\ a \in Cells(b) => flash'[a] = b.data[a - at + 1]
               /\ a \notin Cells(b) => flash'[a] = flash[a]
    <3>1. flash'[a] = IF PageOf(a) # PageOf(at) THEN flash[a]
                      ELSE IF n > PageSize THEN Garbage
                      ELSE IF Filled(a, at) < n THEN Programmed(flash[a], Block[Filled(a, at) + 1])
                      ELSE flash[a]
      BY <2>4, <2>5 DEF WrittenFlash
    <3>21. ~(n > PageSize)
      <4>1. n <= PageSize
        BY <1>1
      <4>2. PageSize \in Nat
        BY SizesFacts
      <4> QED BY <1>02, <4>1, <4>2
    <3>22. a \in Nat
      <4>1. a \in 0..(FlashSize - 1)
        BY <1>5
      <4> QED BY <4>1, SizesFacts
    <3>2. ~(n > PageSize) /\ a \in Nat
      BY <3>21, <3>22
    <3>3. CASE a \in Cells(b)
      <4>1. PageOf(a) = PageOf(at) /\ flash[a] = Blank
        BY <1>4, <1>12, <3>3
      <4>2. Filled(a, at) = a - at /\ a - at < n /\ a - at + 1 \in 1..n
        BY <1>02, <1>4, <1>6, <3>2, <3>3 DEF Filled
      <4>3. flash'[a] = Programmed(Blank, Block[a - at + 1])
        BY <3>1, <3>2, <4>1, <4>2
      <4> QED BY <1>2, <3>3, <4>2, <4>3 DEF Programmed
    <3>4. CASE a \notin Cells(b)
      <4>1. CASE PageOf(a) # PageOf(at)
        BY <3>1, <3>4, <4>1
      <4>2. CASE PageOf(a) = PageOf(at)
        <5>1. PageOf(at + n - 1) = PageOf(at)
          <6>1. at + n - 1 \in Cells(b)
            BY <1>02, <1>4, <1>6
          <6> QED BY <1>4, <1>12, <6>1
        <5>2. at + n - 1 \in Nat /\ PageOf(at) <= a /\ at + n - 1 < PageOf(at) + PageSize /\ PageOf(at) \in Nat
          BY <1>02, <1>6, <3>2, <4>2, <5>1, PageBounds
        <5>3. ~(Filled(a, at) < n)
          <6>1. a < at \/ a >= at + n
            BY <1>02, <1>4, <1>6, <3>2, <3>4
          <6> QED BY <1>02, <1>6, <3>2, <5>2, <6>1, SizesFacts DEF Filled
        <5> QED BY <3>1, <3>2, <3>4, <4>2, <5>3
      <4> QED BY <4>1, <4>2
    <3> QED BY <3>3, <3>4
  <2>8. Holds'
    <3> SUFFICES ASSUME NEW m \in {"FLASH", "EEPROM"}, NEW a \in DOMAIN image[m]
                 PROVE  image[m][a] \in {NoPromise, Memory'[m][a]}
      BY <1>5 DEF Holds
    <3>1. IF m = b.mem /\ a \in Cells(b) THEN image[m][a] = b.data[a - From(m) + 1]
           ELSE image[m][a] \in {NoPromise, Memory[m][a]}
      BY <1>4, <1>5
    <3>11. From(b.mem) = at
      BY <1>0
    <3>2. CASE m = "FLASH"
      <4>1. Memory[m][a] = flash[a] /\ Memory'[m][a] = flash'[a] /\ a \in DOMAIN flash
        BY <1>5, <3>2 DEF Memory
      <4> QED BY <1>12, <2>7, <3>1, <3>11, <3>2, <4>1
    <3>3. CASE m = "EEPROM"
      <4>1. Memory[m][a] = Memory'[m][a]
        BY <2>4, <3>3 DEF Memory
      <4> QED BY <1>12, <3>1, <3>3, <4>1
    <3> QED BY <3>2, <3>3
  <2> QED BY <1>4, <1>8, <1>11, <2>4, <2>6, <2>8
<1>13. CASE b.mem = "EEPROM"
  <2>1. args[3] = EepromType /\ args[3] # FlashType
    BY <1>2, <1>13, TypeOfIs DEF FlashType, EepromType
  <2>2. WriteEeprom
    BY <1>10, <2>1
  <2>3. Size \in 1..PageSize
    BY <1>1, <1>3, SizesFacts
  <2>4. /\ eeprom' = [a \in DOMAIN eeprom |->
                        IF a - address \in 0..(n - 1) THEN Block[a - address + 1] ELSE eeprom[a]]
        /\ address' = (address + n) % Word /\ UNCHANGED <<flash, mode>>
    BY <1>3, <2>2, <2>3 DEF WriteEeprom, WrittenEeprom, EepromCells
  <2>5. at = address
    BY <1>0, <1>13 DEF From
  <2>6. address' = hostAddr
    <3>1. at + n - 1 \in 0..(EepromSize - 1)
      BY <1>5, <1>7, <1>13
    <3>11. EepromSize \in Nat /\ EepromSize < Word /\ Word \in Nat
      BY SizesFacts DEF Word
    <3>12. at + n < Word /\ at + n \in Nat
      BY <1>02, <1>6, <3>1, <3>11
    <3>2. address + n < Word /\ address + n \in Nat
      BY <2>5, <3>12
    <3>3. (address + n) % Word = address + n
      BY <3>2, Bits16
    <3> QED BY <1>4, <1>13, <2>4, <3>3 DEF Units
  <2>7. ASSUME NEW a \in DOMAIN eeprom
        PROVE  /\ a \in Cells(b) => eeprom'[a] = b.data[a - at + 1]
               /\ a \notin Cells(b) => eeprom'[a] = eeprom[a]
    <3>1. eeprom'[a] = IF a - at \in 0..(n - 1) THEN Block[a - at + 1] ELSE eeprom[a]
      BY <2>4, <2>5
    <3>2. a \in Nat
      <4>1. a \in 0..(EepromSize - 1)
        BY <1>5
      <4> QED BY <4>1, SizesFacts
    <3>21. Cells(b) = at..(at + n - 1)
      BY <1>4
    <3>22. a \in at..(at + n - 1) <=> a - at \in 0..(n - 1)
      BY <1>02, <1>6, <3>2
    <3>23. a \in at..(at + n - 1) => a - at + 1 \in 1..n
      BY <1>02, <1>6, <3>2
    <3>3. a \in Cells(b) <=> a - at \in 0..(n - 1)
      BY <3>21, <3>22
    <3>4. a \in Cells(b) => a - at + 1 \in 1..n
      BY <3>21, <3>23
    <3> QED BY <1>2, <3>1, <3>3, <3>4
  <2>8. Holds'
    <3> SUFFICES ASSUME NEW m \in {"FLASH", "EEPROM"}, NEW a \in DOMAIN image[m]
                 PROVE  image[m][a] \in {NoPromise, Memory'[m][a]}
      BY <1>5 DEF Holds
    <3>1. IF m = b.mem /\ a \in Cells(b) THEN image[m][a] = b.data[a - From(m) + 1]
           ELSE image[m][a] \in {NoPromise, Memory[m][a]}
      BY <1>4, <1>5
    <3>11. From(b.mem) = at
      BY <1>0
    <3>2. CASE m = "EEPROM"
      <4>1. Memory[m][a] = eeprom[a] /\ Memory'[m][a] = eeprom'[a] /\ a \in DOMAIN eeprom
        BY <1>5, <3>2 DEF Memory
      <4> QED BY <1>13, <2>7, <3>1, <3>11, <3>2, <4>1
    <3>3. CASE m = "FLASH"
      <4>1. Memory[m][a] = Memory'[m][a]
        BY <2>4, <3>3 DEF Memory
      <4> QED BY <1>13, <3>1, <3>3, <4>1
    <3> QED BY <3>2, <3>3
  <2> QED BY <1>4, <1>8, <1>11, <2>4, <2>6, <2>8
<1> QED BY <1>1, <1>12, <1>13

LEMMA BlockComes ==
  ASSUME WholeWords, TypeInv, Loader, NEW b \in Blocks, ComingBlock(b)
  PROVE  (ComingBlock(b) \/ Answered)' /\ mode' # "hung" /\ UNCHANGED <<losses, resets>>
<1>01. PICK t : t = BlockArgs(b)
  OBVIOUS
<1>02. PICK s : s = BlockBytes(b)
  OBVIOUS
<1>1. /\ 66 \in WithArguments /\ t \in Seq(Char) /\ s = <<66>> \o t /\ Len(t) <= Needed(66, t) /\ Complete(66, t)
  BY <1>01, <1>02, BlockArguments DEF WithArguments
<1>2. /\ Coming("cr", 1, s) /\ LoaderInv /\ Awaits("cr", 1) /\ device = DevType
      /\ hostAddr = address + Units(b.mem, Len(b.data))
      /\ (mode = "blink" => hostAddr = None) /\ mode \in {"blink", "loader"}
  BY <1>02 DEF ComingBlock, Coming, TypeInv, Up
<1>3. mode = "loader"
  <2>1. address \in 0..(Word - 1)
    BY <1>2 DEF LoaderInv
  <2>11. address \in Nat
    BY <2>1 DEF Word
  <2>12. Len(b.data) \in 1..PageSize
    BY BlocksFit DEF BlockFits
  <2>2. address \in Nat /\ Len(b.data) \in Nat
    BY <2>11, <2>12, SizesFacts
  <2>21. PICK n : n = Len(b.data)
    OBVIOUS
  <2>22. \A k \in Nat : k \div 2 \in Nat
    OBVIOUS
  <2>3. Units(b.mem, n) \in Nat
    BY <2>2, <2>21, <2>22 DEF Units
  <2>4. hostAddr # None
    BY <1>2, <2>2, <2>21, <2>3 DEF None
  <2> QED BY <1>2, <2>4
<1>4. CASE Untouched /\ Coming("cr", 1, s)' /\ (mode' = mode \/ mode' = "loader") /\ UNCHANGED <<losses, resets>>
  <2>1. /\ UNCHANGED <<address, device, flash, eeprom, hostAddr, image>>
    BY <1>4 DEF Untouched
  <2>2. Cells(b)' = Cells(b) /\ From(b.mem)' = From(b.mem) /\ \A m : From(m)' = From(m)
    BY <2>1 DEF Cells, From
  <2>3. Memory' = Memory
    BY <2>1 DEF Memory
  <2>4. /\ Cells(b) \subseteq DOMAIN image[b.mem]
        /\ b.mem = "FLASH" => \A a \in Cells(b) : flash[a] = Blank /\ PageOf(a) = PageOf(From(b.mem))
        /\ \A m \in DOMAIN image : \A a \in DOMAIN image[m] :
             IF m = b.mem /\ a \in Cells(b) THEN image[m][a] = b.data[a - From(m) + 1]
             ELSE image[m][a] \in {NoPromise, Memory[m][a]}
    BY DEF ComingBlock
  <2>5. ComingBlock(b)'
    BY <1>02, <1>2, <1>4, <2>1, <2>2, <2>3, <2>4 DEF ComingBlock
  <2> QED BY <1>3, <1>4, <2>5
<1>5. CASE Carry(66) /\ args = t /\ rx = <<>> /\ tx = <<>> /\ erasing = None /\ mode = "loader"
  <2>1. /\ LoadBlock /\ cmd' = None /\ erasing' = None
        /\ UNCHANGED <<host, hostAddr, selected, image, losses, resets>>
    BY <1>1, <1>5, Carrying
  <2>2. /\ Holds' /\ device' = DevType /\ address' = hostAddr /\ mode' = "loader"
        /\ rx' = <<>> /\ tx' = <<CR>>
    BY <1>01, <1>5, <2>1, BlockStored
  <2>3. Len(tx') = 1
    BY <2>2
  <2>4. Answered'
    BY <1>2, <2>1, <2>2, <2>3, NowAnswered
  <2> QED BY <2>1, <2>2, <2>4
<1>6. \/ Untouched /\ Coming("cr", 1, s)' /\ (mode' = mode \/ mode' = "loader") /\ UNCHANGED <<losses, resets>>
      \/ Carry(66) /\ args = t /\ rx = <<>> /\ tx = <<>> /\ erasing = None /\ mode = "loader"
  BY <1>1, <1>2, <1>3, CommandComes
<1> QED BY <1>4, <1>5, <1>6

-----------------------------------------------------------------------------
(* The line to the host and the host itself: a sequence, a record. *)

AnySeq(q) == \E S : q \in Seq(S)
HostShape == host = [pc |-> host.pc, want |-> host.want, what |-> host.what] /\ host.want \in Nat
             /\ (host.what = "exit" => host.want <= 1)
Shapes == AnySeq(tx) /\ HostShape /\ resets \in Nat

LEMMA SeqsJoin ==
  ASSUME NEW p, NEW q, AnySeq(p), AnySeq(q)
  PROVE  AnySeq(p \o q)
<1>1. PICK S, T : p \in Seq(S) /\ q \in Seq(T)
  BY DEF AnySeq
<1>2. PICK U : U = S \union T
  OBVIOUS
<1>3. p \in Seq(U) /\ q \in Seq(U)
  BY <1>1, <1>2
<1>4. p \o q \in Seq(U)
  BY <1>3
<1> QED BY <1>4 DEF AnySeq

LEMMA SeqsAppend ==
  ASSUME NEW p, NEW x, AnySeq(p)
  PROVE  AnySeq(Append(p, x))
<1>1. PICK S : p \in Seq(S)
  BY DEF AnySeq
<1>2. PICK U : U = S \union {x}
  OBVIOUS
<1>3. p \in Seq(U) /\ x \in U
  BY <1>1, <1>2
<1>4. Append(p, x) \in Seq(U)
  BY <1>3
<1> QED BY <1>4 DEF AnySeq

LEMMA SeqsTail ==
  ASSUME NEW p, AnySeq(p), p # <<>>
  PROVE  AnySeq(Tail(p))
<1>1. PICK S : p \in Seq(S)
  BY DEF AnySeq
<1>2. Tail(p) \in Seq(S)
  BY <1>1
<1> QED BY <1>2 DEF AnySeq

LEMMA SeqsOne ==
  AnySeq(<<>>) /\ \A x : AnySeq(<<x>>)
<1>1. <<>> \in Seq({})
  OBVIOUS
<1>2. ASSUME NEW x PROVE AnySeq(<<x>>)
  <2>1. <<x>> \in Seq({x})
    OBVIOUS
  <2> QED BY <2>1 DEF AnySeq
<1> QED BY <1>1, <1>2 DEF AnySeq

LEMMA AnswersAreSeqs == \A c \in Char : AnySeq(Answer(c))
BY AnswerType DEF AnySeq

LEMMA BytesAreSeqs ==
  ASSUME NEW a, NEW n \in Nat
  PROVE  AnySeq(ReadFlash(a, n)) /\ AnySeq(ReadEeprom(a, n))
<1>1. PICK U : U = {ReadAt(flash, a * 2 + i - 1) : i \in 1..n} \union {ReadAt(eeprom, a + i - 1) : i \in 1..n}
  OBVIOUS
<1>2. ReadFlash(a, n) \in Seq(U)
  BY <1>1 DEF ReadFlash
<1>3. ReadEeprom(a, n) \in Seq(U)
  BY <1>1 DEF ReadEeprom
<1> QED BY <1>2, <1>3 DEF AnySeq

\* Whatever the loader does, it only adds to its answers.
LEMMA LoaderAppends ==
  ASSUME TypeInv, Shapes, Loader
  PROVE  \E q : AnySeq(q) /\ tx' = tx \o q
<1>0. rx \in Seq(Char) /\ (rx # <<>> => Head(rx) \in Char) /\ LoaderInv
  BY DEF TypeInv, LoaderInv
<1>1. tx = tx \o <<>> /\ \A x : Append(tx, x) = tx \o <<x>>
  <2>1. PICK S : tx \in Seq(S)
    BY DEF Shapes, AnySeq
  <2>2. tx = tx \o <<>>
    BY <2>1
  <2>3. ASSUME NEW x PROVE Append(tx, x) = tx \o <<x>>
    <3>1. PICK U : U = S \union {x}
      OBVIOUS
    <3>2. tx \in Seq(U) /\ x \in U
      BY <2>1, <3>1
    <3> QED BY <3>2, AppendIsConcat
  <2> QED BY <2>2, <2>3
<1>2. AnySeq(<<>>) /\ \A x : AnySeq(<<x>>)
  BY SeqsOne
<1>3. CASE WaitCharacter
  BY <1>1, <1>2, <1>3 DEF WaitCharacter
<1>4. CASE WaitTick \/ Blink \/ Argument \/ WatchdogReset \/ AppIgnores
  BY <1>1, <1>2, <1>4 DEF WaitTick, Blink, Argument, WatchdogReset, Restarts, AppIgnores, lineVars
<1>5. CASE CommandLetter
  <2>1. AnySeq(Answer(Head(rx)))
    BY <1>0, <1>5, AnswersAreSeqs DEF CommandLetter, Listening
  <2> QED BY <1>1, <1>2, <1>5, <2>1 DEF CommandLetter, Replies
<1>6. CASE CommandErase \/ ErasePage \/ CommandExit \/ SetAddress \/ SetDevice \/ LedIgnored
  BY <1>1, <1>2, <1>6 DEF CommandErase, ErasePage, CommandExit, SetAddress, SetDevice, LedIgnored, Replies
<1>7. CASE LoadBlock
  <2>1. tx' = tx \o <<0>> \/ tx' = tx \/ tx' = Append(tx, CR)
    BY <1>7 DEF LoadBlock, Replies
  <2> QED BY <1>1, <1>2, <2>1
<1>8. CASE ReadBlock
  <2>1. Carry(103) /\ 103 \in WithArguments
    BY <1>8 DEF ReadBlock, WithArguments
  <2>2. FlashCount(Size) \in Nat
    BY <1>0, <2>1, ArgumentsType
  <2>3. PICK n : n = FlashCount(Size)
    OBVIOUS
  <2>4. tx' = tx \/ tx' = tx \o ReadFlash(address, n) \/ tx' = tx \o ReadEeprom(address, n)
    <3>1. CASE args[3] = FlashType /\ ~Hangs(Size)
      BY <1>8, <2>3, <3>1 DEF ReadBlock, Replies, FlashType, EepromType
    <3>2. CASE args[3] = FlashType /\ Hangs(Size)
      BY <1>8, <2>3, <3>2 DEF ReadBlock, Replies, FlashType, EepromType
    <3>3. CASE args[3] = EepromType
      BY <1>8, <2>3, <3>3 DEF ReadBlock, Replies, FlashType, EepromType
    <3>4. CASE args[3] # FlashType /\ args[3] # EepromType
      BY <1>8, <2>3, <3>4 DEF ReadBlock, Replies
    <3> QED BY <3>1, <3>2, <3>3, <3>4
  <2>5. AnySeq(ReadFlash(address, n)) /\ AnySeq(ReadEeprom(address, n))
    BY <2>2, <2>3, BytesAreSeqs
  <2> QED BY <1>1, <1>2, <2>4, <2>5
<1> QED BY <1>3, <1>4, <1>5, <1>6, <1>7, <1>8 DEF Loader

LEMMA LoaderFrame ==
  ASSUME Loader
  PROVE  UNCHANGED <<host, hostAddr, selected, image, losses>>
BY DEF Loader, WaitCharacter, WaitTick, Blink, CommandLetter, CommandErase, ErasePage, CommandExit,
       Argument, SetAddress, SetDevice, LedIgnored, LoadBlock, ReadBlock, WatchdogReset, Restarts,
       AppIgnores, hostVars

LEMMA LoaderShapes ==
  ASSUME TypeInv, Shapes, Loader
  PROVE  Shapes'
<1>1. UNCHANGED <<host, resets>>
  BY DEF Loader, WaitCharacter, WaitTick, Blink, CommandLetter, CommandErase, ErasePage, CommandExit,
         Argument, SetAddress, SetDevice, LedIgnored, LoadBlock, ReadBlock, WatchdogReset, Restarts,
         AppIgnores, hostVars
<1>2. PICK q : AnySeq(q) /\ tx' = tx \o q
  BY LoaderAppends
<1>3. AnySeq(tx')
  BY <1>2, SeqsJoin DEF Shapes
<1> QED BY <1>1, <1>3 DEF Shapes, HostShape

LEMMA HostShapes ==
  ASSUME TypeInv, Shapes, Host
  PROVE  Shapes'
<1>1. ASSUME NEW bytes, NEW what, NEW want \in Nat, what = "exit" => want <= 1, Asking(bytes, what, want)
      PROVE  Shapes'
  BY <1>1 DEF Asking, Shapes, HostShape
<1>2. CASE HostConnect
  BY <1>2 DEF HostConnect, Shapes, HostShape
<1>3. CASE HostAsk
  <2>1. PICK q \in Asks : Asking(q.bytes, "ask", q.want)
    BY <1>3 DEF HostAsk
  <2>2. q.want \in Nat
    BY HostAssumption
  <2> QED BY <1>1, <2>1, <2>2
<1>4. CASE ~HostConnect /\ ~HostAsk
  <2>1. \E bytes, what, want : Asking(bytes, what, want) /\ want \in {1, 2} /\ (what = "exit" => want = 1)
    BY <1>4 DEF Host, HostSetDevice, HostSetAddress, HostErase, HostBlock, HostRead, HostExit
  <2>2. PICK bytes, what, want : Asking(bytes, what, want) /\ want \in {1, 2} /\ (what = "exit" => want = 1)
    BY <2>1
  <2>3. want \in Nat /\ (what = "exit" => want <= 1)
    BY <2>2
  <2> QED BY <1>1, <2>2, <2>3
<1> QED BY <1>2, <1>3, <1>4

LEMMA ShapesKept ==
  TypeInv /\ Shapes /\ [Next]_vars => Shapes'
<1> SUFFICES ASSUME TypeInv, Shapes, [Next]_vars PROVE Shapes'
  OBVIOUS
<1>1. CASE UNCHANGED vars
  BY <1>1 DEF vars, lineVars, hostVars, Shapes, HostShape, AnySeq
<1>2. CASE HostReceives
  <2>1. AnySeq(tx') /\ resets' = resets
    BY <1>2, SeqsTail DEF HostReceives, Shapes
  <2>2. Idle = [pc |-> "idle", want |-> 0, what |-> "none"]
    BY DEF Idle
  <2>3. CASE Lost
    BY <2>1, <2>2, <2>3 DEF Lost, Shapes, HostShape
  <2>4. CASE ~Lost
    <3>1. host' = CASE host.want > 1 -> [host EXCEPT !.want = @ - 1]
                    [] host.what = "exit" -> [Idle EXCEPT !.pc = "off"]
                    [] OTHER -> Idle
      BY <1>2, <2>4 DEF HostReceives
    <3>2. PICK p, w, k : host = [pc |-> p, want |-> w, what |-> k] /\ w \in Nat /\ (k = "exit" => w <= 1)
      BY DEF Shapes, HostShape
    <3>3. CASE host.want > 1
      <4>1. host.want = w /\ w > 1 /\ k # "exit" /\ host.what # "exit"
        BY <3>2, <3>3
      <4>2. w - 1 \in Nat
        BY <3>2, <4>1
      <4>3. host' = [host EXCEPT !.want = host.want - 1]
        BY <3>1, <3>3, <4>1
      <4>4. host' = [pc |-> p, want |-> w - 1, what |-> k]
        <5>1. host' = [host EXCEPT !.want = w - 1]
          BY <4>1, <4>3
        <5> QED BY <3>2, <5>1
      <4> QED BY <2>1, <4>1, <4>2, <4>4 DEF Shapes, HostShape
    <3>4. CASE ~(host.want > 1) /\ host.what = "exit"
      <4>1. host' = [Idle EXCEPT !.pc = "off"]
        BY <3>1, <3>4
      <4>2. host' = [pc |-> "off", want |-> 0, what |-> "none"]
        BY <2>2, <4>1
      <4> QED BY <2>1, <4>2 DEF Shapes, HostShape
    <3>5. CASE ~(host.want > 1) /\ host.what # "exit"
      <4>1. host' = [pc |-> "idle", want |-> 0, what |-> "none"]
        BY <2>2, <3>1, <3>5
      <4> QED BY <2>1, <4>1 DEF Shapes, HostShape
    <3> QED BY <3>3, <3>4, <3>5
  <2> QED BY <2>3, <2>4
<1>3. CASE HostTimeout
  BY <1>3 DEF HostTimeout, Lost, lineVars, Idle, Shapes, HostShape
<1>4. CASE HostEscapes
  BY <1>4 DEF HostEscapes, Shapes, HostShape
<1>5. CASE HostSynced
  BY <1>5, SeqsOne DEF HostSynced, Idle, Shapes, HostShape
<1>6. CASE LoseToLoader
  BY <1>6 DEF LoseToLoader, hostVars, Shapes, HostShape
<1>7. CASE LoseToHost
  BY <1>7, SeqsTail DEF LoseToHost, hostVars, Shapes, HostShape
<1>8. CASE PowerFails
  BY <1>8 DEF PowerFails, Restarts, hostVars, Shapes, HostShape
<1>9. CASE Host
  BY <1>9, HostShapes
<1>10. CASE Loader
  BY <1>10, LoaderShapes
<1> QED BY <1>1, <1>2, <1>3, <1>4, <1>5, <1>6, <1>7, <1>8, <1>9, <1>10 DEF Next, HostProceeds

-----------------------------------------------------------------------------
(* The host receives an answer. *)

\* The rest of a sequence.
LEMMA AfterHead ==
  ASSUME NEW p, AnySeq(p), p # <<>>
  PROVE  /\ Head(p) = p[1] /\ Len(p) \in Nat /\ Len(p) >= 1 /\ Len(Tail(p)) = Len(p) - 1
         /\ \A i \in 1..(Len(p) - 1) : Tail(p)[i] = p[i + 1]
         /\ Len(p) > 1 => Tail(p) # <<>>
<1>1. PICK S : p \in Seq(S)
  BY DEF AnySeq
<1>2. Head(p) = p[1] /\ Len(p) \in Nat /\ Len(p) >= 1
  BY <1>1
<1>3. Tail(p) \in Seq(S) /\ Len(Tail(p)) = Len(p) - 1 /\ \A i \in 1..(Len(p) - 1) : Tail(p)[i] = p[i + 1]
  BY <1>1, HeadTailProperties
<1>4. Len(p) > 1 => Tail(p) # <<>>
  <2> SUFFICES ASSUME Len(p) > 1, Tail(p) = <<>> PROVE FALSE
    OBVIOUS
  <2>0. \A q : q = <<>> => Len(q) = 0
    OBVIOUS
  <2>1. Len(Tail(p)) = 0
    BY <2>0, Zenon
  <2>2. Len(Tail(p)) = Len(p) - 1
    BY <1>3
  <2> QED BY <1>2, <2>1, <2>2
<1> QED BY <1>2, <1>3, <1>4

\* The address the host counts with.
LEMMA CountsWith ==
  ASSUME HostInv, Shapes
  PROVE  \A m : ByteAddr(m) \in Int /\ ByteAddr(m) - host.want \in Int
<1>1. hostAddr \in Int /\ host.want \in Int
  BY DEF HostInv, None, Shapes, HostShape
<1> QED BY <1>1 DEF ByteAddr

\* A character of the answer is the one the host expects.
LEMMA AsExpected ==
  ASSUME HostInv, Shapes, Answered
  PROVE  Expected(Head(tx))
<1>1. /\ tx # <<>> /\ Matches /\ Len(tx) = host.want /\ DOMAIN image = {"FLASH", "EEPROM"}
      /\ host.what \in {"cr", "erase", "exit", "connect", "FLASH", "EEPROM", "ask"}
  BY DEF Answered, HostInv
<1>2. Head(<<CR>>) = CR /\ Head(<<Boot>>) = Boot
  OBVIOUS
<1>3. CASE host.what \in {"cr", "erase", "exit"}
  BY <1>1, <1>2, <1>3 DEF Matches, Expected
<1>4. CASE host.what = "connect"
  BY <1>1, <1>2, <1>4 DEF Matches, Expected
<1>5. CASE host.what \in {"FLASH", "EEPROM"}
  <2>0. Head(tx) = tx[1] /\ 1 \in 1..Len(tx)
    BY <1>1, AfterHead DEF Shapes
  <2>1. \A i \in 1..Len(tx) : tx[i] = image[host.what][ByteAddr(host.what) - host.want + i - 1]
    BY <1>1, <1>5 DEF Matches
  <2>2. tx[1] = image[host.what][ByteAddr(host.what) - host.want + 1 - 1]
    BY <2>0, <2>1
  <2>3. PICK x : x = ByteAddr(host.what) - host.want /\ x \in Int
    BY CountsWith
  <2>4. x + 1 - 1 = x
    BY <2>3
  <2>5. tx[1] = image[host.what][ByteAddr(host.what) - host.want]
    BY <2>2, <2>3, <2>4
  <2> QED BY <1>1, <1>5, <2>0, <2>5 DEF Expected
<1>6. CASE host.what = "ask"
  BY <1>1, <1>6 DEF Expected
<1> QED BY <1>1, <1>3, <1>4, <1>5, <1>6

\* The host goes on with the rest of the answer, or has it.
LEMMA AnswerTaken ==
  ASSUME TypeInv, Shapes, Answered, HostReceives, mode # "hung"
  PROVE  Agreed' /\ mode' # "hung" /\ UNCHANGED <<losses, resets>>
<1>1. /\ HostInv /\ tx # <<>> /\ Matches /\ Len(tx) = host.want /\ rx = <<>> /\ AtRest /\ Holds
      /\ DOMAIN image = {"FLASH", "EEPROM"}
      /\ DOMAIN image["FLASH"] = DOMAIN flash
      /\ host.what \in {"cr", "erase", "exit", "connect", "FLASH", "EEPROM", "ask"}
      /\ host.what = "erase" => FlashBlank
      /\ host.what = "exit" => mode \in {"off", "wait", "app"}
      /\ host.what # "exit" => Up /\ Settings
      /\ mode = "blink" => hostAddr = None
  BY DEF Answered, TypeInv, HostInv, LoaderInv
<1>2. Expected(Head(tx))
  BY <1>1, AsExpected
<1>3. /\ host' = CASE host.want > 1 -> [host EXCEPT !.want = @ - 1]
                       [] host.what = "exit" -> [Idle EXCEPT !.pc = "off"]
                       [] OTHER -> Idle
      /\ image' = IF host.what = "erase" THEN [image EXCEPT !["FLASH"] = [a \in DOMAIN @ |-> Blank]]
                  ELSE image
      /\ tx' = Tail(tx)
      /\ UNCHANGED <<mode, cnt, cmd, args, erasing, address, device, flash, eeprom, rx, hostAddr, selected, losses, resets>>
  BY <1>2 DEF HostReceives, loaderVars, memVars
<1>4. Memory' = Memory /\ AtRest' /\ (Up => Up') /\ (Settings => Settings')
  BY <1>1, <1>3 DEF Memory, AtRest, Up, Settings
<1>5. Idle = [pc |-> "idle", want |-> 0, what |-> "none"]
  BY DEF Idle
<1>6. CASE host.want > 1
  <2>1. PICK p, w, k : host = [pc |-> p, want |-> w, what |-> k] /\ w \in Nat /\ (k = "exit" => w <= 1)
    BY DEF Shapes, HostShape
  <2>2. host.want = w /\ w > 1 /\ k # "exit" /\ host.what = k /\ host.pc = p /\ host.what # "exit" /\ w - 1 \in Nat
    BY <1>6, <2>1
  <2>3. host' = [host EXCEPT !.want = w - 1]
    BY <1>3, <1>6, <2>2
  <2>4. host' = [pc |-> p, want |-> w - 1, what |-> k]
    BY <2>1, <2>3
  <2>5. host'.pc = p /\ host'.want = w - 1 /\ host'.what = k
    BY <2>4
  <2>6. /\ Len(tx) = w /\ Len(Tail(tx)) = w - 1 /\ Tail(tx) # <<>>
        /\ \A i \in 1..(w - 1) : Tail(tx)[i] = tx[i + 1]
    BY <1>1, <2>2, AfterHead DEF Shapes
  <2>7. k \in {"FLASH", "EEPROM", "ask"}
    <3>1. Len(<<CR>>) = 1 /\ Len(<<Boot>>) = 1
      OBVIOUS
    <3>2. k \notin {"cr", "erase", "exit"}
      BY <1>1, <2>2, <2>6, <3>1 DEF Matches
    <3>3. k # "connect"
      BY <1>1, <2>2, <2>6, <3>1 DEF Matches
    <3> QED BY <1>1, <2>2, <3>2, <3>3
  <2>8. image' = image
    BY <1>3, <2>2, <2>7
  <2>9. Matches'
    <3>1. ASSUME k \in {"FLASH", "EEPROM"}, NEW i \in 1..(w - 1)
          PROVE  Tail(tx)[i] = image[k][ByteAddr(k) - (w - 1) + i - 1]
      <4>1. i + 1 \in 1..Len(tx)
        BY <2>6, <2>1
      <4>2. tx[i + 1] = image[k][ByteAddr(k) - w + (i + 1) - 1]
        BY <1>1, <2>2, <3>1, <4>1 DEF Matches
      <4>3. PICK x \in Int : x = ByteAddr(k)
        BY <1>1, CountsWith
      <4>4. x - w + (i + 1) - 1 = x - (w - 1) + i - 1
        BY <2>1
      <4> QED BY <2>6, <4>2, <4>3, <4>4
    <3>2. \A m : ByteAddr(m)' = ByteAddr(m)
      BY <1>3 DEF ByteAddr
    <3>3. (host.what \in {"FLASH", "EEPROM"})' =>
            \A i \in 1..Len(tx') : tx'[i] = image'[host'.what][ByteAddr(host.what)' - host'.want + i - 1]
      BY <1>3, <2>5, <2>6, <2>8, <3>1, <3>2
    <3> QED BY <2>5, <2>7, <3>3 DEF Matches
  <2>10. Holds'
    BY <1>1, <1>4, <2>8 DEF Holds
  <2>11. host.pc = "await"
    BY DEF Answered
  <2>12. Answered'
    BY <1>1, <1>3, <1>4, <2>2, <2>5, <2>6, <2>7, <2>9, <2>10, <2>11 DEF Answered
  <2> QED BY <1>3, <2>12 DEF Agreed
<1>7. Holds'
  <2>1. CASE host.what = "erase"
    <3>1. image' = [image EXCEPT !["FLASH"] = [a \in DOMAIN image["FLASH"] |-> Blank]] /\ FlashBlank
      BY <1>1, <1>3, <2>1
    <3>2. /\ DOMAIN image' = DOMAIN image /\ image'["EEPROM"] = image["EEPROM"]
          /\ image'["FLASH"] = [a \in DOMAIN image["FLASH"] |-> Blank]
      BY <1>1, <3>1
    <3> SUFFICES ASSUME NEW m \in {"FLASH", "EEPROM"}, NEW a \in DOMAIN image'[m]
                 PROVE  image'[m][a] \in {NoPromise, Memory'[m][a]}
      BY <1>1, <3>2 DEF Holds
    <3>3. CASE m = "FLASH"
      <4>1. image'[m][a] = Blank /\ a \in DOMAIN flash
        BY <1>1, <3>2, <3>3
      <4>2. Memory'[m][a] = flash[a] /\ flash[a] = Blank
        BY <1>3, <3>1, <3>3, <4>1 DEF Memory, FlashBlank
      <4> QED BY <4>1, <4>2
    <3>4. CASE m = "EEPROM"
      BY <1>1, <1>4, <3>2, <3>4 DEF Holds
    <3> QED BY <3>3, <3>4
  <2>2. CASE host.what # "erase"
    BY <1>1, <1>3, <1>4, <2>2 DEF Holds
  <2> QED BY <2>1, <2>2
<1>8. CASE ~(host.want > 1) /\ host.what = "exit"
  <2>1. host'.pc = "off"
    <3>1. host' = [Idle EXCEPT !.pc = "off"]
      BY <1>3, <1>8
    <3> QED BY <1>5, <3>1
  <2> QED BY <1>1, <1>3, <1>7, <1>8, <2>1 DEF Unconnected, Agreed
<1>9. CASE ~(host.want > 1) /\ host.what # "exit"
  <2>1. host'.pc = "idle"
    BY <1>3, <1>5, <1>9
  <2> QED BY <1>1, <1>3, <1>4, <1>7, <1>9, <2>1 DEF Ready, Agreed, Up
<1> QED BY <1>6, <1>8, <1>9

-----------------------------------------------------------------------------
(* The host asks. *)

\* Everything a command changes at first: its characters are on the line.
LEMMA NowComing ==
  ASSUME Ready, NEW bytes, NEW what, NEW want, Asking(bytes, what, want)
  PROVE  /\ Coming(what, want, bytes)'
         /\ UNCHANGED <<mode, cmd, erasing, address, device, flash, eeprom, losses, resets>>
<1>1. /\ Up /\ AtRest /\ tx = <<>> /\ tx' = <<>> /\ rx' = bytes
      /\ host' = [pc |-> "await", want |-> want, what |-> what]
      /\ UNCHANGED <<mode, cmd, erasing, address, device, flash, eeprom, losses, resets>>
  BY DEF Ready, Asking, loaderVars, memVars
<1>2. Way(bytes)' /\ Awaits(what, want)' /\ Up'
  BY <1>1 DEF Way, Awaits, Up, AtRest
<1> QED BY <1>1, <1>2 DEF Coming, AtRest

LEMMA AskingOne ==
  ASSUME TypeInv, Ready, HostSetDevice \/ HostAsk \/ HostSetAddress \/ HostExit
  PROVE  OnItsWay' /\ UNCHANGED <<mode, losses, resets>>
<1>1. Holds /\ Settings
  BY DEF Ready
<1>2. CASE HostSetDevice
  <2>1. Asking(<<84, DevType>>, "cr", 1) /\ UNCHANGED <<hostAddr, image>>
    BY <1>2 DEF HostSetDevice
  <2>2. /\ Coming("cr", 1, <<84, DevType>>)'
        /\ UNCHANGED <<mode, address, flash, eeprom, losses, resets>>
    BY <2>1, NowComing
  <2>3. Holds'
    BY <1>1, <2>1, <2>2, HoldsKept
  <2>4. ComingDevice'
    BY <1>1, <2>1, <2>2, <2>3 DEF ComingDevice, Settings
  <2> QED BY <2>2, <2>4 DEF OnItsWay
<1>3. CASE HostAsk
  <2>1. PICK q \in Asks : Asking(q.bytes, "ask", q.want) /\ UNCHANGED <<hostAddr, selected, image>>
    BY <1>3 DEF HostAsk
  <2>2. /\ Coming("ask", q.want, q.bytes)'
        /\ UNCHANGED <<mode, address, device, flash, eeprom, losses, resets>>
    BY <2>1, NowComing
  <2>3. Holds' /\ Settings'
    BY <1>1, <2>1, <2>2, HoldsKept DEF Settings
  <2>4. ComingAsk'
    BY <2>2, <2>3 DEF ComingAsk
  <2> QED BY <2>2, <2>4 DEF OnItsWay
<1>4. CASE HostSetAddress
  <2>1. PICK w \in Addresses :
          Asking(<<65, High(w), Low(w)>>, "cr", 1) /\ hostAddr' = w /\ UNCHANGED <<selected, image>>
    BY <1>4 DEF HostSetAddress
  <2>2. /\ Coming("cr", 1, <<65, High(w), Low(w)>>)'
        /\ UNCHANGED <<mode, device, flash, eeprom, losses, resets>>
    BY <2>1, NowComing
  <2>3. Holds'
    BY <1>1, <2>1, <2>2, HoldsKept
  <2>5. ComingAddress'
    BY <1>1, <2>1, <2>2, <2>3 DEF ComingAddress, Settings
  <2> QED BY <2>2, <2>5 DEF OnItsWay
<1>5. CASE HostExit
  <2>1. Asking(<<69>>, "exit", 1) /\ UNCHANGED image
    BY <1>5 DEF HostExit
  <2>2. Coming("exit", 1, <<69>>)' /\ UNCHANGED <<mode, flash, eeprom, losses, resets>>
    BY <2>1, NowComing
  <2>3. ComingExit'
    BY <1>1, <2>1, <2>2, HoldsKept DEF ComingExit
  <2> QED BY <2>2, <2>3 DEF OnItsWay
<1> QED BY <1>2, <1>3, <1>4, <1>5

LEMMA AskingErase ==
  ASSUME TypeInv, Ready, HostErase
  PROVE  OnItsWay' /\ UNCHANGED <<mode, losses, resets>>
<1>1. Asking(<<101>>, "erase", 1) /\ selected /\ image' = NothingIn("FLASH") /\ UNCHANGED <<hostAddr, selected>>
  BY DEF HostErase
<1>2. Coming("erase", 1, <<101>>)' /\ UNCHANGED <<mode, address, device, flash, eeprom, losses, resets>>
  BY <1>1, NowComing
<1>3. /\ DOMAIN image = {"FLASH", "EEPROM"}
      /\ image' = [image EXCEPT !["FLASH"] = [a \in DOMAIN image["FLASH"] |-> NoPromise]]
  BY <1>1 DEF NothingIn, TypeInv, HostInv
<1>4. /\ DOMAIN image' = {"FLASH", "EEPROM"} /\ image'["EEPROM"] = image["EEPROM"]
      /\ image'["FLASH"] = [a \in DOMAIN image["FLASH"] |-> NoPromise]
  BY <1>3
<1>5. NoFlash'
  BY <1>4 DEF NoFlash
<1>6. Holds'
  <2> SUFFICES ASSUME NEW m \in {"FLASH", "EEPROM"}, NEW a \in DOMAIN image'[m]
               PROVE  image'[m][a] \in {NoPromise, Memory'[m][a]}
    BY <1>4 DEF Holds
  <2>1. CASE m = "FLASH"
    BY <1>4, <2>1
  <2>2. CASE m = "EEPROM"
    <3>1. Holds /\ Memory' = Memory
      BY <1>2 DEF Ready, Memory
    <3> QED BY <1>3, <1>4, <2>2, <3>1 DEF Holds
  <2> QED BY <2>1, <2>2
<1>7. Settings' /\ selected'
  BY <1>1, <1>2 DEF Ready, Settings
<1>8. ComingErase'
  BY <1>2, <1>5, <1>6, <1>7 DEF ComingErase
<1> QED BY <1>2, <1>8 DEF OnItsWay

LEMMA AskingRead ==
  ASSUME TypeInv, Ready, NEW m \in {"FLASH", "EEPROM"}, HostRead(m, 2)
  PROVE  OnItsWay' /\ UNCHANGED <<mode, losses, resets>>
<1>1. /\ hostAddr # None /\ Asking(<<103, 0, 2, TypeOf(m)>>, m, 2)
      /\ \A a \in ByteAddr(m)..(ByteAddr(m) + 2 - 1) : a \in DOMAIN image[m] /\ image[m][a] # NoPromise
      /\ hostAddr' = hostAddr + Units(m, 2) /\ UNCHANGED <<selected, image>>
  BY DEF HostRead
<1>2. Coming(m, 2, <<103, 0, 2, TypeOf(m)>>)' /\ UNCHANGED <<mode, address, device, flash, eeprom, losses, resets>>
  BY <1>1, NowComing
<1>3. /\ address = hostAddr /\ Holds /\ (selected => device = DevType) /\ mode # "blink"
  BY <1>1 DEF Ready, Settings
<1>4. From(m)' = From(m) /\ From(m) = ByteAddr(m) /\ From(m) \in Int
  <2>1. From(m)' = From(m)
    BY <1>2 DEF From
  <2>2. hostAddr \in Nat
    BY <1>1 DEF TypeInv, HostInv
  <2> QED BY <1>3, <2>1, <2>2 DEF From, ByteAddr
<1>5. \A a \in From(m)'..(From(m)' + 1) : a \in DOMAIN image'[m] /\ image'[m][a] # NoPromise
  <2>1. PICK x \in Int : x = From(m)
    BY <1>4
  <2>2. x + 2 - 1 = x + 1
    OBVIOUS
  <2> QED BY <1>1, <1>4, <2>1, <2>2
<1>6. Holds' /\ (selected' => device' = DevType) /\ mode' # "blink"
  BY <1>1, <1>2, <1>3, HoldsKept
<1>7. ComingRead(m)'
  BY <1>1, <1>2, <1>3, <1>5, <1>6 DEF ComingRead
<1> QED BY <1>2, <1>7 DEF OnItsWay

LEMMA AskingBlock ==
  ASSUME TypeInv, Ready, NEW b \in Blocks, HostBlock(b)
  PROVE  OnItsWay' /\ UNCHANGED <<mode, losses, resets>>
<1>0. PICK at : at = ByteAddr(b.mem)
  OBVIOUS
<1>01. PICK cells : cells = at..(at + Len(b.data) - 1)
  OBVIOUS
<1>1. /\ selected /\ hostAddr # None /\ cells \subseteq DOMAIN image[b.mem]
      /\ b.mem = "FLASH" => \A a \in cells : image["FLASH"][a] = Blank /\ PageOf(a) = PageOf(at)
      /\ Asking(BlockBytes(b), "cr", 1)
      /\ image' = [image EXCEPT ![b.mem] = [a \in DOMAIN @ |-> IF a \in cells THEN b.data[a - at + 1] ELSE @[a]]]
      /\ hostAddr' = hostAddr + Units(b.mem, Len(b.data)) /\ UNCHANGED selected
  BY <1>0, <1>01 DEF HostBlock, BlockBytes
<1>2. Coming("cr", 1, BlockBytes(b))' /\ UNCHANGED <<mode, address, device, flash, eeprom, losses, resets>>
  <2>1. PICK s : s = BlockBytes(b)
    OBVIOUS
  <2>2. Coming("cr", 1, s)' /\ UNCHANGED <<mode, address, device, flash, eeprom, losses, resets>>
    BY <1>1, <2>1, NowComing
  <2>3. s = BlockBytes(b)'
    BY <2>1 DEF BlockBytes
  <2> QED BY <2>1, <2>2
<1>3. /\ address = hostAddr /\ Holds /\ device = DevType /\ mode # "blink"
  BY <1>1 DEF Ready, Settings
<1>4. /\ DOMAIN image = {"FLASH", "EEPROM"} /\ DOMAIN image["FLASH"] = DOMAIN flash /\ b.mem \in {"FLASH", "EEPROM"}
  BY BlocksFit DEF TypeInv, HostInv, LoaderInv, BlockFits
<1>5. at = From(b.mem) /\ From(b.mem)' = From(b.mem) /\ cells = Cells(b) /\ Cells(b)' = Cells(b)
  <2>1. at = From(b.mem)
    BY <1>0, <1>3 DEF From, ByteAddr
  <2>2. From(b.mem)' = From(b.mem)
    BY <1>2 DEF From
  <2> QED BY <1>01, <2>1, <2>2 DEF Cells
<1>6. \A m \in {"FLASH", "EEPROM"} : DOMAIN image'[m] = DOMAIN image[m]
  BY <1>1, <1>4
<1>7. \A m \in {"FLASH", "EEPROM"} : \A a \in DOMAIN image[m] :
        image'[m][a] = IF m = b.mem /\ a \in cells THEN b.data[a - at + 1] ELSE image[m][a]
  BY <1>1, <1>4
<1>8. b.mem = "FLASH" => \A a \in cells : flash[a] = Blank /\ PageOf(a) = PageOf(at)
  <2> SUFFICES ASSUME b.mem = "FLASH", NEW a \in cells PROVE flash[a] = Blank /\ PageOf(a) = PageOf(at)
    OBVIOUS
  <2>1. image["FLASH"][a] = Blank /\ PageOf(a) = PageOf(at) /\ a \in DOMAIN image["FLASH"]
    BY <1>1
  <2>2. image["FLASH"][a] \in {NoPromise, Memory["FLASH"][a]}
    BY <1>3, <1>4, <2>1 DEF Holds
  <2>3. Memory["FLASH"][a] = flash[a] /\ NoPromise # Blank
    BY DEF Memory, NoPromise, Blank
  <2> QED BY <2>1, <2>2, <2>3
<1>9. Memory' = Memory /\ \A m \in {"FLASH", "EEPROM"} : \A a \in DOMAIN image[m] : image[m][a] \in {NoPromise, Memory[m][a]}
  BY <1>2, <1>3, <1>4 DEF Memory, Holds
<1>10. \A m \in DOMAIN image' : \A a \in DOMAIN image'[m] :
         IF m = b.mem /\ a \in Cells(b)' THEN image'[m][a] = b.data[a - From(m)' + 1]
         ELSE image'[m][a] \in {NoPromise, Memory'[m][a]}
  <2>0. DOMAIN image' = {"FLASH", "EEPROM"}
    BY <1>1, <1>4
  <2> SUFFICES ASSUME NEW m \in {"FLASH", "EEPROM"}, NEW a \in DOMAIN image[m]
               PROVE  IF m = b.mem /\ a \in Cells(b)' THEN image'[m][a] = b.data[a - From(m)' + 1]
                      ELSE image'[m][a] \in {NoPromise, Memory'[m][a]}
    BY <1>6, <2>0
  <2>1. CASE m = b.mem /\ a \in cells
    BY <1>5, <1>7, <2>1
  <2>2. CASE ~(m = b.mem /\ a \in cells)
    BY <1>5, <1>7, <1>9, <2>2
  <2> QED BY <2>1, <2>2
<1>11. ComingBlock(b)'
  <2>1. hostAddr' = address' + Units(b.mem, Len(b.data)) /\ device' = DevType /\ mode' # "blink"
    BY <1>1, <1>2, <1>3
  <2>2. Cells(b)' \subseteq DOMAIN image'[b.mem]
    BY <1>1, <1>4, <1>5, <1>6
  <2>3. b.mem = "FLASH" => \A a \in Cells(b)' : flash'[a] = Blank /\ PageOf(a) = PageOf(From(b.mem)')
    BY <1>2, <1>5, <1>8
  <2> QED BY <1>2, <1>10, <2>1, <2>2, <2>3 DEF ComingBlock
<1> QED BY <1>2, <1>11 DEF OnItsWay

\* Who waits for an answer, and who does not.
LEMMA Phases ==
  /\ OnItsWay => host.pc = "await" /\ tx = <<>>
  /\ Agreed => \/ host.pc = "off" /\ Unconnected
               \/ host.pc = "idle" /\ Ready
               \/ host.pc = "await" /\ (Calling \/ Answered \/ ErasingAll \/ OnItsWay)
<1>1. \A what, want, s : Coming(what, want, s) => host.pc = "await" /\ tx = <<>>
  BY DEF Coming, Awaits
<1>2. OnItsWay => host.pc = "await" /\ tx = <<>>
  <2> SUFFICES ASSUME OnItsWay PROVE \E what, want, s : Coming(what, want, s)
    BY <1>1
  <2>1. CASE ComingDevice
    BY <2>1 DEF ComingDevice
  <2>2. CASE ComingAddress
    BY <2>2 DEF ComingAddress
  <2>3. CASE ComingAsk
    BY <2>3 DEF ComingAsk
  <2>4. CASE ComingErase
    BY <2>4 DEF ComingErase
  <2>5. CASE ComingExit
    BY <2>5 DEF ComingExit
  <2>6. CASE \E m \in {"FLASH", "EEPROM"} : ComingRead(m)
    BY <2>6 DEF ComingRead
  <2>7. CASE \E b \in Blocks : ComingBlock(b)
    BY <2>7 DEF ComingBlock
  <2> QED BY <2>1, <2>2, <2>3, <2>4, <2>5, <2>6, <2>7 DEF OnItsWay
<1>3. /\ Unconnected => host.pc = "off"
      /\ Ready => host.pc = "idle"
      /\ Answered => host.pc = "await"
  BY DEF Unconnected, Ready, Answered
<1>4. Calling \/ ErasingAll => host.pc = "await"
  BY DEF Calling, ErasingAll, Awaits
<1> QED BY <1>2, <1>3, <1>4 DEF Agreed

LEMMA HostAsksOn ==
  ASSUME TypeInv, Agreed, Host
  PROVE  Agreed' /\ mode' = mode /\ UNCHANGED <<losses, resets>>
<1>1. CASE HostConnect
  <2>1. Unconnected
    BY <1>1, Phases DEF HostConnect
  <2>2. /\ mode # "off" /\ tx' = <<>> /\ rx' = <<Start>> /\ host' = [pc |-> "await", want |-> 1, what |-> "connect"]
        /\ hostAddr' = None /\ selected' = FALSE
        /\ UNCHANGED <<mode, flash, eeprom, image, losses, resets>>
    BY <1>1 DEF HostConnect, loaderVars, memVars
  <2>3. Calling'
    BY <2>1, <2>2, HoldsKept DEF Unconnected, Calling, Awaits
  <2> QED BY <2>2, <2>3 DEF Agreed
<1>2. CASE ~HostConnect
  <2>1. host.pc = "idle"
    BY <1>2 DEF Host, HostSetDevice, HostAsk, HostSetAddress, HostErase, HostBlock, HostRead, HostExit, Asking
  <2>2. Ready
    BY <2>1, Phases
  <2>3. OnItsWay' /\ UNCHANGED <<mode, losses, resets>>
    <3>1. CASE HostSetDevice \/ HostAsk \/ HostSetAddress \/ HostExit
      BY <2>2, <3>1, AskingOne
    <3>2. CASE HostErase
      BY <2>2, <3>2, AskingErase
    <3>3. CASE \E b \in Blocks : HostBlock(b)
      BY <2>2, <3>3, AskingBlock
    <3>4. CASE \E m \in {"FLASH", "EEPROM"} : HostRead(m, 2)
      BY <2>2, <3>4, AskingRead
    <3> QED BY <1>2, <3>1, <3>2, <3>3, <3>4 DEF Host
  <2> QED BY <2>3 DEF Agreed
<1> QED BY <1>1, <1>2

-----------------------------------------------------------------------------
(* The host is not left waiting. *)

\* Whole commands: nothing but their last character is missing.
Sent(s) == \/ \E c \in WithArguments, t \in Seq(Char) : s = <<c>> \o t /\ Complete(c, t)
           \/ \E c \in Char \ WithArguments : s = <<c>>

LEMMA TakenApart ==
  ASSUME NEW c \in Char, NEW t \in Seq(Char), NEW s, s = <<c>> \o t
  PROVE  Head(s) = c /\ Tail(s) = t /\ s # <<>>
<1>1. <<c>> \in Seq(Char) /\ Len(<<c>>) = 1
  OBVIOUS
<1>2. s \in Seq(Char) /\ Len(s) = 1 + Len(t) /\ s[1] = c
  BY <1>1, ConcatProperties
<1>3. \A i \in 1..Len(t) : s[i + 1] = t[i]
  BY <1>1, <1>2, ConcatProperties
<1>4. s # <<>>
  BY <1>2
<1>5. /\ Tail(s) \in Seq(Char) /\ Len(Tail(s)) = Len(t)
      /\ \A i \in 1..Len(t) : Tail(s)[i] = s[i + 1]
  BY <1>2, <1>4, HeadTailProperties
<1>6. Tail(s) = t
  BY <1>3, <1>5, SeqEqual
<1> QED BY <1>2, <1>4, <1>6

\* A whole command that has left the line is carried out.
LEMMA SentIsTaken ==
  ASSUME LoaderInv, NEW what, NEW want, NEW s, Sent(s), Coming(what, want, s), rx = <<>>
  PROVE  cmd # None /\ Complete(cmd, args)
<1>1. CASE \E c \in WithArguments, t \in Seq(Char) : s = <<c>> \o t /\ Complete(c, t)
  <2>1. PICK c \in WithArguments, t \in Seq(Char) : s = <<c>> \o t /\ Complete(c, t)
    BY <1>1
  <2>2. Head(s) = c /\ Tail(s) = t /\ s # <<>>
    BY <2>1, LettersAreChars, TakenApart
  <2>3. cmd # None /\ cmd = c /\ args \o rx = t
    BY <2>2 DEF Coming, Way
  <2>4. args = t
    BY <2>3, ConcatEmptySeq DEF LoaderInv
  <2> QED BY <2>1, <2>3, <2>4
<1>2. CASE \E c \in Char \ WithArguments : s = <<c>>
  <2>1. PICK c \in Char \ WithArguments : s = <<c>>
    BY <1>2
  <2>2. Head(s) = c /\ s # <<>>
    BY <2>1
  <2>3. cmd # None /\ cmd = c
    BY <2>2 DEF Coming, Way
  <2> QED BY <2>1, <2>3 DEF LoaderInv
<1> QED BY <1>1, <1>2 DEF Sent

LEMMA OneArgument ==
  ASSUME NEW c \in WithArguments, Arguments(c) = 1, c # 66, NEW x \in Char
  PROVE  Sent(<<c, x>>)
<1>1. PICK t, s : t = <<x>> /\ s = <<c, x>>
  OBVIOUS
<1>2. t \in Seq(Char) /\ Len(t) = Arguments(c) /\ s = <<c>> \o t
  <2>1. c \in Char
    BY LettersAreChars
  <2> QED BY <1>1, <2>1, SpelledTwo
<1>3. Complete(c, t)
  BY <1>2, WholeCommand
<1>4. Sent(s)
  BY <1>2, <1>3 DEF Sent
<1> QED BY <1>1, <1>4

LEMMA AddressSent == \A x, y \in Char : Sent(<<65, x, y>>)
<1> SUFFICES ASSUME NEW x \in Char, NEW y \in Char PROVE Sent(<<65, x, y>>)
  OBVIOUS
<1>1. PICK c : c = 65
  OBVIOUS
<1>2. PICK t, s : t = <<x, y>> /\ s = <<c, x, y>>
  OBVIOUS
<1>3. c \in WithArguments /\ c \in Char /\ c # 66 /\ Arguments(c) = 2
  BY <1>1, LettersAreChars, ArgumentsIs DEF WithArguments, Char
<1>4. t \in Seq(Char) /\ Len(t) = Arguments(c) /\ s = <<c>> \o t
  BY <1>2, <1>3, SpelledThree
<1>5. Complete(c, t)
  BY <1>3, <1>4, WholeCommand
<1>6. Sent(s)
  BY <1>3, <1>4, <1>5 DEF Sent
<1> QED BY <1>1, <1>2, <1>6

LEMMA ReadSent == \A y \in Char : Sent(<<103, 0, 2, y>>)
<1> SUFFICES ASSUME NEW y \in Char PROVE Sent(<<103, 0, 2, y>>)
  OBVIOUS
<1>1. PICK c, x, n : c = 103 /\ x = 0 /\ n = 2
  OBVIOUS
<1>3. c \in WithArguments /\ c \in Char /\ x \in Char /\ n \in Char /\ c # 66 /\ Arguments(c) = 3
  BY <1>1, LettersAreChars, ArgumentsIs DEF WithArguments, Char
<1>30. c \in Char /\ x \in Char /\ n \in Char
  BY <1>3
<1>31. Spelled(c, x, n, y)
  BY <1>30, SpelledFour
<1>2. PICK t, s : t = <<x, n, y>> /\ s = <<c, x, n, y>>
  OBVIOUS
<1>4. t \in Seq(Char) /\ Len(t) = Arguments(c) /\ s = <<c>> \o t
  BY <1>2, <1>3, <1>31 DEF Spelled
<1>5. Complete(c, t)
  BY <1>3, <1>4, WholeCommand
<1>6. Sent(s)
  BY <1>3, <1>4, <1>5 DEF Sent
<1> QED BY <1>1, <1>2, <1>6

\* Every command that is on its way is a whole one.
LEMMA AllSent ==
  ASSUME AsksFit, OnItsWay
  PROVE  \E what, want, s : Coming(what, want, s) /\ Sent(s)
<1>0. \A c \in {69, 101} : c \in Char \ WithArguments
  BY DEF Char, WithArguments
<1>1. CASE ComingDevice
  <2>1. 84 \in WithArguments /\ Arguments(84) = 1 /\ DevType \in Char
    BY SizesFacts, LettersAreChars, ArgumentsIs DEF WithArguments
  <2>2. Sent(<<84, DevType>>)
    BY <2>1, OneArgument
  <2> QED BY <1>1, <2>2 DEF ComingDevice
<1>2. CASE ComingAddress
  <2>1. PICK w \in Addresses : Coming("cr", 1, <<65, High(w), Low(w)>>)
    BY <1>2 DEF ComingAddress
  <2>2. High(w) \in Char /\ Low(w) \in Char
    BY HostAssumption, Halves
  <2> QED BY <2>1, <2>2, AddressSent
<1>3. CASE ComingAsk
  <2>1. PICK q \in Asks : Coming("ask", q.want, q.bytes)
    BY <1>3 DEF ComingAsk
  <2>2. Sent(q.bytes)
    <3>1. CASE \E c \in Char \ (WithArguments \union {69, 101}) : q.bytes = <<c>>
      BY <3>1 DEF Sent
    <3>2. CASE \E c \in {120, 121}, x \in Char : q.bytes = <<c, x>>
      <4>1. PICK c \in {120, 121}, x \in Char : q.bytes = <<c, x>>
        BY <3>2
      <4>2. Arguments(120) = 1 /\ Arguments(121) = 1
        BY LettersAreChars, ArgumentsIs
      <4>3. PICK k : k = c
        OBVIOUS
      <4>4. k \in WithArguments /\ Arguments(k) = 1 /\ k # 66
        BY <4>1, <4>2, <4>3 DEF WithArguments
      <4>5. Sent(<<k, x>>)
        BY <4>4, OneArgument
      <4> QED BY <4>1, <4>3, <4>5
    <3> QED BY <3>1, <3>2 DEF AsksFit
  <2> QED BY <2>1, <2>2
<1>4. CASE ComingErase
  <2>1. Sent(<<101>>)
    BY <1>0 DEF Sent
  <2> QED BY <1>4, <2>1 DEF ComingErase
<1>5. CASE ComingExit
  <2>1. Sent(<<69>>)
    BY <1>0 DEF Sent
  <2> QED BY <1>5, <2>1 DEF ComingExit
<1>6. CASE \E m \in {"FLASH", "EEPROM"} : ComingRead(m)
  <2>1. PICK m \in {"FLASH", "EEPROM"} : ComingRead(m)
    BY <1>6
  <2>2. PICK y : y = TypeOf(m)
    OBVIOUS
  <2>3. Sent(<<103, 0, 2, y>>)
    BY <2>2, TypeOfIs, ReadSent
  <2> QED BY <2>1, <2>2, <2>3 DEF ComingRead
<1>7. CASE \E b \in Blocks : ComingBlock(b)
  <2>1. PICK b \in Blocks : ComingBlock(b)
    BY <1>7
  <2>2. PICK t, s : t = BlockArgs(b) /\ s = BlockBytes(b)
    OBVIOUS
  <2>3. t \in Seq(Char) /\ s = <<66>> \o t /\ Complete(66, t) /\ 66 \in WithArguments
    BY <2>2, BlockArguments DEF WithArguments
  <2>4. Sent(s)
    BY <2>3 DEF Sent
  <2> QED BY <2>1, <2>2, <2>4 DEF ComingBlock
<1> QED BY <1>1, <1>2, <1>3, <1>4, <1>5, <1>6, <1>7 DEF OnItsWay

LEMMA NoTimeout ==
  ASSUME AsksFit, TypeInv, Agreed, InSession
  PROVE  ~HostTimeout
<1> SUFFICES ASSUME HostTimeout PROVE FALSE
  OBVIOUS
<1>1. /\ host.pc = "await" /\ tx = <<>> /\ rx = <<>> /\ erasing = None
      /\ (cmd = None \/ ~Complete(cmd, args)) /\ LoaderInv
  BY DEF HostTimeout, LoaderQuiet, InSession, TypeInv
<1>2. ~Calling /\ ~Answered /\ ~ErasingAll
  BY <1>1 DEF Calling, Answered, ErasingAll
<1>3. OnItsWay
  BY <1>1, <1>2, Phases
<1>4. PICK what, want, s : Coming(what, want, s) /\ Sent(s)
  BY <1>3, AllSent
<1> QED BY <1>1, <1>4, SentIsTaken

-----------------------------------------------------------------------------
(* All steps. *)

\* The application keeps running.
LEMMA AppStays ==
  ASSUME TypeInv, [Next]_vars, mode = "app", resets \in Nat, resets' = resets
  PROVE  mode' = "app"
<1>1. CASE Loader
  <2>1. ~WaitCharacter /\ ~WaitTick /\ ~Blink /\ ~CommandLetter /\ ~CommandErase /\ ~ErasePage /\ ~CommandExit
        /\ ~Argument /\ ~WatchdogReset
    BY DEF WaitCharacter, WaitTick, Blink, CommandLetter, CommandErase, ErasePage, CommandExit, Argument,
           Listening, WatchdogReset
  <2>2. ~SetAddress /\ ~SetDevice /\ ~LedIgnored /\ ~LoadBlock /\ ~ReadBlock
    BY DEF SetAddress, SetDevice, LedIgnored, LoadBlock, ReadBlock, Carry
  <2>3. AppIgnores
    BY <1>1, <2>1, <2>2 DEF Loader
  <2>4. mode' = mode
    BY <2>3 DEF AppIgnores, loaderVars
  <2> QED BY <2>4
<1>2. CASE Host
  <2>1. \A bytes, what, want : Asking(bytes, what, want) => mode' = mode
    BY DEF Asking, loaderVars
  <2>2. HostConnect => mode' = mode
    BY DEF HostConnect, loaderVars
  <2>3. HostConnect \/ \E bytes, what, want : Asking(bytes, what, want)
    BY <1>2 DEF Host, HostSetDevice, HostAsk, HostSetAddress, HostErase, HostBlock, HostRead, HostExit
  <2> QED BY <2>1, <2>2, <2>3
<1>3. CASE HostReceives \/ HostTimeout \/ HostEscapes \/ HostSynced \/ LoseToLoader \/ LoseToHost \/ UNCHANGED vars
  BY <1>3 DEF HostReceives, HostTimeout, HostEscapes, HostSynced, LoseToLoader, LoseToHost, vars, loaderVars
<1> QED BY <1>1, <1>2, <1>3 DEF Next, HostProceeds, PowerFails

LEMMA LoaderAgrees ==
  ASSUME AsksFit, WholeWords, TypeInv, Loader, Agreed, InSession
  PROVE  Agreed' /\ mode' # "hung" /\ UNCHANGED <<losses, resets>>
<1>1. CASE Unconnected \/ Ready \/ Answered
  BY <1>1, RestsOn DEF Agreed
<1>2. CASE Calling
  BY <1>2, CallComes DEF Agreed
<1>3. CASE ErasingAll
  BY <1>3, EraseGoesOn DEF Agreed
<1>4. CASE OnItsWay
  <2>1. CASE ComingDevice
    BY <2>1, DeviceComes DEF Agreed, OnItsWay
  <2>2. CASE ComingAddress
    BY <2>2, AddressComes DEF Agreed, OnItsWay
  <2>3. CASE ComingAsk
    BY <2>3, AskComes DEF Agreed, OnItsWay
  <2>4. CASE ComingErase
    BY <2>4, EraseComes DEF Agreed, OnItsWay
  <2>5. CASE ComingExit
    BY <2>5, ExitComes DEF Agreed, OnItsWay
  <2>6. CASE \E m \in {"FLASH", "EEPROM"} : ComingRead(m)
    BY <2>6, ReadComes DEF Agreed, OnItsWay
  <2>7. CASE \E b \in Blocks : ComingBlock(b)
    BY <2>7, BlockComes DEF Agreed, OnItsWay
  <2> QED BY <1>4, <2>1, <2>2, <2>3, <2>4, <2>5, <2>6, <2>7 DEF OnItsWay
<1> QED BY <1>1, <1>2, <1>3, <1>4 DEF Agreed

LEMMA AgreedStutters ==
  ASSUME UNCHANGED vars, Agreed
  PROVE  Agreed'
<1>1. UNCHANGED <<mode, cmd, args, erasing, address, device, flash, eeprom, rx, tx, host, hostAddr, selected, image>>
  BY DEF vars, loaderVars, memVars, lineVars, hostVars
<1>2. /\ Holds' = Holds /\ Settings' = Settings /\ AtRest' = AtRest /\ Up' = Up /\ NoFlash' = NoFlash
      /\ FlashBlank' = FlashBlank /\ Memory' = Memory
  BY <1>1 DEF Holds, Settings, AtRest, Up, NoFlash, FlashBlank, Memory
<1>3. /\ \A what, want, s : Coming(what, want, s) => Coming(what, want, s)'
      /\ \A what, want : Awaits(what, want) => Awaits(what, want)'
      /\ \A m : From(m)' = From(m) /\ ByteAddr(m)' = ByteAddr(m)
  BY <1>1, <1>2 DEF Coming, Awaits, Way, From, ByteAddr
<1>4. Unconnected \/ Calling \/ Ready => (Unconnected \/ Calling \/ Ready)'
  BY <1>1, <1>2, <1>3 DEF Unconnected, Calling, Ready
<1>5. Answered => Answered'
  <2>1. Matches => Matches'
    BY <1>1, <1>3 DEF Matches
  <2> QED BY <1>1, <1>2, <2>1 DEF Answered
<1>6. ErasingAll => ErasingAll'
  BY <1>1, <1>2, <1>3 DEF ErasingAll
<1>7. OnItsWay => OnItsWay'
  <2>1. ComingDevice => ComingDevice'
    BY <1>1, <1>2, <1>3 DEF ComingDevice
  <2>2. ComingAddress => ComingAddress'
    BY <1>1, <1>2, <1>3 DEF ComingAddress
  <2>3. ComingAsk => ComingAsk'
    BY <1>1, <1>2, <1>3 DEF ComingAsk
  <2>4. ComingErase => ComingErase'
    BY <1>1, <1>2, <1>3 DEF ComingErase
  <2>5. ComingExit => ComingExit'
    BY <1>1, <1>2, <1>3 DEF ComingExit
  <2>6. \A m \in {"FLASH", "EEPROM"} : ComingRead(m) => ComingRead(m)'
    BY <1>1, <1>2, <1>3 DEF ComingRead
  <2>7. ASSUME NEW b \in Blocks, ComingBlock(b) PROVE ComingBlock(b)'
    <3>1. Cells(b)' = Cells(b) /\ BlockBytes(b)' = BlockBytes(b)
      BY <1>3 DEF Cells, BlockBytes
    <3> QED BY <1>1, <1>2, <1>3, <2>7, <3>1 DEF ComingBlock
  <2> QED BY <2>1, <2>2, <2>3, <2>4, <2>5, <2>6, <2>7 DEF OnItsWay
<1> QED BY <1>4, <1>5, <1>6, <1>7 DEF Agreed

LEMMA StartsAgreed == Init => Unconnected /\ mode # "hung"
<1> SUFFICES ASSUME Init PROVE Unconnected /\ mode # "hung"
  OBVIOUS
<1>1. host.pc = "off" /\ mode = "wait" /\ rx = <<>>
  BY DEF Init, Idle
<1>2. Holds
  <2>1. /\ DOMAIN image = {"FLASH", "EEPROM"}
        /\ image["FLASH"] = [a \in 0..(FlashSize - 1) |-> NoPromise]
        /\ image["EEPROM"] = [a \in 0..(EepromSize - 1) |-> NoPromise]
    BY DEF Init
  <2>2. \A m \in {"FLASH", "EEPROM"} : \A a \in DOMAIN image[m] : image[m][a] = NoPromise
    BY <2>1
  <2> QED BY <2>1, <2>2 DEF Holds
<1> QED BY <1>1, <1>2 DEF Unconnected

LEMMA CleanInit == Init => CleanInv
BY StartsAgreed DEF CleanInv, Agreed

LEMMA CleanNext ==
  ASSUME AsksFit, WholeWords
  PROVE  TypeInv /\ Shapes /\ CleanInv /\ [Next]_vars => CleanInv'
<1> SUFFICES ASSUME TypeInv, Shapes, CleanInv, [Next]_vars, losses' = 0, resets' = 0
             PROVE  mode' = "app" \/ (Agreed' /\ mode' # "hung")
  BY DEF CleanInv
<1>0. losses \in Nat /\ resets \in Nat
  BY DEF TypeInv, HostInv, Shapes
<1>1. ~PowerFails /\ ~LoseToLoader /\ ~LoseToHost
  BY <1>0 DEF PowerFails, LoseToLoader, LoseToHost
<1>2. losses = 0 /\ resets = 0
  <2>1. Loader \/ Host \/ HostProceeds \/ UNCHANGED vars => UNCHANGED <<losses, resets>>
    <3>1. \A bytes, what, want : Asking(bytes, what, want) => UNCHANGED <<losses, resets>>
      BY DEF Asking
    <3>2. Host => HostConnect \/ \E bytes, what, want : Asking(bytes, what, want)
      BY DEF Host, HostSetDevice, HostAsk, HostSetAddress, HostErase, HostBlock, HostRead, HostExit
    <3>3. HostConnect \/ HostProceeds \/ UNCHANGED vars => UNCHANGED <<losses, resets>>
      BY DEF HostConnect, HostProceeds, HostReceives, HostTimeout, HostEscapes, HostSynced, vars
    <3>4. Loader => UNCHANGED <<losses, resets>>
      BY DEF Loader, WaitCharacter, WaitTick, Blink, CommandLetter, CommandErase, ErasePage, CommandExit,
             Argument, SetAddress, SetDevice, LedIgnored, LoadBlock, ReadBlock, WatchdogReset, Restarts, AppIgnores
    <3> QED BY <3>1, <3>2, <3>3, <3>4
  <2> QED BY <1>1, <2>1 DEF Next
<1>3. CASE mode = "app"
  BY <1>0, <1>2, <1>3, AppStays
<1>4. CASE Agreed /\ InSession
  <2>1. mode # "hung"
    BY <1>4 DEF InSession
  <2>2. CASE UNCHANGED vars
    <3>1. mode' = mode
      BY <2>2 DEF vars, loaderVars
    <3> QED BY <1>4, <2>1, <2>2, <3>1, AgreedStutters
  <2>3. CASE Loader
    BY <1>4, <2>3, LoaderAgrees
  <2>4. CASE Host
    BY <1>4, <2>1, <2>4, HostAsksOn
  <2>5. CASE HostProceeds
    <3>1. host.pc # "sync"
      BY <1>4, Phases
    <3>2. HostReceives
      BY <1>4, <2>5, <3>1, NoTimeout DEF HostProceeds, HostEscapes, HostSynced
    <3>3. Answered
      <4>1. host.pc = "await" /\ tx # <<>>
        BY <3>2 DEF HostReceives
      <4>2. ~Calling /\ ~ErasingAll
        BY <4>1 DEF Calling, ErasingAll
      <4> QED BY <1>4, <4>1, <4>2, Phases
    <3> QED BY <2>1, <3>2, <3>3, AnswerTaken
  <2> QED BY <1>1, <2>2, <2>3, <2>4, <2>5 DEF Next
<1> QED BY <1>2, <1>3, <1>4 DEF CleanInv, InSession

LEMMA ShapesInit == Init => Shapes
BY SeqsOne DEF Init, Shapes, HostShape, Idle

\* On a line without losses no command fails or goes unanswered, and a read brings the bytes that
\* were acknowledged: the host never has to start over, until the application has taken over.
\* For a host whose questions have the answers it expects, and that programs whole words inside a page,
\* blocks of a whole page included.
THEOREM CleanSession ==
  ASSUME AsksFit, WholeWords
  PROVE  Spec => []CleanLineWorks
<1>1. Spec => [](TypeInv /\ Shapes /\ CleanInv)
  BY InitType, NextType, ShapesInit, ShapesKept, CleanInit, CleanNext, PTL DEF Spec
<1>2. CleanInv => CleanLineWorks
  <2>1. Agreed => host.pc # "sync"
    BY Phases
  <2> QED BY <2>1 DEF CleanInv, CleanLineWorks
<1> QED BY <1>1, <1>2, PTL

-----------------------------------------------------------------------------
(* The session when one character is lost, and the power may fail at any time.  Loader and host agree,
   or the host synchronises and counts on nothing in memory, or they have come apart in one of ten
   ways, each of which ends without an acknowledgement of what was not stored. *)

Down == mode \in {"off", "wait", "app"}
HostWaits == host.pc = "await"

\* The answer has too few characters, and nothing more will come.
NoMore == HostWaits /\ rx = <<>> /\ AtRest /\ Len(tx) < host.want
\* The loader was reset under the host, which does not know yet.
Left == HostWaits /\ Down /\ rx = <<>> /\ Holds /\ (host.what = "erase" => FlashBlank)
Unaware == host.pc = "idle" /\ Down /\ rx = <<>> /\ Holds
\* A command to a loader that does not listen.
Unheard ==
  /\ HostWaits /\ host.what # "connect" /\ Down /\ tx = <<>>
  /\ \A i \in 1..Len(rx) : rx[i] = Start => host.what = "cr"
  /\ mode = "wait" /\ losses = 0 /\ rx # <<>> => Head(rx) \notin {Start, ESC}
\* The answer is not what the host expects.
Mismatched == HostWaits /\ losses = 1 /\ tx # <<>> /\ ~Expected(Head(tx))
\* An argument is missing.
Short == HostWaits /\ losses = 1 /\ cmd # None /\ tx = <<>> /\ Len(args \o rx) < Needed(cmd, args \o rx)
\* The letter is missing: of a command that is acknowledged, of a read, of a question.
Headless == /\ HostWaits /\ losses = 1 /\ host.what = "cr" /\ Up /\ AtRest /\ tx = <<>>
            /\ rx # <<>> /\ (Head(rx) \in NoLetter \/ (rx = <<DevType>> /\ Holds))
\* A read without its letter: what is left of its arguments, which the loader takes for letters.
RestOfRead == UNION {{<<0, 2, t>>, <<2, t>>, <<t>>, <<>>} : t \in {FlashType, EepromType}}
Muttering == /\ losses = 1 /\ Up /\ AtRest /\ Holds /\ rx \in RestOfRead
ReadGone == Muttering /\ HostWaits /\ host.what \in {"FLASH", "EEPROM"} /\ Len(rx) + Len(tx) > host.want
Stuck == Muttering /\ host.pc = "idle" /\ Len(rx) + Len(tx) > 0
\* A question without its letter, or what its argument brought.
AskLoose == /\ losses = 1 /\ HostWaits /\ host.what = "ask" /\ Up /\ AtRest /\ Settings /\ Holds
            /\ \/ rx = <<>> /\ mode = "loader"
               \/ tx = <<>> /\ \E x \in Char \ {101} : rx = <<x>>
\* The host starts over and counts on nothing.
Syncing == /\ host.pc = "sync" /\ hostAddr = None /\ ~selected
           /\ \A m \in DOMAIN image : \A a \in DOMAIN image[m] : image[m][a] = NoPromise

Apart == NoMore \/ Left \/ Unaware \/ Unheard \/ Mismatched \/ Short \/ Headless \/ ReadGone \/ Stuck \/ AskLoose
Story == Agreed \/ Apart \/ Syncing
KeptInv == losses <= 1 /\ (HostWaits => host.want > 0) /\ Story

-----------------------------------------------------------------------------
(* The host gives up, or takes a character. *)

LEMMA LostSyncs == ASSUME HostInv, Lost PROVE Syncing'
<1>1. /\ DOMAIN image' = DOMAIN image
      /\ \A m \in DOMAIN image : image'[m] = [a \in DOMAIN image[m] |-> NoPromise]
  BY DEF Lost, Nothing
<1>2. \A m \in DOMAIN image' : \A a \in DOMAIN image'[m] : image'[m][a] = NoPromise
  BY <1>1
<1> QED BY <1>2 DEF Lost, Syncing, Idle

\* What the host acknowledges to itself is in memory.
LEMMA HoldsTaken ==
  ASSUME TypeInv, HostReceives, Expected(Head(tx)), Holds, host.what = "erase" => FlashBlank
  PROVE  Holds'
<1>1. /\ DOMAIN image = {"FLASH", "EEPROM"} /\ DOMAIN image["FLASH"] = DOMAIN flash
      /\ image' = IF host.what = "erase" THEN [image EXCEPT !["FLASH"] = [a \in DOMAIN @ |-> Blank]]
                  ELSE image
      /\ UNCHANGED <<flash, eeprom>>
  BY DEF HostReceives, memVars, TypeInv, HostInv, LoaderInv
<1>2. CASE host.what = "erase"
  <2>1. /\ DOMAIN image' = DOMAIN image /\ image'["EEPROM"] = image["EEPROM"]
        /\ image'["FLASH"] = [a \in DOMAIN image["FLASH"] |-> Blank]
    BY <1>1, <1>2
  <2> SUFFICES ASSUME NEW m \in {"FLASH", "EEPROM"}, NEW a \in DOMAIN image'[m]
               PROVE  image'[m][a] \in {NoPromise, Memory'[m][a]}
    BY <1>1, <2>1 DEF Holds
  <2>2. CASE m = "FLASH"
    <3>1. image'[m][a] = Blank /\ a \in DOMAIN flash
      BY <1>1, <2>1, <2>2
    <3>2. Memory'[m][a] = flash[a] /\ flash[a] = Blank
      BY <1>1, <1>2, <2>2, <3>1 DEF Memory, FlashBlank
    <3> QED BY <3>1, <3>2
  <2>3. CASE m = "EEPROM"
    BY <1>1, <2>1, <2>3 DEF Holds, Memory
  <2> QED BY <2>2, <2>3
<1>3. CASE host.what # "erase"
  BY <1>1, <1>3, HoldsKept
<1> QED BY <1>2, <1>3

\* The host starts over, goes on waiting, or has the whole answer.
LoaderSame == UNCHANGED <<mode, cmd, args, erasing, address, device, flash, eeprom>>
LEMMA Takes ==
  ASSUME TypeInv, Shapes, HostReceives
  PROVE  /\ HostWaits /\ tx # <<>> /\ UNCHANGED losses
         /\ \/ Syncing'
            \/ /\ Expected(Head(tx)) /\ tx' = Tail(tx) /\ LoaderSame /\ UNCHANGED <<rx, hostAddr, selected>>
               /\ host.what # "erase" => image' = image
               /\ \/ host.want > 1 /\ HostWaits' /\ host'.want = host.want - 1 /\ host'.what = host.what
                  \/ ~(host.want > 1) /\ host.what = "exit" /\ host'.pc = "off"
                  \/ ~(host.want > 1) /\ host.what # "exit" /\ host'.pc = "idle"
<1>1. HostWaits /\ tx # <<>> /\ UNCHANGED losses /\ tx' = Tail(tx) /\ LoaderSame /\ UNCHANGED rx
  BY DEF HostReceives, HostWaits, LoaderSame, loaderVars, memVars
<1>2. CASE ~Expected(Head(tx))
  <2>1. Lost
    BY <1>2 DEF HostReceives
  <2> QED BY <1>1, <2>1, LostSyncs DEF TypeInv
<1>3. CASE Expected(Head(tx))
  <2>1. /\ host' = CASE host.want > 1 -> [host EXCEPT !.want = @ - 1]
                       [] host.what = "exit" -> [Idle EXCEPT !.pc = "off"]
                       [] OTHER -> Idle
        /\ UNCHANGED <<hostAddr, selected>>
        /\ host.what # "erase" => image' = image
    BY <1>3 DEF HostReceives
  <2>2. PICK p, w, k : host = [pc |-> p, want |-> w, what |-> k] /\ w \in Nat /\ (k = "exit" => w <= 1)
    BY DEF Shapes, HostShape
  <2>3. host.want = w /\ host.what = k /\ host.pc = p /\ p = "await"
    BY <1>1, <2>2 DEF HostWaits
  <2>4. CASE host.want > 1
    <3>1. host' = [host EXCEPT !.want = w - 1]
      BY <2>1, <2>2, <2>3, <2>4
    <3>2. host' = [pc |-> p, want |-> w - 1, what |-> k]
      BY <2>2, <3>1
    <3>3. HostWaits' /\ host'.want = host.want - 1 /\ host'.what = host.what
      BY <2>3, <3>2 DEF HostWaits
    <3> QED BY <1>1, <1>3, <2>1, <2>4, <3>3
  <2>5. CASE ~(host.want > 1) /\ host.what = "exit"
    <3>1. host' = [Idle EXCEPT !.pc = "off"]
      BY <2>1, <2>5
    <3>2. host'.pc = "off"
      BY <3>1 DEF Idle
    <3> QED BY <1>1, <1>3, <2>1, <2>5, <3>2
  <2>6. CASE ~(host.want > 1) /\ host.what # "exit"
    <3>1. host'.pc = "idle"
      BY <2>1, <2>6 DEF Idle
    <3> QED BY <1>1, <1>3, <2>1, <2>6, <3>1
  <2> QED BY <2>4, <2>5, <2>6
<1> QED BY <1>2, <1>3

-----------------------------------------------------------------------------
(* The loader, when nothing comes. *)

LEMMA LoaderRests ==
  ASSUME LoaderInv, Loader, rx = <<>>, AtRest
  PROVE  /\ UNCHANGED <<cmd, args, erasing, flash, eeprom, rx, tx, hostVars, losses>>
         /\ Down => Down'
         /\ Up => Up' /\ mode' = "loader" /\ UNCHANGED <<address, device>>
<1>1. CASE InSession
  BY <1>1, Idling DEF Down, Up, InSession
<1>2. CASE ~InSession
  <2>1. ~WaitCharacter /\ ~WaitTick /\ ~Blink /\ ~WatchdogReset /\ ~AppIgnores /\ ~ErasePage
    BY <1>2 DEF InSession, WaitCharacter, WaitTick, Blink, WatchdogReset, AppIgnores, ErasePage
  <2>2. ~CommandLetter /\ ~CommandErase /\ ~CommandExit /\ ~Argument
    BY DEF CommandLetter, CommandErase, CommandExit, Argument, Listening
  <2>3. ~SetAddress /\ ~SetDevice /\ ~LedIgnored /\ ~LoadBlock /\ ~ReadBlock
    BY DEF SetAddress, SetDevice, LedIgnored, LoadBlock, ReadBlock, Carry, AtRest, None
  <2> QED BY <2>1, <2>2, <2>3 DEF Loader
<1> QED BY <1>1, <1>2

LEMMA HoldsRests ==
  ASSUME Holds, UNCHANGED <<flash, eeprom, hostVars>>
  PROVE  Holds' /\ (FlashBlank => FlashBlank')
BY HoldsKept DEF hostVars, FlashBlank

LEMMA ExpectedSame ==
  ASSUME UNCHANGED <<host, hostAddr, image>>, NEW c
  PROVE  Expected(c)' = Expected(c)
<1>1. \A m : ByteAddr(m)' = ByteAddr(m)
  BY DEF ByteAddr
<1> QED BY <1>1 DEF Expected

LEMMA JoinHead ==
  ASSUME NEW p, NEW q, AnySeq(p), AnySeq(q), p # <<>>
  PROVE  p \o q # <<>> /\ Head(p \o q) = Head(p)
<1>1. PICK S : p \in Seq(S)
  BY DEF AnySeq
<1>2. PICK R : q \in Seq(R)
  BY DEF AnySeq
<1>3. PICK U : U = S \union R
  OBVIOUS
<1>4. p \in Seq(U) /\ q \in Seq(U)
  BY <1>1, <1>2, <1>3
<1>5. Len(p) \in Nat /\ Len(p) >= 1 /\ Len(q) \in Nat
  BY <1>4
<1>6. Len(p \o q) = Len(p) + Len(q) /\ (p \o q)[1] = p[1] /\ p \o q \in Seq(U)
  BY <1>4, <1>5, ConcatProperties
<1>7. p \o q # <<>>
  BY <1>5, <1>6
<1> QED BY <1>4, <1>6, <1>7

LEMMA MismatchedLoader ==
  ASSUME TypeInv, Shapes, Loader, Mismatched
  PROVE  Mismatched'
<1>1. PICK q : AnySeq(q) /\ tx' = tx \o q
  BY LoaderAppends
<1>2. tx' # <<>> /\ Head(tx') = Head(tx)
  BY <1>1, JoinHead DEF Shapes, Mismatched
<1>3. UNCHANGED <<host, hostAddr, selected, image, losses>>
  BY LoaderFrame
<1>5. PICK c : c = Head(tx) /\ ~Expected(c)
  BY DEF Mismatched
<1>6. ~Expected(c)'
  BY <1>3, <1>5, ExpectedSame
<1>7. ~Expected(Head(tx))'
  BY <1>2, <1>5, <1>6 DEF Expected, ByteAddr
<1> QED BY <1>2, <1>3, <1>7 DEF Mismatched, HostWaits

LEMMA RestLoader ==
  ASSUME TypeInv, Loader
  PROVE  /\ NoMore => NoMore'
         /\ Left => Left'
         /\ Unaware => Unaware'
<1>1. LoaderInv
  BY DEF TypeInv
<1>2. Down => AtRest
  BY <1>1 DEF Down, LoaderInv, AtRest
<1>3. ASSUME NoMore PROVE NoMore'
  <2>1. UNCHANGED <<cmd, erasing, rx, tx, hostVars>>
    BY <1>1, <1>3, LoaderRests DEF NoMore
  <2> QED BY <1>3, <2>1 DEF NoMore, HostWaits, AtRest, hostVars
<1>4. ASSUME Left PROVE Left'
  <2>1. UNCHANGED <<flash, eeprom, rx, hostVars>> /\ Down'
    BY <1>1, <1>2, <1>4, LoaderRests DEF Left
  <2>2. Holds' /\ (FlashBlank => FlashBlank')
    BY <1>4, <2>1, HoldsRests DEF Left
  <2> QED BY <1>4, <2>1, <2>2 DEF Left, HostWaits, hostVars
<1>5. ASSUME Unaware PROVE Unaware'
  <2>1. UNCHANGED <<flash, eeprom, rx, hostVars>> /\ Down'
    BY <1>1, <1>2, <1>5, LoaderRests DEF Unaware
  <2>2. Holds'
    BY <1>5, <2>1, HoldsRests DEF Unaware
  <2> QED BY <1>5, <2>1, <2>2 DEF Unaware, hostVars
<1> QED BY <1>3, <1>4, <1>5

\* Only CR acknowledges.
LEMMA NotAcknowledged ==
  ASSUME HostInv, UNCHANGED image, host'.what = "cr", tx' # <<>>, Head(tx') # CR, HostWaits', losses' = 1
  PROVE  Mismatched'
<1>1. host'.what \notin DOMAIN image' /\ host'.what # "connect" /\ host'.what \in {"cr", "erase", "exit"}
  BY DEF HostInv
<1>2. ~Expected(Head(tx))'
  BY <1>1 DEF Expected
<1> QED BY <1>2 DEF Mismatched

LEMMA UnheardLoader ==
  ASSUME TypeInv, Shapes, Loader, Unheard, losses <= 1
  PROVE  (Unheard \/ Mismatched)'
<1>1. /\ HostWaits /\ host.what # "connect" /\ mode \in {"off", "wait", "app"} /\ tx = <<>>
      /\ \A i \in 1..Len(rx) : rx[i] = Start => host.what = "cr"
      /\ mode = "wait" /\ losses = 0 /\ rx # <<>> => Head(rx) \notin {Start, ESC}
      /\ rx \in Seq(Char) /\ losses \in Nat
  BY DEF Unheard, Down, TypeInv, LoaderInv, HostInv
<1>2. UNCHANGED <<host, hostAddr, selected, image, losses>>
  BY LoaderFrame
<1>3. ASSUME rx' = <<>>, tx' = tx, mode' \in {"off", "wait", "app"} PROVE Unheard'
  BY <1>1, <1>2, <1>3 DEF Unheard, HostWaits, Down
<1>4. CASE WaitTick \/ WatchdogReset \/ AppIgnores
  <2>1. rx' = <<>> /\ tx' = tx /\ mode' \in {"off", "wait", "app"}
    BY <1>1, <1>4 DEF WaitTick, Waits, WatchdogReset, Restarts, AppIgnores, lineVars, loaderVars
  <2> QED BY <1>3, <2>1
<1>5. CASE WaitCharacter
  <2>1. /\ mode = "wait" /\ rx # <<>> /\ rx' = Tail(rx)
        /\ \/ Head(rx) = Start /\ mode' = "blink" /\ tx' = Append(tx, Boot)
           \/ Head(rx) = ESC /\ tx' = tx
           \/ Head(rx) \notin {Start, ESC} /\ mode' = "app" /\ tx' = tx
    BY <1>5 DEF WaitCharacter
  <2>2. /\ \A i \in 1..Len(Tail(rx)) : Tail(rx)[i] = rx[i + 1] /\ i + 1 \in 1..Len(rx)
        /\ Head(rx) = rx[1] /\ 1 \in 1..Len(rx)
    BY <1>1, <2>1, HeadTailProperties
  <2>3. \A i \in 1..Len(rx') : rx'[i] = Start => host'.what = "cr"
    BY <1>1, <1>2, <2>1, <2>2
  <2>4. CASE Head(rx) = Start
    <3>1. losses = 1 /\ host.what = "cr"
      BY <1>1, <2>1, <2>2, <2>4
    <3>2. tx' = <<Boot>>
      BY <1>1, <2>1, <2>4 DEF Start, ESC
    <3>3. tx' # <<>> /\ Head(tx') = Boot
      BY <3>2
    <3>4. host'.what = "cr" /\ losses' = 1 /\ HostWaits'
      BY <1>1, <1>2, <3>1 DEF HostWaits
    <3>6. Mismatched'
      BY <1>2, <3>3, <3>4, NotAcknowledged DEF TypeInv, Boot, CR
    <3> QED BY <3>6
  <2>5. CASE Head(rx) = ESC
    <3>0. mode' \in {"wait", "app"}
      BY <1>5, <2>1, <2>5 DEF WaitCharacter, Waits, Start, ESC
    <3>1. losses' # 0 /\ mode' \in {"wait", "app"} /\ tx' = <<>>
      BY <1>1, <1>2, <2>1, <2>5, <3>0 DEF Start, ESC
    <3> QED BY <1>1, <1>2, <2>3, <3>1 DEF Unheard, HostWaits, Down
  <2>6. CASE Head(rx) \notin {Start, ESC}
    <3>1. mode' = "app" /\ tx' = <<>>
      BY <1>1, <2>1, <2>6
    <3> QED BY <1>1, <1>2, <2>3, <3>1 DEF Unheard, HostWaits, Down
  <2> QED BY <2>1, <2>4, <2>5, <2>6
<1>6. ~Blink /\ ~CommandLetter /\ ~CommandErase /\ ~ErasePage /\ ~CommandExit /\ ~Argument
  BY <1>1 DEF Blink, CommandLetter, CommandErase, ErasePage, CommandExit, Argument, Listening
<1>7. ~SetAddress /\ ~SetDevice /\ ~LedIgnored /\ ~LoadBlock /\ ~ReadBlock
  BY <1>1 DEF SetAddress, SetDevice, LedIgnored, LoadBlock, ReadBlock, Carry
<1> QED BY <1>4, <1>5, <1>6, <1>7 DEF Loader

\* A list that is too short has no complete beginning.
LEMMA NotYet ==
  ASSUME NEW c \in WithArguments, NEW a \in Seq(Char), NEW r \in Seq(Char), Len(a) <= Needed(c, a),
         NEW u, u = a \o r, Len(u) < Needed(c, u)
  PROVE  ~Complete(c, a)
<1> SUFFICES ASSUME Complete(c, a) PROVE FALSE
  OBVIOUS
<1>1. Len(a) = Needed(c, a)
  BY CompleteIs
<1>2. Len(u) = Len(a) + Len(r) /\ Len(a) \in Nat /\ Len(r) \in Nat
  BY ConcatProperties
<1>3. Needed(c, a) = Needed(c, u)
  <2>1. CASE c = 66
    <3>1. Len(a) >= 3
      <4>1. Len(a) >= Arguments(66) /\ Arguments(66) = 3
        BY <2>1, LettersAreChars, ArgumentsIs DEF Complete
      <4> QED BY <4>1
    <3>2. u[1] = a[1] /\ u[2] = a[2]
      BY <1>2, <3>1, ConcatProperties
    <3>3. Len(u) >= 3
      BY <1>2, <3>1
    <3> QED BY <3>1, <3>2, <3>3 DEF Needed
  <2>2. CASE c # 66
    BY <2>2 DEF Needed
  <2> QED BY <2>1, <2>2
<1> QED BY <1>1, <1>2, <1>3

LEMMA ShortLoader ==
  ASSUME TypeInv, Loader, Short
  PROVE  Short'
<1>1. /\ HostWaits /\ losses = 1 /\ cmd # None /\ tx = <<>> /\ Len(args \o rx) < Needed(cmd, args \o rx)
      /\ cmd \in WithArguments /\ args \in Seq(Char) /\ rx \in Seq(Char) /\ Len(args) <= Needed(cmd, args)
      /\ mode = "loader" /\ erasing = None
  BY DEF Short, TypeInv, LoaderInv
<1>2. ~Complete(cmd, args)
  <2>1. PICK u : u = args \o rx
    OBVIOUS
  <2> QED BY <1>1, <2>1, NotYet
<1>3. ~WaitCharacter /\ ~WaitTick /\ ~Blink /\ ~WatchdogReset /\ ~AppIgnores /\ ~ErasePage
  BY <1>1 DEF WaitCharacter, WaitTick, Blink, WatchdogReset, AppIgnores, ErasePage
<1>4. ~CommandLetter /\ ~CommandErase /\ ~CommandExit
  BY <1>1 DEF CommandLetter, CommandErase, CommandExit
<1>5. ~SetAddress /\ ~SetDevice /\ ~LedIgnored /\ ~LoadBlock /\ ~ReadBlock
  BY <1>2 DEF SetAddress, SetDevice, LedIgnored, LoadBlock, ReadBlock, Carry
<1>6. Argument
  BY <1>3, <1>4, <1>5 DEF Loader
<1>7. /\ rx # <<>> /\ rx' = Tail(rx) /\ args' = Append(args, Head(rx)) /\ UNCHANGED <<cmd, tx, host, losses>>
  BY <1>6 DEF Argument, Received, Listening, hostVars
<1>8. Head(rx) \in Char /\ Tail(rx) \in Seq(Char) /\ rx = <<Head(rx)>> \o Tail(rx) /\ <<Head(rx)>> \in Seq(Char)
  BY <1>1, <1>7
<1>9. args' = args \o <<Head(rx)>>
  BY <1>1, <1>7, <1>8, AppendIsConcat
<1>10. args' \o rx' = args \o (<<Head(rx)>> \o Tail(rx))
  BY <1>1, <1>7, <1>8, <1>9, ConcatAssociative
<1>11. args' \o rx' = args \o rx
  BY <1>8, <1>10
<1>12. Len(args' \o rx') < Needed(cmd', args' \o rx')
  BY <1>1, <1>7, <1>11
<1> QED BY <1>1, <1>7, <1>12 DEF Short, HostWaits

LEMMA KeptHead ==
  ASSUME NEW q \in Seq(Char), q # <<>>, NEW r \in Kept(q)
  PROVE  r # <<>> /\ Head(r) = Head(q)
<1>1. PICK n \in Smaller(3, Len(q))..Len(q) : r = SubSeq(q, 1, n)
  BY DEF Kept
<1>2. Len(q) \in Nat /\ Len(q) >= 1
  BY <1>1
<1>3. n \in 1..Len(q)
  BY <1>1, <1>2 DEF Smaller
<1>4. r \in Seq(Char) /\ Len(r) = n /\ r[1] = q[1]
  BY <1>1, <1>2, <1>3
<1> QED BY <1>3, <1>4

\* Two steps of a loader at rest, without what they leave alone.
Blinks ==
  /\ mode = "blink" /\ mode' = "loader" /\ rx' \in Kept(rx)
  /\ UNCHANGED <<cmd, args, erasing, address, device, flash, eeprom, tx>>
TakesLetter ==
  /\ mode = "loader" /\ mode' = "loader" /\ rx' = Tail(rx) /\ Head(rx) \in Char \ {69, 101}
  /\ Head(rx) \in WithArguments => cmd' = Head(rx) /\ tx' = tx
  /\ Head(rx) \notin WithArguments => cmd' = None /\ tx' = tx \o Answer(Head(rx))
  /\ UNCHANGED <<args, erasing, address, device, flash, eeprom>>

\* What the loader does with a letter while it is at rest.
LEMMA LetterTaken ==
  ASSUME LoaderInv, Loader, Up, AtRest, rx # <<>>
  PROVE  \/ Blinks
         \/ mode = "loader" /\ Head(rx) = 101 /\ CommandErase
         \/ mode = "loader" /\ Head(rx) = 69 /\ CommandExit
         \/ TakesLetter
<1>1. /\ mode \in {"blink", "loader"} /\ cmd = None /\ erasing = None /\ rx \in Seq(Char) /\ Head(rx) \in Char
      /\ Tail(rx) \in Seq(Char)
  BY DEF Up, AtRest, LoaderInv
<1>2. ~WaitCharacter /\ ~WaitTick /\ ~WatchdogReset /\ ~AppIgnores /\ ~ErasePage /\ ~Argument
  BY <1>1 DEF WaitCharacter, WaitTick, WatchdogReset, AppIgnores, ErasePage, Argument
<1>3. ~SetAddress /\ ~SetDevice /\ ~LedIgnored /\ ~LoadBlock /\ ~ReadBlock
  BY <1>1 DEF SetAddress, SetDevice, LedIgnored, LoadBlock, ReadBlock, Carry, None
<1>4. CASE Blink
  BY <1>4 DEF Blink, Blinks, memVars
<1>5. CASE CommandErase
  BY <1>5 DEF CommandErase, Listening
<1>6. CASE CommandExit
  BY <1>6 DEF CommandExit, Listening
<1>7. CASE CommandLetter
  <2>1. /\ mode = "loader" /\ mode' = "loader" /\ rx' = Tail(rx) /\ Head(rx) \in Char \ {69, 101}
        /\ UNCHANGED <<args, erasing, address, device, flash, eeprom>>
        /\ IF Arguments(Head(rx)) > 0 THEN cmd' = Head(rx) /\ UNCHANGED tx
                                ELSE tx' = tx \o Answer(Head(rx)) /\ UNCHANGED cmd
    BY <1>1, <1>7 DEF CommandLetter, Listening, Received, Replies, memVars
  <2>2. Arguments(Head(rx)) > 0 <=> Head(rx) \in WithArguments
    BY <1>1, ArgumentsIs
  <2> QED BY <1>1, <2>1, <2>2 DEF TakesLetter
<1> QED BY <1>2, <1>3, <1>4, <1>5, <1>6, <1>7 DEF Loader

LEMMA ShortNow ==
  ASSUME NEW c \in WithArguments
  PROVE  Len(<<>> \o <<>>) < Needed(c, <<>> \o <<>>)
<1> PICK e : e = <<>>
  OBVIOUS
<1>1. e \in Seq(Char) /\ Len(e) = 0
  OBVIOUS
<1>2. <<>> \o <<>> = e
  OBVIOUS
<1>3. Needed(c, e) = Arguments(c)
  BY <1>1 DEF Needed
<1>4. Arguments(c) > 0 /\ Arguments(c) \in Nat
  BY LettersAreChars, ArgumentsIs
<1> QED BY <1>1, <1>2, <1>3, <1>4

\* The answer to a letter that is no acknowledgement.
LEMMA NoAck ==
  ASSUME Unmistakable, NEW c, c \in NoLetter \/ c = DevType, c \notin WithArguments
  PROVE  Answer(c) = <<>> \/ Head(Answer(c)) # CR
<1>1. DevType \notin {76, 80, 101} /\ DevType \in Nat
  BY SizesFacts DEF Unmistakable, Char
<1>2. \A x, y, z : Head(<<x>>) = x /\ Head(<<x, y>>) = x /\ Head(<<x, y, z>>) = x
  OBVIOUS
<1>21. CASE c \in NoLetter
  <2>1. Answer(c) = <<63>>
    BY <1>21 DEF NoLetter
  <2> QED BY <1>2, <2>1 DEF CR
<1>3. CASE c = 116 /\ c = DevType
  <2>0. DevType = 116
    BY <1>3
  <2>1. Answer(c) = <<DevType, 0>>
    BY <1>3 DEF Answer, ESC
  <2>2. Head(Answer(c)) = 116
    BY <1>2, <2>0, <2>1
  <2> QED BY <1>3, <2>2 DEF CR
<1>4. CASE c # 116 /\ c = DevType
  <2>1. c \notin {80, 76, 116}
    BY <1>1, <1>4
  <2>2. \/ Answer(c) = <<>>
        \/ \E x \in {89, 83, Garbage, Boot, 48, 63} :
             Answer(c) = <<x>> \/ \E y, z : Answer(c) = <<x, y>> \/ Answer(c) = <<x, y, z>>
    <3>1. \A x, y, z : <<x, y, z>> = <<x, y, z>>
      OBVIOUS
    <3> QED BY <2>1 DEF Answer
  <2>3. CASE Answer(c) = <<>>
    BY <2>1, <2>3
  <2>4. CASE Answer(c) # <<>>
    <3>1. Head(Answer(c)) \in {89, 83, Garbage, Boot, 48, 63}
      BY <1>2, <2>2, <2>4
    <3> QED BY <2>1, <3>1 DEF Garbage, Boot, CR
  <2> QED BY <2>3, <2>4
<1> QED BY <1>21, <1>3, <1>4

LEMMA HeadlessLoader ==
  ASSUME Unmistakable, TypeInv, Loader, Headless, host.want > 0
  PROVE  (Headless \/ Short \/ NoMore \/ Mismatched \/ Left)'
<1>1. /\ HostWaits /\ losses = 1 /\ host.what = "cr" /\ Up /\ AtRest /\ tx = <<>> /\ rx # <<>>
      /\ Head(rx) \in NoLetter \/ (rx = <<DevType>> /\ Holds)
      /\ LoaderInv /\ rx \in Seq(Char) /\ args = <<>>
  BY DEF Headless, TypeInv, LoaderInv, AtRest
<1>2. UNCHANGED <<host, hostAddr, selected, image, losses>>
  BY LoaderFrame
<1>3. Head(rx) \in NoLetter \/ (Head(rx) = DevType /\ Tail(rx) = <<>> /\ Holds)
  <2>1. Head(<<DevType>>) = DevType /\ Tail(<<DevType>>) = <<>>
    OBVIOUS
  <2> QED BY <1>1, <2>1
<1>4. CASE Blinks
  <2>1. rx' # <<>> /\ Head(rx') = Head(rx)
    BY <1>1, <1>4, KeptHead DEF Blinks
  <2>2. rx = <<DevType>> => rx' = rx
    <3>1. rx = <<DevType>> => Len(rx) <= 3
      OBVIOUS
    <3> QED BY <1>1, <1>4, <3>1, KeptType DEF Blinks
  <2>3. Up' /\ AtRest' /\ HostWaits'
    BY <1>1, <1>2, <1>4 DEF Up, AtRest, HostWaits, Blinks
  <2>4. Holds => Holds'
    BY <1>2, <1>4, HoldsKept DEF Blinks
  <2>5. Head(rx') \in NoLetter \/ (rx' = <<DevType>> /\ Holds')
    BY <1>1, <2>1, <2>2, <2>4
  <2>6. tx' = <<>> /\ losses' = 1 /\ host'.what = "cr"
    BY <1>1, <1>2, <1>4 DEF Blinks
  <2>7. Headless'
    BY <2>1, <2>3, <2>5, <2>6 DEF Headless
  <2> QED BY <2>7
<1>5. Head(rx) # 101
  <2>1. DevType # 101
    BY DEF Unmistakable
  <2> QED BY <1>3, <2>1 DEF NoLetter
<1>6. CASE TakesLetter
  <2>1. CASE Head(rx) \in WithArguments
    <3>1. Head(rx) \notin NoLetter /\ Head(rx) # None
      BY <2>1 DEF NoLetter, WithArguments, None
    <3>2. rx' = <<>> /\ cmd' = Head(rx) /\ tx' = <<>> /\ args' = <<>>
      BY <1>1, <1>3, <1>6, <2>1, <3>1 DEF TakesLetter
    <3>3. Len(args' \o rx') < Needed(cmd', args' \o rx')
      BY <2>1, <3>2, ShortNow
    <3>4. Short'
      BY <1>1, <1>2, <3>1, <3>2, <3>3 DEF Short, HostWaits
    <3> QED BY <3>4
  <2>2. CASE Head(rx) \notin WithArguments
    <3>1. PICK c : c = Head(rx) /\ (c \in NoLetter \/ c = DevType)
      BY <1>3
    <3>2. Answer(c) = <<>> \/ Head(Answer(c)) # CR
      BY <2>2, <3>1, NoAck
    <3>3. tx' = Answer(c) /\ cmd' = None
      <4>1. AnySeq(Answer(c))
        BY <1>6, <3>1, AnswersAreSeqs DEF TakesLetter
      <4>2. <<>> \o Answer(c) = Answer(c)
        <5>1. PICK S : Answer(c) \in Seq(S)
          BY <4>1 DEF AnySeq
        <5> QED BY <5>1
      <4> QED BY <1>1, <1>6, <2>2, <3>1, <4>2 DEF TakesLetter
    <3>4. CASE Answer(c) = <<>>
      <4>1. c \notin NoLetter
        BY <3>4 DEF NoLetter
      <4>2. rx' = <<>> /\ tx' = <<>> /\ Len(tx') = 0
        BY <1>3, <1>6, <3>1, <3>3, <3>4, <4>1 DEF TakesLetter
      <4>3. NoMore'
        BY <1>1, <1>2, <1>6, <3>3, <4>2 DEF NoMore, AtRest, HostWaits, TakesLetter
      <4> QED BY <4>3
    <3>5. CASE Answer(c) # <<>>
      <4>1. tx' # <<>> /\ Head(tx') # CR
        BY <3>2, <3>3, <3>5
      <4>2. host'.what = "cr" /\ losses' = 1 /\ HostWaits'
        BY <1>1, <1>2 DEF HostWaits
      <4>3. Mismatched'
        BY <1>2, <4>1, <4>2, NotAcknowledged DEF TypeInv
      <4> QED BY <4>3
    <3> QED BY <3>4, <3>5
  <2> QED BY <2>1, <2>2
<1>7. CASE CommandExit /\ Head(rx) = 69
  <2>1. mode' = "off" /\ rx' = <<>> /\ UNCHANGED <<flash, eeprom>>
    BY <1>7 DEF CommandExit, memVars
  <2>2. Holds' /\ HostWaits' /\ host'.what = "cr"
    BY <1>1, <1>2, <1>3, <1>7, <2>1, HoldsKept DEF HostWaits, NoLetter
  <2>3. Left'
    BY <2>1, <2>2 DEF Left, Down
  <2> QED BY <2>3
<1> QED BY <1>1, <1>4, <1>5, <1>6, <1>7, LetterTaken

LEMMA RestIs ==
  ASSUME NEW r \in RestOfRead
  PROVE  /\ r \in Seq(Char) /\ Len(r) <= 3
         /\ r # <<>> => Tail(r) \in RestOfRead /\ Len(r) = Len(Tail(r)) + 1 /\ Head(r) \in {0, 2, 69, 70}
<1>1. PICK t \in {69, 70} : r \in {<<0, 2, t>>, <<2, t>>, <<t>>, <<>>}
  BY DEF RestOfRead, FlashType, EepromType
<1>2. \A q \in {<<0, 2, t>>, <<2, t>>, <<t>>, <<>>} : q \in RestOfRead
  BY DEF RestOfRead, FlashType, EepromType
<1>3. 0 \in Char /\ 2 \in Char /\ t \in Char
  BY DEF Char
<1>4. CASE r = <<0, 2, t>>
  <2>1. PICK a, b : a = 0 /\ b = 2 /\ r = <<a, b, t>> /\ a \in Char /\ b \in Char
    BY <1>3, <1>4
  <2>2. r \in Seq(Char) /\ Len(r) = 3 /\ Head(r) = a /\ Tail(r) = <<b, t>> /\ Len(<<b, t>>) = 2
    BY <1>3, <2>1
  <2> QED BY <1>2, <2>1, <2>2
<1>5. CASE r = <<2, t>>
  <2>1. PICK q : q = <<t>> /\ q \in RestOfRead
    BY <1>2
  <2>2. r \in Seq(Char) /\ Len(r) = 2 /\ Head(r) = 2 /\ Tail(r) = q /\ Len(q) = 1
    BY <1>3, <1>5, <2>1
  <2>3. Tail(r) \in RestOfRead
    BY <2>1, <2>2
  <2>4. Len(r) = Len(Tail(r)) + 1
    <3>1. r # <<>>
      BY <2>2
    <3>2. Len(Tail(r)) = Len(r) - 1
      BY <2>2, <3>1, HeadTailProperties
    <3> QED BY <2>2, <3>2
  <2> QED BY <2>2, <2>3, <2>4
<1>6. CASE r = <<t>>
  <2>1. PICK q : q = <<>> /\ q \in RestOfRead
    BY <1>2
  <2>2. r \in Seq(Char) /\ Len(r) = 1 /\ Head(r) = t /\ Tail(r) = q /\ Len(q) = 0
    BY <1>3, <1>6, <2>1
  <2>3. Tail(r) \in RestOfRead
    BY <2>1, <2>2
  <2>4. Len(r) = Len(Tail(r)) + 1
    <3>1. r # <<>>
      BY <2>2
    <3>2. Len(Tail(r)) = Len(r) - 1
      BY <2>2, <3>1, HeadTailProperties
    <3> QED BY <2>2, <3>2
  <2> QED BY <1>1, <2>2, <2>3, <2>4
<1>7. CASE r = <<>>
  BY <1>7
<1> QED BY <1>1, <1>4, <1>5, <1>6, <1>7

LEMMA OneMoreAnswer ==
  ASSUME NEW p, AnySeq(p), NEW c \in {0, 2, 70}
  PROVE  Len(p \o Answer(c)) = Len(p) + 1 /\ c \notin WithArguments
<1>1. PICK x : Answer(c) = <<x>>
  <2>1. CASE c = 70
    <3>1. Answer(70) = <<Garbage>>
      BY DEF Answer, ESC
    <3> QED BY <2>1, <3>1
  <2>2. CASE c # 70
    BY <2>2 DEF Answer, ESC
  <2> QED BY <2>1, <2>2
<1>2. PICK S : p \in Seq(S)
  BY DEF AnySeq
<1>3. PICK U : U = S \union {x}
  OBVIOUS
<1>4. p \in Seq(U) /\ <<x>> \in Seq(U) /\ Len(<<x>>) = 1
  BY <1>2, <1>3
<1>5. Len(p \o <<x>>) = Len(p) + 1
  BY <1>4, ConcatProperties
<1> QED BY <1>1, <1>5 DEF WithArguments

\* A read without its letter: each of its characters is a letter to the loader, and gets an answer.
Total == Len(rx) + Len(tx)
LEMMA MutteringLoader ==
  ASSUME TypeInv, Shapes, Loader, Muttering
  PROVE  \/ Muttering' /\ Total' = Total
         \/ Down' /\ rx' = <<>> /\ Holds'
<1>1. /\ losses = 1 /\ Up /\ AtRest /\ Holds /\ rx \in RestOfRead /\ LoaderInv /\ AnySeq(tx)
      /\ UNCHANGED <<host, hostAddr, selected, image, losses>>
  BY LoaderFrame DEF Muttering, TypeInv, Shapes
<1>2. CASE rx = <<>>
  <2>1. UNCHANGED <<cmd, erasing, flash, eeprom, rx, tx>> /\ Up'
    BY <1>1, <1>2, LoaderRests
  <2>2. Holds'
    BY <1>1, <2>1, HoldsKept
  <2> QED BY <1>1, <2>1, <2>2 DEF Muttering, AtRest, Total
<1>3. CASE rx # <<>>
  <2>1. /\ rx \in Seq(Char) /\ Len(rx) <= 3 /\ Len(rx) = Len(Tail(rx)) + 1
        /\ Tail(rx) \in RestOfRead /\ Head(rx) \in {0, 2, 69, 70}
    BY <1>1, <1>3, RestIs
  <2>2. CASE Blinks
    <3>1. rx' = rx /\ tx' = tx /\ UNCHANGED <<flash, eeprom>>
      BY <2>1, <2>2, KeptType DEF Blinks
    <3>2. Up' /\ AtRest'
      BY <1>1, <2>2 DEF Blinks, Up, AtRest
    <3>3. Holds'
      BY <1>1, <3>1, HoldsKept
    <3> QED BY <1>1, <3>1, <3>2, <3>3 DEF Muttering, Total
  <2>3. CASE CommandExit
    <3>1. mode' = "off" /\ rx' = <<>> /\ UNCHANGED <<flash, eeprom>>
      BY <2>3 DEF CommandExit, memVars
    <3>2. Holds'
      BY <1>1, <3>1, HoldsKept
    <3> QED BY <3>1, <3>2 DEF Down
  <2>4. CASE TakesLetter
    <3>1. PICK c : c = Head(rx) /\ c \in {0, 2, 70}
      BY <2>1, <2>4 DEF TakesLetter
    <3>2. Len(tx \o Answer(c)) = Len(tx) + 1 /\ c \notin WithArguments
      BY <1>1, <3>1, OneMoreAnswer
    <3>3. /\ rx' = Tail(rx) /\ tx' = tx \o Answer(c) /\ cmd' = None /\ erasing' = erasing /\ mode' = "loader"
          /\ UNCHANGED <<flash, eeprom>>
      BY <2>4, <3>1, <3>2 DEF TakesLetter
    <3>4. Up' /\ AtRest'
      BY <1>1, <3>3 DEF Up, AtRest
    <3>5. Holds'
      BY <1>1, <3>3, HoldsKept
    <3>6. Len(tx) \in Nat /\ Len(Tail(rx)) \in Nat
      <4>1. PICK S : tx \in Seq(S)
        BY <1>1 DEF AnySeq
      <4> QED BY <2>1, <4>1, <1>3
    <3>7. Len(rx') + Len(tx') = Len(rx) + Len(tx)
      <4>1. PICK i, j : i = Len(tx) /\ j = Len(Tail(rx)) /\ i \in Nat /\ j \in Nat
        BY <3>6
      <4>2. Len(rx') = j /\ Len(tx') = i + 1 /\ Len(rx) = j + 1
        BY <2>1, <3>2, <3>3, <4>1
      <4>3. Len(rx') + Len(tx') = j + (i + 1)
        BY <4>2
      <4>4. Len(rx) + Len(tx) = (j + 1) + i
        BY <4>1, <4>2
      <4>5. \A u, v \in Nat : u + (v + 1) = (u + 1) + v
        OBVIOUS
      <4>6. j + (i + 1) = (j + 1) + i
        BY <4>1, <4>5, Zenon
      <4> QED BY <4>3, <4>4, <4>6
    <3> QED BY <1>1, <2>1, <3>3, <3>4, <3>5, <3>7 DEF Muttering, Total
  <2> QED BY <1>1, <1>3, <2>1, <2>2, <2>3, <2>4, LetterTaken
<1> QED BY <1>2, <1>3

LEMMA ReadGoneLoader ==
  ASSUME TypeInv, Shapes, Loader, ReadGone \/ Stuck
  PROVE  (ReadGone \/ Stuck \/ Left \/ Unaware)'
<1>1. UNCHANGED <<host, hostAddr, selected, image, losses>>
  BY LoaderFrame
<1>2. CASE Muttering' /\ Total' = Total
  BY <1>1, <1>2 DEF ReadGone, Stuck, Total, HostWaits
<1>3. CASE Down' /\ rx' = <<>> /\ Holds'
  BY <1>1, <1>3 DEF ReadGone, Stuck, Left, Unaware, HostWaits
<1> QED BY <1>2, <1>3, MutteringLoader DEF ReadGone, Stuck

LEMMA AskLooseLoader ==
  ASSUME TypeInv, Shapes, Loader, AskLoose, host.want > 0
  PROVE  (AskLoose \/ Short \/ Left)'
<1>1. /\ losses = 1 /\ HostWaits /\ host.what = "ask" /\ Up /\ AtRest /\ Settings /\ Holds /\ LoaderInv
      /\ ((rx = <<>> /\ mode = "loader") \/ (tx = <<>> /\ \E x \in Char \ {101} : rx = <<x>>))
      /\ UNCHANGED <<host, hostAddr, selected, image, losses>>
      /\ args = <<>>
  BY LoaderFrame DEF AskLoose, TypeInv, LoaderInv, AtRest
<1>2. CASE rx = <<>>
  <2>1. UNCHANGED <<cmd, erasing, flash, eeprom, rx, tx, address, device>> /\ mode' = "loader"
    BY <1>1, <1>2, LoaderRests
  <2>2. Holds'
    BY <1>1, <2>1, HoldsKept
  <2>3. Up' /\ AtRest' /\ Settings' /\ HostWaits'
    BY <1>1, <2>1 DEF Up, AtRest, Settings, HostWaits
  <2>4. AskLoose'
    BY <1>1, <1>2, <2>1, <2>2, <2>3 DEF AskLoose
  <2> QED BY <2>4
<1>3. CASE rx # <<>>
  <2>1. PICK x \in Char \ {101} : rx = <<x>> /\ tx = <<>>
    BY <1>1, <1>3
  <2>2. rx \in Seq(Char) /\ Len(rx) = 1 /\ Head(rx) = x /\ Tail(rx) = <<>>
    BY <2>1
  <2>3. CASE Blinks
    <3>0. /\ rx' \in Kept(rx) /\ tx' = tx /\ mode' = "loader"
          /\ UNCHANGED <<cmd, erasing, flash, eeprom, address, device>>
      BY <2>3 DEF Blinks
    <3>5. Len(rx) <= 3 => rx' = rx
      BY <2>2, <3>0, KeptType
    <3>1. rx' = rx /\ tx' = tx /\ mode' = "loader" /\ UNCHANGED <<cmd, erasing, flash, eeprom, address, device>>
      BY <2>2, <3>0, <3>5
    <3>2. Holds'
      BY <1>1, <3>1, HoldsKept
    <3>3. Up' /\ AtRest' /\ Settings' /\ HostWaits'
      BY <1>1, <3>1 DEF Up, AtRest, Settings, HostWaits
    <3>4. AskLoose'
      BY <1>1, <2>1, <3>1, <3>2, <3>3 DEF AskLoose
    <3> QED BY <3>4
  <2>4. CASE TakesLetter
    <3>1. mode' = "loader" /\ rx' = <<>> /\ UNCHANGED <<args, erasing, flash, eeprom, address, device>>
      BY <2>2, <2>4 DEF TakesLetter
    <3>2. CASE x \in WithArguments
      <4>1. cmd' = x /\ tx' = <<>> /\ args' = <<>> /\ x # None
        BY <1>1, <2>1, <2>2, <2>4, <3>1, <3>2 DEF TakesLetter, WithArguments, None
      <4>2. Len(args' \o rx') < Needed(cmd', args' \o rx')
        BY <3>1, <3>2, <4>1, ShortNow
      <4>3. Short'
        BY <1>1, <4>1, <4>2 DEF Short, HostWaits
      <4> QED BY <4>3
    <3>3. CASE x \notin WithArguments
      <4>1. cmd' = None
        BY <2>2, <2>4, <3>3 DEF TakesLetter
      <4>2. Up' /\ AtRest' /\ Settings' /\ HostWaits'
        BY <1>1, <3>1, <4>1 DEF Up, AtRest, Settings, HostWaits
      <4>3. Holds'
        BY <1>1, <3>1, HoldsKept
      <4>4. AskLoose'
        BY <1>1, <3>1, <4>2, <4>3 DEF AskLoose
      <4> QED BY <4>4
    <3> QED BY <3>2, <3>3
  <2>5. CASE CommandExit
    <3>1. mode' = "off" /\ rx' = <<>> /\ UNCHANGED <<flash, eeprom>>
      BY <2>5 DEF CommandExit, memVars
    <3>2. Holds' /\ HostWaits' /\ host'.what = "ask"
      BY <1>1, <3>1, HoldsKept DEF HostWaits
    <3>3. Left'
      BY <3>1, <3>2 DEF Left, Down
    <3> QED BY <3>3
  <2> QED BY <1>1, <1>3, <2>1, <2>2, <2>3, <2>4, <2>5, LetterTaken
<1> QED BY <1>2, <1>3

-----------------------------------------------------------------------------
(* The loader, wherever the loss has led. *)

LEMMA ApartPhases ==
  /\ NoMore \/ Left \/ Unheard \/ Mismatched \/ Short \/ Headless \/ ReadGone \/ AskLoose => HostWaits
  /\ Unaware \/ Stuck => host.pc = "idle"
  /\ Syncing => host.pc = "sync"
  /\ Agreed => host.pc \in {"off", "idle", "await"}
BY Phases DEF NoMore, Left, Unheard, Mismatched, Short, Headless, ReadGone, AskLoose, Unaware, Stuck, Syncing, HostWaits

LEMMA LoaderKeepsStory ==
  ASSUME AsksFit, WholeWords, Unmistakable, TypeInv, Shapes, KeptInv, Loader
  PROVE  Story'
<1>0. losses <= 1 /\ (HostWaits => host.want > 0)
  BY DEF KeptInv
<1>1. CASE Agreed /\ InSession
  BY <1>1, LoaderAgrees DEF Story
<1>2. CASE Agreed /\ ~InSession
  <2>1. mode \in {"app", "hung"} /\ LoaderInv
    BY <1>2 DEF InSession, TypeInv
  <2>2. ~WaitCharacter /\ ~WaitTick /\ ~Blink /\ ~CommandLetter /\ ~CommandErase /\ ~ErasePage /\ ~CommandExit
        /\ ~Argument /\ ~WatchdogReset
    BY <2>1 DEF WaitCharacter, WaitTick, Blink, CommandLetter, CommandErase, ErasePage, CommandExit, Argument,
           Listening, WatchdogReset
  <2>3. ~SetAddress /\ ~SetDevice /\ ~LedIgnored /\ ~LoadBlock /\ ~ReadBlock
    BY <2>1 DEF SetAddress, SetDevice, LedIgnored, LoadBlock, ReadBlock, Carry
  <2>4. rx # <<>> /\ rx' = <<>> /\ UNCHANGED <<cmd, erasing, tx, host>>
    BY <2>2, <2>3 DEF Loader, AppIgnores, loaderVars, hostVars
  <2>5. cmd = None /\ erasing = None
    BY <2>1 DEF LoaderInv
  <2>6. \A what, want, s : ~Coming(what, want, s)
    BY <2>1 DEF Coming, Up
  <2>7. ~OnItsWay
    BY <2>6 DEF OnItsWay, ComingDevice, ComingAddress, ComingAsk, ComingErase, ComingExit, ComingRead, ComingBlock
  <2>8. ~Unconnected /\ ~Ready /\ ~Answered /\ ~ErasingAll
    BY <2>4 DEF Unconnected, Ready, Answered, ErasingAll
  <2>9. Calling
    BY <1>2, <2>7, <2>8 DEF Agreed
  <2>10. host = [pc |-> "await", want |-> 1, what |-> "connect"] /\ tx = <<>>
    BY <2>9 DEF Calling, Awaits
  <2>11. HostWaits' /\ host'.want = 1 /\ Len(tx') = 0
    BY <2>4, <2>10 DEF HostWaits
  <2>12. NoMore'
    BY <2>4, <2>5, <2>11 DEF NoMore, AtRest
  <2> QED BY <2>12 DEF Story, Apart
<1>3. CASE Apart
  <2>1. CASE NoMore \/ Left \/ Unaware
    BY <2>1, RestLoader DEF Story, Apart
  <2>2. CASE Unheard
    BY <1>0, <2>2, UnheardLoader DEF Story, Apart
  <2>3. CASE Mismatched
    BY <2>3, MismatchedLoader DEF Story, Apart
  <2>4. CASE Short
    BY <2>4, ShortLoader DEF Story, Apart
  <2>5. CASE Headless
    <3>1. host.want > 0
      BY <1>0, <2>5, ApartPhases
    <3> QED BY <2>5, <3>1, HeadlessLoader DEF Story, Apart
  <2>6. CASE ReadGone \/ Stuck
    BY <2>6, ReadGoneLoader DEF Story, Apart
  <2>7. CASE AskLoose
    <3>1. host.want > 0
      BY <1>0, <2>7, ApartPhases
    <3> QED BY <2>7, <3>1, AskLooseLoader DEF Story, Apart
  <2> QED BY <1>3, <2>1, <2>2, <2>3, <2>4, <2>5, <2>6, <2>7 DEF Apart
<1>4. CASE Syncing
  <2>1. Syncing'
    BY <1>4, LoaderFrame DEF Syncing
  <2> QED BY <2>1 DEF Story
<1> QED BY <1>1, <1>2, <1>3, <1>4 DEF KeptInv, Story

-----------------------------------------------------------------------------
(* The host asks, of a loader that may have been reset. *)

\* A whole command of the host: only one that waits for CR has the start character in it.
Innocent(bytes, what) ==
  /\ what # "connect"
  /\ \A i \in 1..Len(bytes) : bytes[i] = Start => what = "cr"
  /\ bytes # <<>> => Head(bytes) \notin {Start, ESC}

LEMMA UnawareAsks ==
  ASSUME Unaware, NEW bytes, NEW what, NEW want, Asking(bytes, what, want), Innocent(bytes, what)
  PROVE  Unheard'
<1>1. /\ tx' = <<>> /\ rx' = bytes /\ host' = [pc |-> "await", want |-> want, what |-> what]
      /\ mode' = mode /\ Down
  BY DEF Asking, loaderVars, Unaware
<1>2. HostWaits' /\ host'.what = what /\ Down'
  BY <1>1 DEF HostWaits, Down
<1> QED BY <1>1, <1>2 DEF Unheard, Innocent

LEMMA InnocentOne ==
  ASSUME NEW c, NEW what, what # "connect", c # Start, c # ESC
  PROVE  Innocent(<<c>>, what)
BY DEF Innocent

LEMMA InnocentTwo ==
  ASSUME NEW c, NEW x, NEW what, what # "connect", c # Start, c # ESC, x = Start => what = "cr"
  PROVE  Innocent(<<c, x>>, what)
<1>1. PICK q : q = <<c, x>>
  OBVIOUS
<1>2. Len(q) = 2 /\ Head(q) = c /\ q[1] = c /\ q[2] = x
  BY <1>1
<1> QED BY <1>1, <1>2 DEF Innocent

LEMMA InnocentRead ==
  ASSUME NEW y, y # Start, NEW what, what # "connect"
  PROVE  Innocent(<<103, 0, 2, y>>, what)
<1>1. PICK q : q = <<103, 0, 2, y>>
  OBVIOUS
<1>2. Len(q) = 4 /\ Head(q) = 103 /\ q[1] = 103 /\ q[2] = 0 /\ q[3] = 2 /\ q[4] = y
  BY <1>1
<1> QED BY <1>1, <1>2 DEF Innocent, Start, ESC

LEMMA HostKeepsStory ==
  ASSUME AsksFit, Unmistakable, TypeInv, KeptInv, Host
  PROVE  Story'
<1>1. CASE Agreed
  BY <1>1, HostAsksOn DEF Story
<1>2. CASE Apart \/ Syncing
  <2>1. ~HostConnect
    BY <1>2, ApartPhases DEF HostConnect, Apart, HostWaits
  <2>2. host.pc = "idle" /\ rx = <<>> /\ tx = <<>>
    BY <2>1 DEF Host, HostSetDevice, HostAsk, HostSetAddress, HostErase, HostBlock, HostRead, HostExit, Asking
  <2>3. ~Stuck
    <3>1. PICK e : e = <<>> /\ Len(e) = 0
      OBVIOUS
    <3>2. Len(rx) = 0 /\ Len(tx) = 0
      BY <2>2, <3>1
    <3> QED BY <3>2 DEF Stuck
  <2>4. Unaware
    BY <1>2, <2>2, <2>3, ApartPhases DEF Apart, HostWaits
  <2>5. \E bytes, what, want : Asking(bytes, what, want) /\ Innocent(bytes, what)
    <3>1. CASE HostSetDevice
      BY <3>1, InnocentTwo DEF HostSetDevice, Start, ESC
    <3>2. CASE HostAsk
      <4>1. PICK q \in Asks : Asking(q.bytes, "ask", q.want)
        BY <3>2 DEF HostAsk
      <4>2. \A i \in DOMAIN q.bytes : q.bytes[i] # Start
        BY DEF Unmistakable
      <4>3. CASE \E c \in Char : q.bytes = <<c>> /\ q.want = Len(Answer(c))
        <5>1. PICK c \in Char : q.bytes = <<c>> /\ q.want = Len(Answer(c))
          BY <4>3
        <5>2. c # Start
          BY <4>2, <5>1
        <5>3. c # ESC
          <6>1. Answer(ESC) = <<>>
            BY DEF Answer, ESC
          <6>2. Len(Answer(ESC)) = 0
            BY <6>1
          <6>3. q.want # 0
            BY HostAssumption
          <6> QED BY <5>1, <6>2, <6>3
        <5> QED BY <4>1, <5>1, <5>2, <5>3, InnocentOne
      <4>4. CASE \E c \in {120, 121}, x \in Char : q.bytes = <<c, x>>
        <5>1. PICK c \in {120, 121}, x \in Char : q.bytes = <<c, x>>
          BY <4>4
        <5>2. x # Start
          BY <4>2, <5>1
        <5>3. c # Start /\ c # ESC
          BY <5>1 DEF Start, ESC
        <5> QED BY <4>1, <5>1, <5>2, <5>3, InnocentTwo
      <4> QED BY <4>3, <4>4 DEF AsksFit
    <3>3. CASE HostSetAddress
      <4>1. PICK w : Asking(<<65, High(w), Low(w)>>, "cr", 1)
        BY <3>3 DEF HostSetAddress
      <4>2. PICK q : q = <<65, High(w), Low(w)>>
        OBVIOUS
      <4>3. Head(q) = 65
        BY <4>2
      <4>4. Innocent(q, "cr")
        BY <4>3 DEF Innocent, Start, ESC
      <4> QED BY <4>1, <4>2, <4>4
    <3>4. CASE HostErase
      BY <3>4, InnocentOne DEF HostErase, Start, ESC
    <3>5. CASE \E b \in Blocks : HostBlock(b)
      <4>1. PICK b \in Blocks : Asking(BlockBytes(b), "cr", 1)
        BY <3>5 DEF HostBlock, BlockBytes
      <4>2. PICK t, s : t = BlockArgs(b) /\ s = BlockBytes(b)
        OBVIOUS
      <4>3. t \in Seq(Char) /\ s = <<66>> \o t /\ 66 \in Char
        BY <4>2, BlockArguments, LettersAreChars
      <4>4. Head(s) = 66
        BY <4>3, TakenApart
      <4>5. Innocent(s, "cr")
        BY <4>4 DEF Innocent, Start, ESC
      <4> QED BY <4>1, <4>2, <4>5
    <3>6. CASE \E m \in {"FLASH", "EEPROM"} : HostRead(m, 2)
      <4>1. PICK m \in {"FLASH", "EEPROM"} : Asking(<<103, 0, 2, TypeOf(m)>>, m, 2)
        BY <3>6 DEF HostRead
      <4>2. TypeOf(m) # Start /\ m # "connect"
        BY DEF TypeOf, FlashType, EepromType, Start
      <4> QED BY <4>1, <4>2, InnocentRead
    <3>7. CASE HostExit
      BY <3>7, InnocentOne DEF HostExit, Start, ESC
    <3> QED BY <2>1, <3>1, <3>2, <3>3, <3>4, <3>5, <3>6, <3>7 DEF Host
  <2> QED BY <2>4, <2>5, UnawareAsks DEF Story, Apart
<1> QED BY <1>1, <1>2 DEF KeptInv, Story

-----------------------------------------------------------------------------
(* The host hears, gives up, or starts over. *)

\* A character of the answer is gone, to the host or on the line.
LEMMA OneLess ==
  ASSUME NEW p, AnySeq(p), p # <<>>
  PROVE  Len(Tail(p)) \in Nat /\ Len(p) = Len(Tail(p)) + 1
<1>1. PICK S : p \in Seq(S)
  BY DEF AnySeq
<1>2. Len(p) \in Nat /\ Len(p) > 0 /\ Len(Tail(p)) = Len(p) - 1
  BY <1>1, HeadTailProperties
<1> QED BY <1>2

LEMMA ReceivesKeepsStory ==
  ASSUME TypeInv, Shapes, KeptInv, HostReceives
  PROVE  Story'
<1>1. /\ HostWaits /\ tx # <<>> /\ UNCHANGED losses /\ host.want > 0 /\ host.want \in Nat /\ AnySeq(tx)
  BY Takes DEF KeptInv, Shapes, HostShape
<1>2. CASE Syncing'
  BY <1>2 DEF Story
<1>3. CASE Agreed
  <2>1. host.pc = "await"
    BY <1>1 DEF HostWaits
  <2>2. ~Calling /\ ~ErasingAll /\ ~OnItsWay
    BY <1>1, Phases DEF Calling, ErasingAll
  <2>3. Answered
    BY <1>3, <2>1, <2>2, Phases
  <2>4. mode # "hung"
    BY <2>3 DEF Answered, Up
  <2> QED BY <2>3, <2>4, AnswerTaken DEF Story
<1>4. CASE Apart /\ ~Syncing'
  <2>1. /\ Expected(Head(tx)) /\ tx' = Tail(tx) /\ LoaderSame /\ UNCHANGED <<rx, hostAddr, selected>>
        /\ host.what # "erase" => image' = image
        /\ \/ host.want > 1 /\ HostWaits' /\ host'.want = host.want - 1 /\ host'.what = host.what
           \/ ~(host.want > 1) /\ host.what = "exit" /\ host'.pc = "off"
           \/ ~(host.want > 1) /\ host.what # "exit" /\ host'.pc = "idle"
    BY <1>4, Takes
  <2>2. Len(tx') \in Nat /\ Len(tx) = Len(tx') + 1
    BY <1>1, <2>1, OneLess
  <2>3. UNCHANGED <<mode, cmd, args, erasing, address, device, flash, eeprom, rx, losses>>
    BY <1>1, <2>1 DEF LoaderSame
  <2>4. (Up => Up') /\ (AtRest => AtRest') /\ (Settings => Settings') /\ (Down => Down')
    BY <2>1, <2>3 DEF Up, AtRest, Settings, Down
  <2>5. ~Unheard /\ ~Mismatched /\ ~Short /\ ~Headless /\ ~Unaware /\ ~Stuck
    BY <1>1, <2>1 DEF Unheard, Mismatched, Short, Headless, Unaware, Stuck, HostWaits
  <2>6. CASE NoMore
    <3>1. host.want > 1 /\ HostWaits' /\ host'.want = host.want - 1
      BY <1>1, <2>1, <2>2, <2>6 DEF NoMore
    <3>2. Len(tx') < host'.want
      BY <1>1, <2>2, <2>6, <3>1 DEF NoMore
    <3>3. NoMore'
      BY <2>3, <2>4, <2>6, <3>1, <3>2 DEF NoMore
    <3> QED BY <3>3 DEF Story, Apart
  <2>7. CASE Left
    <3>1. /\ Down /\ rx = <<>> /\ Holds /\ (host.what = "erase" => FlashBlank)
      BY <2>7 DEF Left
    <3>2. Holds'
      BY <2>1, <3>1, HoldsTaken
    <3>3. FlashBlank => FlashBlank'
      BY <2>3 DEF FlashBlank
    <3>4. CASE HostWaits' /\ host'.what = host.what
      BY <2>3, <2>4, <3>1, <3>2, <3>3, <3>4 DEF Left, Story, Apart
    <3>5. CASE host'.pc = "off"
      <4>1. Unconnected'
        BY <2>3, <2>4, <3>1, <3>2, <3>5 DEF Unconnected, Down
      <4> QED BY <4>1 DEF Story, Agreed
    <3>6. CASE host'.pc = "idle"
      BY <2>3, <2>4, <3>1, <3>2, <3>6 DEF Unaware, Story, Apart
    <3> QED BY <2>1, <3>4, <3>5, <3>6
  <2>8. CASE ReadGone
    <3>1. Muttering /\ host.what \in {"FLASH", "EEPROM"} /\ Len(rx) + Len(tx) > host.want /\ Len(rx) \in Nat
      <4>1. rx \in Seq(Char)
        BY DEF TypeInv, LoaderInv
      <4> QED BY <2>8, <4>1 DEF ReadGone
    <3>2. Holds'
      BY <2>1, <2>3, <3>1, HoldsKept DEF Muttering
    <3>3. Muttering'
      BY <2>3, <2>4, <3>1, <3>2 DEF Muttering
    <3>4. CASE host.want > 1 /\ HostWaits' /\ host'.want = host.want - 1 /\ host'.what = host.what
      <4>1. Len(rx') + Len(tx') > host'.want
        BY <1>1, <2>2, <2>3, <3>1, <3>4
      <4>2. ReadGone'
        BY <3>1, <3>3, <3>4, <4>1 DEF ReadGone
      <4> QED BY <4>2 DEF Story, Apart
    <3>5. CASE ~(host.want > 1) /\ host'.pc = "idle"
      <4>1. Len(rx') + Len(tx') > 0
        BY <1>1, <2>2, <2>3, <3>1, <3>5
      <4>2. Stuck'
        BY <3>3, <3>5, <4>1 DEF Stuck
      <4> QED BY <4>2 DEF Story, Apart
    <3> QED BY <2>1, <3>1, <3>4, <3>5
  <2>9. CASE AskLoose
    <3>1. /\ losses = 1 /\ host.what = "ask" /\ Up /\ AtRest /\ Settings /\ Holds
          /\ rx = <<>> /\ mode = "loader"
      BY <1>1, <2>9 DEF AskLoose
    <3>2. Holds'
      BY <2>1, <2>3, <3>1, HoldsKept
    <3>3. CASE HostWaits' /\ host'.what = host.what
      BY <2>3, <2>4, <3>1, <3>2, <3>3 DEF AskLoose, Story, Apart
    <3>4. CASE host'.pc = "idle"
      <4>1. Ready'
        BY <2>3, <2>4, <3>1, <3>2, <3>4 DEF Ready
      <4> QED BY <4>1 DEF Story, Agreed
    <3> QED BY <2>1, <3>1, <3>3, <3>4
  <2> QED BY <1>4, <2>5, <2>6, <2>7, <2>8, <2>9 DEF Apart
<1>5. ~Syncing
  BY <1>1, ApartPhases DEF HostWaits
<1> QED BY <1>2, <1>3, <1>4, <1>5 DEF KeptInv, Story

LEMMA StartsOver ==
  ASSUME TypeInv, EscapesInv, KeptInv, HostTimeout \/ HostEscapes \/ HostSynced
  PROVE  Story'
<1>1. CASE HostTimeout
  <2>1. Syncing'
    BY <1>1, LostSyncs DEF HostTimeout, TypeInv
  <2> QED BY <2>1 DEF Story
<1>2. CASE HostEscapes \/ HostSynced
  <2>1. host.pc = "sync"
    BY <1>2 DEF HostEscapes, HostSynced
  <2>2. Syncing
    BY <2>1, ApartPhases DEF KeptInv, Story, Apart, HostWaits
  <2>3. CASE HostEscapes
    <3>1. Syncing'
      BY <2>2, <2>3 DEF HostEscapes, Syncing
    <3> QED BY <3>1 DEF Story
  <2>4. CASE HostSynced
    <3>1. /\ rx' = <<>> /\ UNCHANGED <<mode, cmd, args, erasing, address, device, flash, eeprom, hostAddr, selected, image>>
          /\ escs = SyncLength /\ (LoaderQuiet \/ mode = "app")
          /\ host'.pc = IF mode = "loader" THEN "idle" ELSE "off"
      BY <2>4 DEF HostSynced, loaderVars, memVars, Idle
    <3>2. Holds'
      BY <2>2, <3>1 DEF Syncing, Holds
    <3>3. CASE mode = "loader"
      <4>1. rx = <<>> /\ erasing = None /\ (cmd = None \/ ~Complete(cmd, args))
        BY <3>1, <3>3 DEF LoaderQuiet
      <4>2. cmd = None
        BY <2>1, <3>1, <3>3, <4>1, EscapesOut DEF EscapesSuffice
      <4>3. Settings'
        BY <2>2, <3>1 DEF Settings, Syncing
      <4>4. Up' /\ AtRest' /\ host'.pc = "idle" /\ mode' # "blink"
        BY <3>1, <3>3, <4>1, <4>2 DEF Up, AtRest
      <4>5. Ready'
        BY <3>1, <3>2, <4>3, <4>4 DEF Ready
      <4> QED BY <4>5 DEF Story, Agreed
    <3>4. CASE mode # "loader"
      <4>1. mode \in {"wait", "app", "hung"}
        BY <3>1, <3>4 DEF LoaderQuiet, TypeInv, LoaderInv
      <4>2. Unconnected'
        BY <3>1, <3>2, <3>4, <4>1 DEF Unconnected
      <4> QED BY <4>2 DEF Story, Agreed
    <3> QED BY <3>3, <3>4
  <2> QED BY <1>2, <2>3, <2>4
<1> QED BY <1>1, <1>2

-----------------------------------------------------------------------------
(* The power fails. *)

LEMMA SilentPower ==
  ASSUME PowerFails, HostWaits, tx = <<>>, host.want > 0
  PROVE  NoMore'
<1>1. rx' = <<>> /\ cmd' = None /\ erasing' = None /\ tx' = <<>> /\ host' = host
  BY DEF PowerFails, Restarts, hostVars
<1>2. Len(tx') = 0 /\ HostWaits'
  BY <1>1 DEF HostWaits
<1> QED BY <1>1, <1>2 DEF NoMore, AtRest

LEMMA PowerKeepsStory ==
  ASSUME TypeInv, KeptInv, PowerFails
  PROVE  Story'
<1>1. /\ mode' = "wait" /\ rx' = <<>> /\ cmd' = None /\ erasing' = None
      /\ UNCHANGED <<tx, host, hostAddr, selected, image, losses>>
  BY DEF PowerFails, Restarts, hostVars
<1>2. /\ Down' /\ AtRest' /\ (HostWaits => HostWaits')
      /\ AtRest \/ Down => (Holds => Holds') /\ (FlashBlank => FlashBlank')
  <2>1. Down' /\ AtRest' /\ (HostWaits => HostWaits')
    BY <1>1 DEF Down, AtRest, HostWaits
  <2>2. ASSUME AtRest \/ Down PROVE (Holds => Holds') /\ (FlashBlank => FlashBlank')
    <3>1. ~TornBlock /\ ~TornErase
      BY <2>2 DEF TornBlock, TornErase, AtRest, Down, None, TypeInv, LoaderInv
    <3>2. UNCHANGED <<flash, eeprom>>
      BY <3>1 DEF PowerFails, memVars
    <3> QED BY <1>1, <3>2, HoldsKept DEF FlashBlank
  <2> QED BY <2>1, <2>2
<1>3. CASE HostWaits /\ tx = <<>>
  <2>1. host.want > 0
    BY <1>3 DEF KeptInv
  <2> QED BY <1>3, <2>1, SilentPower DEF Story, Apart
<1>4. ASSUME HostWaits, AtRest \/ Down, Holds, host.what = "erase" => FlashBlank PROVE Story'
  <2>1. Left'
    BY <1>1, <1>2, <1>4 DEF Left
  <2> QED BY <2>1 DEF Story, Apart
<1>5. ASSUME host.pc = "idle", AtRest \/ Down, Holds PROVE Story'
  <2>1. Unaware'
    BY <1>1, <1>2, <1>5 DEF Unaware
  <2> QED BY <2>1 DEF Story, Apart
<1>6. CASE Unconnected
  <2>1. AtRest
    BY <1>6 DEF Unconnected, AtRest, TypeInv, LoaderInv
  <2>2. Unconnected'
    BY <1>1, <1>2, <1>6, <2>1 DEF Unconnected
  <2> QED BY <2>2 DEF Story, Agreed
<1>7. CASE Answered
  BY <1>4, <1>7 DEF Answered, HostWaits
<1>8. CASE Ready \/ Unaware \/ Stuck
  BY <1>5, <1>8 DEF Ready, Unaware, Stuck, Muttering
<1>9. CASE Left \/ ReadGone \/ AskLoose
  BY <1>4, <1>9 DEF Left, ReadGone, AskLoose, Muttering
<1>10. CASE NoMore
  <2>1. NoMore'
    BY <1>1, <1>2, <1>10 DEF NoMore
  <2> QED BY <2>1 DEF Story, Apart
<1>11. CASE Mismatched
  <2>1. Mismatched'
    <3>1. PICK c : c = Head(tx) /\ ~Expected(c)
      BY <1>11 DEF Mismatched
    <3>2. ~Expected(c)'
      BY <1>1, <3>1, ExpectedSame
    <3>3. ~Expected(Head(tx))'
      BY <1>1, <3>1, <3>2 DEF Expected, ByteAddr
    <3> QED BY <1>1, <1>2, <1>11, <3>3 DEF Mismatched
  <2> QED BY <2>1 DEF Story, Apart
<1>12. CASE Syncing
  <2>1. Syncing'
    BY <1>1, <1>12 DEF Syncing
  <2> QED BY <2>1 DEF Story
<1>13. CASE Calling \/ ErasingAll \/ OnItsWay
  <2>1. HostWaits /\ tx = <<>>
    BY <1>13, Phases DEF Calling, ErasingAll, Awaits, HostWaits
  <2> QED BY <1>3, <2>1
<1>14. CASE Unheard \/ Short \/ Headless
  BY <1>3, <1>14 DEF Unheard, Short, Headless
<1> QED BY <1>6, <1>7, <1>8, <1>9, <1>10, <1>11, <1>12, <1>13, <1>14 DEF KeptInv, Story, Agreed, Apart

-----------------------------------------------------------------------------
(* The line loses a character. *)

LEMMA Lose ==
  ASSUME OneLoss, TypeInv, LoseToLoader \/ LoseToHost
  PROVE  losses = 0 /\ losses' = 1
<1>1. losses < MaxLosses /\ losses' = losses + 1 /\ losses \in Nat /\ MaxLosses <= 1 /\ MaxLosses \in Nat
  BY SerialAssumption DEF LoseToLoader, LoseToHost, TypeInv, HostInv, OneLoss
<1> QED BY <1>1

LEMMA LoseToHostKeepsStory ==
  ASSUME OneLoss, TypeInv, Shapes, KeptInv, LoseToHost
  PROVE  Story'
<1>1. /\ tx # <<>> /\ tx' = Tail(tx) /\ losses = 0 /\ losses' = 1 /\ AnySeq(tx)
      /\ UNCHANGED <<mode, cmd, args, erasing, address, device, flash, eeprom, rx, host, hostAddr, selected, image>>
  BY Lose DEF LoseToHost, loaderVars, memVars, hostVars, Shapes
<1>2. Len(tx') \in Nat /\ Len(tx) = Len(tx') + 1
  BY <1>1, OneLess
<1>3. /\ (Up => Up') /\ (AtRest => AtRest') /\ (Settings => Settings') /\ (Down => Down') /\ (Holds => Holds')
      /\ (FlashBlank => FlashBlank') /\ (HostWaits => HostWaits')
  BY <1>1, HoldsKept DEF Up, AtRest, Settings, Down, FlashBlank, HostWaits
<1>4. CASE Unconnected \/ Ready
  <2>1. Unconnected' \/ Ready'
    BY <1>1, <1>3, <1>4 DEF Unconnected, Ready
  <2> QED BY <2>1 DEF Story, Agreed
<1>5. CASE Answered
  <2>1. HostWaits /\ rx = <<>> /\ AtRest /\ Len(tx) = host.want /\ host.want \in Nat
    BY <1>5 DEF Answered, HostWaits, Shapes, HostShape
  <2>2. Len(tx') < host.want
    BY <1>2, <2>1
  <2>3. NoMore'
    BY <1>1, <1>3, <2>1, <2>2 DEF NoMore
  <2> QED BY <2>3 DEF Story, Apart
<1>6. CASE NoMore \/ Left \/ Unaware
  <2>1. NoMore => Len(tx') < host.want
    <3>1. host.want \in Nat
      BY DEF Shapes, HostShape
    <3> QED BY <1>2, <3>1 DEF NoMore
  <2>2. NoMore' \/ Left' \/ Unaware'
    BY <1>1, <1>3, <1>6, <2>1 DEF NoMore, Left, Unaware
  <2> QED BY <2>2 DEF Story, Apart
<1>7. CASE Syncing
  <2>1. Syncing'
    BY <1>1, <1>7 DEF Syncing
  <2> QED BY <2>1 DEF Story
<1>8. ~Calling /\ ~ErasingAll /\ ~OnItsWay /\ ~Unheard
  BY <1>1, Phases DEF Calling, ErasingAll, Unheard
<1>9. ~Mismatched /\ ~Short /\ ~Headless /\ ~ReadGone /\ ~Stuck /\ ~AskLoose
  BY <1>1 DEF Mismatched, Short, Headless, ReadGone, Stuck, AskLoose, Muttering
<1> QED BY <1>4, <1>5, <1>6, <1>7, <1>8, <1>9 DEF KeptInv, Story, Agreed, Apart

\* A list without one of its elements.
LEMMA RemovedIs ==
  ASSUME NEW a \in Seq(Char), NEW r \in Seq(Char), r # <<>>, NEW t, t = a \o r, NEW u, u = a \o Tail(r)
  PROVE  /\ u \in Seq(Char) /\ t \in Seq(Char) /\ Len(t) = Len(u) + 1
         /\ \A i \in 1..Len(u) : u[i] = IF i <= Len(a) THEN t[i] ELSE t[i + 1]
<1>0. PICK w, m, n, k : w = Tail(r) /\ m = Len(a) /\ n = Len(r) /\ k = Len(w)
  OBVIOUS
<1>1. /\ m \in Nat /\ n \in Nat /\ k \in Nat /\ n = k + 1 /\ w \in Seq(Char)
      /\ \A i \in 1..k : w[i] = r[i + 1]
  <2>1. w \in Seq(Char) /\ n \in Nat /\ n > 0 /\ m \in Nat
    BY <1>0
  <2>2. k = n - 1 /\ \A i \in 1..k : w[i] = r[i + 1]
    BY <1>0, HeadTailProperties
  <2> QED BY <2>1, <2>2
<1>2. /\ t \in Seq(Char) /\ Len(t) = m + n
      /\ \A i \in 1..(m + n) : t[i] = IF i <= m THEN a[i] ELSE r[i - m]
  BY <1>0, <1>1, ConcatProperties
<1>3. /\ u \in Seq(Char) /\ Len(u) = m + k
      /\ \A i \in 1..(m + k) : u[i] = IF i <= m THEN a[i] ELSE w[i - m]
  BY <1>0, <1>1, ConcatProperties
<1>4. ASSUME NEW i \in 1..(m + k) PROVE u[i] = IF i <= m THEN t[i] ELSE t[i + 1]
  <2>1. CASE i <= m
    <3>1. i \in 1..(m + n)
      BY <1>1, <1>4
    <3> QED BY <1>2, <1>3, <2>1, <3>1
  <2>2. CASE ~(i <= m)
    <3>1. PICK j : j = i - m
      OBVIOUS
    <3>2. j \in 1..k /\ i + 1 \in 1..(m + n) /\ (i + 1) - m = j + 1 /\ ~(i + 1 <= m)
      BY <1>1, <2>2, <3>1
    <3>3. u[i] = w[j] /\ t[i + 1] = r[j + 1]
      BY <1>2, <1>3, <2>2, <3>1, <3>2
    <3> QED BY <1>1, <2>2, <3>2, <3>3
  <2> QED BY <2>1, <2>2
<1>5. Len(t) = Len(u) + 1
  BY <1>1, <1>2, <1>3
<1> QED BY <1>0, <1>1, <1>2, <1>3, <1>4, <1>5

\* Without one of these arguments the command is not complete.
Indispensable(c, t) ==
  \A a, r \in Seq(Char) : a \o r = t /\ r # <<>> => Len(a \o Tail(r)) < Needed(c, a \o Tail(r))

LEMMA FewIndispensable ==
  ASSUME NEW c \in WithArguments, c # 66, NEW t \in Seq(Char), Len(t) = Arguments(c)
  PROVE  Indispensable(c, t)
<1> SUFFICES ASSUME NEW a \in Seq(Char), NEW r \in Seq(Char), a \o r = t, r # <<>>
             PROVE  Len(a \o Tail(r)) < Needed(c, a \o Tail(r))
  BY DEF Indispensable
<1>1. PICK u : u = a \o Tail(r)
  OBVIOUS
<1>2. PICK n, q : n = Arguments(c) /\ q = a \o r /\ q = t
  OBVIOUS
<1>3. /\ u \in Seq(Char) /\ q \in Seq(Char) /\ Len(q) = Len(u) + 1
      /\ \A i \in 1..Len(u) : u[i] = IF i <= Len(a) THEN q[i] ELSE q[i + 1]
  BY <1>1, <1>2, RemovedIs
<1>4. Needed(c, u) = n /\ n = Len(u) + 1 /\ Len(u) \in Nat
  BY <1>2, <1>3 DEF Needed
<1>5. Len(u) < Needed(c, u)
  BY <1>4
<1> QED BY <1>1, <1>5

\* The length of a block, or what the loader takes for it.
LEMMA AtLeast ==
  ASSUME NEW n \in Nat, n <= PageSize, NEW x \in Char, NEW y \in Char, x * 256 + y >= n
  PROVE  Buffered((x * 256 + y) % Word) \in Nat /\ Buffered((x * 256 + y) % Word) >= n
<1>1. PICK v : v = x * 256 + y
  OBVIOUS
<1>2. v \in Nat /\ v < Word /\ v >= n
  BY <1>1 DEF Char, Word
<1>3. v % Word = v
  BY <1>2, Bits16
<1>4. Buffered(v) \in Nat /\ Buffered(v) >= n
  BY <1>2, SizesFacts DEF Buffered, Smaller
<1> QED BY <1>1, <1>3, <1>4

LEMMA BlockIndispensable ==
  ASSUME Unmistakable, NEW b \in Blocks, NEW t, t = BlockArgs(b)
  PROVE  Indispensable(66, t)
<1> SUFFICES ASSUME NEW a \in Seq(Char), NEW r \in Seq(Char), a \o r = t, r # <<>>
             PROVE  Len(a \o Tail(r)) < Needed(66, a \o Tail(r))
  BY DEF Indispensable
<1>1. PICK u : u = a \o Tail(r)
  OBVIOUS
<1>2. PICK n, y : n = Len(b.data) /\ y = TypeOf(b.mem)
  OBVIOUS
<1>3. n \in Nat /\ n >= 1 /\ n <= 69 /\ n <= PageSize
  <2>1. n \in 1..PageSize
    BY <1>2, BlocksFit DEF BlockFits
  <2>2. n <= 69
    BY <1>2 DEF Unmistakable, EepromType
  <2> QED BY <2>1, <2>2, SizesFacts
<1>31. High(n) = 0 /\ Low(n) = n
  <2>1. n \in 1..PageSize
    BY <1>2, BlocksFit DEF BlockFits
  <2> QED BY <1>3, <2>1, SmallHalves
<1>4. y \in {69, 70}
  BY <1>2 DEF TypeOf, FlashType, EepromType
<1>5. Len(t) = 3 + n /\ t[1] = 0 /\ t[2] = n /\ t[3] = y
  <2>1. PICK s : s = BlockBytes(b)
    OBVIOUS
  <2> QED BY <1>2, <1>31, <2>1, BlockArguments
<1>6. /\ u \in Seq(Char) /\ Len(t) = Len(u) + 1 /\ Len(u) \in Nat
      /\ \A i \in 1..Len(u) : u[i] = IF i <= Len(a) THEN t[i] ELSE t[i + 1]
  BY <1>1, RemovedIs
<1>7. Len(u) = 2 + n /\ Len(u) >= 3
  BY <1>3, <1>5, <1>6
<1>8. PICK x, z : x = u[1] /\ z = u[2] /\ x \in Char /\ z \in Char
  BY <1>6, <1>7, FirstTwo
<1>9. (x = 0 /\ z = n) \/ (x = 0 /\ z = y) \/ (x = n /\ z = y)
  <2>1. Len(a) \in Nat /\ 1 \in 1..Len(u) /\ 2 \in 1..Len(u)
    BY <1>6, <1>7
  <2>2. x = (IF 1 <= Len(a) THEN t[1] ELSE t[1 + 1]) /\ z = IF 2 <= Len(a) THEN t[2] ELSE t[2 + 1]
    BY <1>6, <1>8, <2>1
  <2>3. 1 + 1 = 2 /\ 2 + 1 = 3
    OBVIOUS
  <2>4. (2 <= Len(a)) => (1 <= Len(a))
    BY <2>1
  <2> QED BY <1>5, <2>2, <2>3, <2>4
<1>10. x * 256 + z >= n
  BY <1>3, <1>4, <1>9
<1>11. PICK k : k = Buffered((x * 256 + z) % Word) /\ k \in Nat /\ k >= n
  BY <1>3, <1>8, <1>10, AtLeast
<1>12. Needed(66, u) = 3 + k
  BY <1>7, <1>8, <1>11 DEF Needed
<1>13. Len(u) < Needed(66, u)
  BY <1>3, <1>7, <1>11, <1>12
<1> QED BY <1>1, <1>13

Spells(s, c, t) == c \in WithArguments /\ t \in Seq(Char) /\ s = <<c>> \o t

\* An argument is lost.
LEMMA ArgumentLost ==
  ASSUME TypeInv, LoseToLoader, losses' = 1, NEW what, NEW want, NEW s, Coming(what, want, s), cmd # None,
         NEW c, NEW t, Spells(s, c, t), Indispensable(c, t)
  PROVE  Short'
<1>0. c \in WithArguments /\ t \in Seq(Char) /\ s = <<c>> \o t
  BY DEF Spells
<1>1. /\ rx # <<>> /\ rx' = Tail(rx) /\ UNCHANGED <<cmd, args, tx, host>>
      /\ args \in Seq(Char) /\ rx \in Seq(Char)
  BY DEF LoseToLoader, loaderVars, hostVars, TypeInv, LoaderInv
<1>2. Head(s) = c /\ Tail(s) = t
  BY <1>0, LettersAreChars, TakenApart
<1>3. cmd = c /\ args \o rx = t /\ tx = <<>> /\ host.pc = "await"
  BY <1>2 DEF Coming, Way, Awaits
<1>4. Len(args \o Tail(rx)) < Needed(c, args \o Tail(rx))
  BY <1>0, <1>1, <1>3 DEF Indispensable
<1> QED BY <1>1, <1>3, <1>4 DEF Short, HostWaits

\* A letter is lost that was the whole command.
LEMMA LetterLost ==
  ASSUME TypeInv, LoseToLoader, NEW what, NEW want, want > 0, NEW s, NEW c \in Char \ WithArguments, s = <<c>>,
         Coming(what, want, s)
  PROVE  NoMore'
<1>1. UNCHANGED <<cmd, erasing, tx, host>> /\ rx' = Tail(rx)
  BY DEF LoseToLoader, loaderVars, hostVars
<1>2. Head(s) = c /\ Tail(s) = <<>>
  OBVIOUS
<1>3. cmd = None
  BY <1>2 DEF Coming, Way, TypeInv, LoaderInv
<1>4. rx = s /\ tx = <<>> /\ erasing = None /\ host = [pc |-> "await", want |-> want, what |-> what]
  BY <1>3 DEF Coming, Way, Awaits
<1>5. rx' = <<>> /\ Len(tx') = 0 /\ HostWaits' /\ host'.want = want
  BY <1>1, <1>2, <1>4 DEF HostWaits
<1> QED BY <1>1, <1>3, <1>4, <1>5 DEF NoMore, AtRest

\* Or that had arguments.
LEMMA ArgumentsLeft ==
  ASSUME TypeInv, LoseToLoader, losses' = 1, NEW what, NEW want, NEW s, Coming(what, want, s), cmd = None,
         NEW c, NEW t, Spells(s, c, t)
  PROVE  /\ rx' = t /\ tx' = <<>> /\ Up' /\ AtRest' /\ HostWaits' /\ host'.what = what /\ host'.want = want
         /\ UNCHANGED <<mode, address, device, flash, eeprom, hostAddr, selected, image>>
         /\ Len(tx') = 0
<1>1. /\ rx' = Tail(rx)
      /\ UNCHANGED <<mode, cmd, erasing, address, device, flash, eeprom, tx, host, hostAddr, selected, image>>
  BY DEF LoseToLoader, loaderVars, memVars, hostVars
<1>2. Tail(s) = t
  <2>1. c \in Char /\ t \in Seq(Char) /\ s = <<c>> \o t
    BY LettersAreChars DEF Spells
  <2> QED BY <2>1, TakenApart
<1>3. /\ rx = s /\ tx = <<>> /\ erasing = None /\ Up /\ host = [pc |-> "await", want |-> want, what |-> what]
  BY DEF Coming, Way, Awaits
<1>4. Len(tx') = 0
  BY <1>1, <1>3
<1> QED BY <1>1, <1>2, <1>3, <1>4 DEF Up, AtRest, HostWaits

LEMMA ReadLost ==
  ASSUME TypeInv, LoseToLoader, losses' = 1, NEW m \in {"FLASH", "EEPROM"}, ComingRead(m)
  PROVE  Short' \/ ReadGone'
<1>1. PICK y, t, s, c : y = TypeOf(m) /\ t = <<0, 2, y>> /\ s = <<103, 0, 2, y>> /\ c = 103
  OBVIOUS
<1>2. Coming(m, 2, s) /\ Holds /\ y \in Char /\ c \in Char /\ c \in WithArguments
  BY <1>1, TypeOfIs DEF ComingRead, Char, WithArguments
<1>3. t \in Seq(Char) /\ s = <<c>> \o t /\ Len(t) = Arguments(c) /\ c # 66 /\ Len(t) = 3
  <2>1. PICK z, w : z = 0 /\ w = 2 /\ z \in Char /\ w \in Char
    BY DEF Char
  <2>2. Spelled(c, z, w, y)
    BY <1>2, <2>1, SpelledFour
  <2>3. t = <<z, w, y>> /\ s = <<c, z, w, y>>
    BY <1>1, <2>1
  <2>4. Arguments(103) = 3
    BY LettersAreChars, ArgumentsIs
  <2> QED BY <1>1, <2>2, <2>3, <2>4 DEF Spelled
<1>30. Spells(s, c, t)
  BY <1>2, <1>3 DEF Spells
<1>4. CASE cmd # None
  <2>1. Indispensable(c, t)
    BY <1>2, <1>3, FewIndispensable
  <2> QED BY <1>2, <1>30, <1>4, <2>1, ArgumentLost
<1>5. CASE cmd = None
  <2>1. /\ rx' = t /\ tx' = <<>> /\ Up' /\ AtRest' /\ HostWaits' /\ host'.what = m /\ host'.want = 2
        /\ UNCHANGED <<mode, address, device, flash, eeprom, hostAddr, selected, image>>
        /\ Len(tx') = 0
    BY <1>2, <1>30, <1>5, ArgumentsLeft
  <2>2. Holds'
    BY <1>2, <2>1, HoldsKept
  <2>3. t \in RestOfRead
    BY <1>1 DEF RestOfRead, TypeOf
  <2>4. Muttering'
    BY <2>1, <2>2, <2>3 DEF Muttering
  <2>5. Len(rx') + Len(tx') > host'.want
    BY <1>3, <2>1
  <2> QED BY <2>1, <2>4, <2>5 DEF ReadGone
<1> QED BY <1>4, <1>5

LEMMA ZeroIsNoLetter == 0 \in NoLetter
BY DEF NoLetter, Answer, ESC, Char, WithArguments

LEMMA BlockLost ==
  ASSUME Unmistakable, TypeInv, LoseToLoader, losses' = 1, NEW b \in Blocks, ComingBlock(b)
  PROVE  Short' \/ Headless'
<1>1. PICK t, s, c : t = BlockArgs(b) /\ s = BlockBytes(b) /\ c = 66
  OBVIOUS
<1>2. Coming("cr", 1, s) /\ t \in Seq(Char) /\ s = <<c>> \o t /\ c \in WithArguments /\ c \in Char
  BY <1>1, BlockArguments, LettersAreChars DEF ComingBlock, WithArguments
<1>20. Spells(s, c, t)
  BY <1>2 DEF Spells
<1>3. CASE cmd # None
  <2>1. Indispensable(c, t)
    BY <1>1, BlockIndispensable
  <2> QED BY <1>2, <1>20, <1>3, <2>1, ArgumentLost
<1>4. CASE cmd = None
  <2>1. rx' = t /\ tx' = <<>> /\ Up' /\ AtRest' /\ HostWaits' /\ host'.what = "cr"
    BY <1>2, <1>20, <1>4, ArgumentsLeft
  <2>2. Len(t) = 3 + Len(b.data) /\ t[1] = High(Len(b.data)) /\ Len(b.data) \in 1..PageSize
    BY <1>1, BlockArguments, BlocksFit DEF BlockFits
  <2>3. High(Len(b.data)) = 0
    <3>1. Len(b.data) <= 69
      BY DEF Unmistakable, EepromType
    <3> QED BY <2>2, <3>1, SmallHalves
  <2>4. t # <<>> /\ Head(t) = 0
    BY <1>2, <2>2, <2>3, SizesFacts
  <2>5. Head(t) \in NoLetter
    BY <2>4, ZeroIsNoLetter
  <2> QED BY <2>1, <2>4, <2>5 DEF Headless
<1> QED BY <1>3, <1>4

LEMMA SettingLost ==
  ASSUME Unmistakable, TypeInv, LoseToLoader, losses' = 1, ComingDevice \/ ComingAddress
  PROVE  Short' \/ Headless'
<1>1. CASE ComingDevice
  <2>1. PICK c, x, t, s : c = 84 /\ x = DevType /\ t = <<x>> /\ s = <<c, x>>
    OBVIOUS
  <2>2. Coming("cr", 1, s) /\ c \in WithArguments /\ c \in Char /\ x \in Char /\ Arguments(84) = 1
    BY <1>1, <2>1, SizesFacts, LettersAreChars, ArgumentsIs DEF ComingDevice, WithArguments, Char
  <2>3. t \in Seq(Char) /\ s = <<c>> \o t /\ Len(t) = Arguments(c) /\ c # 66
    BY <2>1, <2>2, SpelledTwo
  <2>30. Spells(s, c, t)
    BY <2>2, <2>3 DEF Spells
  <2>4. CASE cmd # None
    <3>1. Indispensable(c, t)
      BY <2>2, <2>3, FewIndispensable
    <3> QED BY <2>2, <2>30, <2>4, <3>1, ArgumentLost
  <2>5. CASE cmd = None
    <3>1. /\ rx' = t /\ tx' = <<>> /\ Up' /\ AtRest' /\ HostWaits' /\ host'.what = "cr"
          /\ UNCHANGED <<mode, address, device, flash, eeprom, hostAddr, selected, image>>
      BY <2>2, <2>30, <2>5, ArgumentsLeft
    <3>2. rx' = <<DevType>> /\ rx' # <<>>
      BY <2>1, <3>1
    <3>3. Holds'
      BY <1>1, <3>1, HoldsKept DEF ComingDevice
    <3> QED BY <3>1, <3>2, <3>3 DEF Headless
  <2> QED BY <2>4, <2>5
<1>2. CASE ComingAddress
  <2>1. PICK w \in Addresses : Coming("cr", 1, <<65, High(w), Low(w)>>)
    BY <1>2 DEF ComingAddress
  <2>2. PICK c, z, y, t, s : c = 65 /\ z = High(w) /\ y = Low(w) /\ t = <<z, y>> /\ s = <<c, z, y>>
    OBVIOUS
  <2>21. z \in Char /\ y \in Char /\ z \in NoLetter
    BY <2>2, HostAssumption, Halves DEF Unmistakable
  <2>3. Coming("cr", 1, s) /\ c \in WithArguments /\ c \in Char /\ z \in Char /\ y \in Char /\ Arguments(65) = 2
    BY <2>1, <2>2, <2>21, LettersAreChars, ArgumentsIs DEF WithArguments
  <2>4. t \in Seq(Char) /\ s = <<c>> \o t /\ Len(t) = 2
    BY <2>2, <2>3, SpelledThree
  <2>40. Spells(s, c, t) /\ Len(t) = Arguments(c) /\ c # 66 /\ t \in Seq(Char)
    BY <2>2, <2>3, <2>4 DEF Spells
  <2>5. CASE cmd # None
    <3>1. Indispensable(c, t)
      BY <2>3, <2>40, FewIndispensable
    <3> QED BY <2>3, <2>40, <2>5, <3>1, ArgumentLost
  <2>6. CASE cmd = None
    <3>1. rx' = t /\ tx' = <<>> /\ Up' /\ AtRest' /\ HostWaits' /\ host'.what = "cr"
      BY <2>3, <2>40, <2>6, ArgumentsLeft
    <3>2. rx' # <<>> /\ Head(rx') = z
      BY <2>2, <3>1
    <3> QED BY <2>21, <3>1, <3>2 DEF Headless
  <2> QED BY <2>5, <2>6
<1> QED BY <1>1, <1>2

LEMMA AskLost ==
  ASSUME AsksFit, Unmistakable, TypeInv, LoseToLoader, losses' = 1, ComingAsk
  PROVE  NoMore' \/ Short' \/ AskLoose'
<1>1. PICK q \in Asks : Coming("ask", q.want, q.bytes) /\ Settings /\ Holds
  BY DEF ComingAsk
<1>2. PICK s, want : s = q.bytes /\ want = q.want
  OBVIOUS
<1>3. Coming("ask", want, s) /\ want > 0
  BY <1>1, <1>2, HostAssumption
<1>4. CASE \E c \in Char \ WithArguments : s = <<c>>
  BY <1>3, <1>4, LetterLost
<1>5. CASE \E c \in {120, 121}, x \in Char : s = <<c, x>>
  <2>1. PICK c \in {120, 121}, x \in Char : s = <<c, x>>
    BY <1>5
  <2>2. x # 101
    <3>1. 2 \in DOMAIN s /\ s[2] = x
      BY <2>1
    <3> QED BY <1>2, <3>1 DEF Unmistakable
  <2>3. PICK k, t : k = c /\ t = <<x>>
    OBVIOUS
  <2>4. k \in WithArguments /\ k \in Char /\ Arguments(k) = 1 /\ k # 66
    <3>1. Arguments(120) = 1 /\ Arguments(121) = 1
      BY LettersAreChars, ArgumentsIs
    <3> QED BY <2>1, <2>3, <3>1 DEF WithArguments, Char
  <2>5. t \in Seq(Char) /\ s = <<k>> \o t /\ Len(t) = Arguments(k)
    BY <2>1, <2>3, <2>4, SpelledTwo
  <2>50. Spells(s, k, t)
    BY <2>4, <2>5 DEF Spells
  <2>6. CASE cmd # None
    <3>1. Indispensable(k, t)
      BY <2>4, <2>5, FewIndispensable
    <3> QED BY <1>3, <2>50, <2>6, <3>1, ArgumentLost
  <2>7. CASE cmd = None
    <3>1. /\ rx' = t /\ tx' = <<>> /\ Up' /\ AtRest' /\ HostWaits' /\ host'.what = "ask"
          /\ UNCHANGED <<mode, address, device, flash, eeprom, hostAddr, selected, image>>
      BY <1>3, <2>50, <2>7, ArgumentsLeft
    <3>2. Holds' /\ Settings'
      BY <1>1, <3>1, HoldsKept DEF Settings
    <3>3. rx' = <<x>> /\ x \in Char \ {101}
      BY <2>2, <2>3, <3>1
    <3>4. AskLoose'
      BY <3>1, <3>2, <3>3 DEF AskLoose
    <3> QED BY <3>4
  <2> QED BY <2>6, <2>7
<1> QED BY <1>2, <1>4, <1>5 DEF AsksFit

LEMMA LoseToLoaderKeepsStory ==
  ASSUME AsksFit, OneLoss, Unmistakable, TypeInv, Shapes, KeptInv, LoseToLoader
  PROVE  Story'
<1>1. /\ rx # <<>> /\ rx' = Tail(rx) /\ host.pc # "sync" /\ mode # "app" /\ losses = 0 /\ losses' = 1
      /\ UNCHANGED <<mode, cmd, args, erasing, address, device, flash, eeprom, tx, host, hostAddr, selected, image>>
  BY Lose DEF LoseToLoader, loaderVars, memVars, hostVars
<1>2. ~Unconnected /\ ~Ready /\ ~Answered /\ ~ErasingAll /\ ~NoMore /\ ~Left /\ ~Unaware /\ ~Syncing
  BY <1>1 DEF Unconnected, Ready, Answered, ErasingAll, NoMore, Left, Unaware, Syncing
<1>3. ~Mismatched /\ ~Short /\ ~Headless /\ ~ReadGone /\ ~Stuck /\ ~AskLoose
  BY <1>1 DEF Mismatched, Short, Headless, ReadGone, Stuck, AskLoose, Muttering
<1>4. CASE Calling
  <2>1. rx = <<Start>> /\ tx = <<>> /\ mode \in {"wait", "hung"} /\ host = [pc |-> "await", want |-> 1, what |-> "connect"]
    BY <1>1, <1>4 DEF Calling, Awaits
  <2>2. rx' = <<>> /\ Len(tx') = 0 /\ HostWaits' /\ host'.want = 1
    BY <1>1, <2>1 DEF HostWaits
  <2>3. AtRest'
    BY <1>1, <2>1 DEF AtRest, TypeInv, LoaderInv
  <2>4. NoMore'
    BY <2>2, <2>3 DEF NoMore
  <2> QED BY <2>4 DEF Story, Apart
<1>5. CASE OnItsWay
  <2>1. CASE ComingDevice \/ ComingAddress
    BY <1>1, <2>1, SettingLost DEF Story, Apart
  <2>2. CASE ComingAsk
    BY <1>1, <2>2, AskLost DEF Story, Apart
  <2>3. CASE ComingErase \/ ComingExit
    <3>1. PICK c, what : c \in {101, 69} /\ Coming(what, 1, <<c>>)
      BY <2>3 DEF ComingErase, ComingExit
    <3>2. c \in Char \ WithArguments
      BY <3>1 DEF Char, WithArguments
    <3>3. NoMore'
      BY <3>1, <3>2, LetterLost
    <3> QED BY <3>3 DEF Story, Apart
  <2>4. CASE \E m \in {"FLASH", "EEPROM"} : ComingRead(m)
    BY <1>1, <2>4, ReadLost DEF Story, Apart
  <2>5. CASE \E b \in Blocks : ComingBlock(b)
    BY <1>1, <2>5, BlockLost DEF Story, Apart
  <2> QED BY <1>5, <2>1, <2>2, <2>3, <2>4, <2>5 DEF OnItsWay
<1>6. CASE Unheard
  <2>1. /\ HostWaits /\ host.what # "connect" /\ Down /\ tx = <<>>
        /\ \A i \in 1..Len(rx) : rx[i] = Start => host.what = "cr"
    BY <1>6 DEF Unheard
  <2>2. \A i \in 1..Len(Tail(rx)) : Tail(rx)[i] = rx[i + 1] /\ i + 1 \in 1..Len(rx)
    <3>1. rx \in Seq(Char)
      BY DEF TypeInv, LoaderInv
    <3> QED BY <1>1, <3>1, HeadTailProperties
  <2>3. \A i \in 1..Len(rx') : rx'[i] = Start => host'.what = "cr"
    BY <1>1, <2>1, <2>2
  <2>4. Unheard'
    BY <1>1, <2>1, <2>3 DEF Unheard, HostWaits, Down
  <2> QED BY <2>4 DEF Story, Apart
<1> QED BY <1>2, <1>3, <1>4, <1>5, <1>6 DEF KeptInv, Story, Agreed, Apart

-----------------------------------------------------------------------------
(* All steps. *)

LEMMA StoryStutters ==
  ASSUME UNCHANGED vars, Story
  PROVE  Story'
<1>1. UNCHANGED <<mode, cmd, args, erasing, address, device, flash, eeprom, rx, tx, host, hostAddr, selected,
                  image, losses>>
  BY DEF vars, loaderVars, memVars, lineVars, hostVars
<1>2. /\ Holds' = Holds /\ Settings' = Settings /\ AtRest' = AtRest /\ Up' = Up /\ FlashBlank' = FlashBlank
      /\ HostWaits' = HostWaits /\ Down' = Down
  BY <1>1 DEF Holds, Memory, Settings, AtRest, Up, FlashBlank, HostWaits, Down
<1>3. CASE Agreed
  BY <1>3, AgreedStutters DEF Story
<1>4. CASE Syncing
  BY <1>1, <1>4 DEF Syncing, Story
<1>5. CASE Apart
  <2>1. /\ NoMore => NoMore'
        /\ Left => Left'
        /\ Unaware => Unaware'
        /\ Unheard => Unheard'
    BY <1>1, <1>2 DEF NoMore, Left, Unaware, Unheard
  <2>2. /\ Short => Short'
        /\ Headless => Headless'
        /\ AskLoose => AskLoose'
    BY <1>1, <1>2 DEF Short, Headless, AskLoose
  <2>3. Muttering => Muttering'
    BY <1>1, <1>2 DEF Muttering
  <2>4. (ReadGone => ReadGone') /\ (Stuck => Stuck')
    BY <1>1, <1>2, <2>3 DEF ReadGone, Stuck
  <2>5. ASSUME Mismatched PROVE Mismatched'
    <3>1. PICK c : c = Head(tx) /\ ~Expected(c)
      BY <2>5 DEF Mismatched
    <3>2. ~Expected(c)'
      BY <1>1, <3>1, ExpectedSame
    <3>3. ~Expected(Head(tx))'
      BY <1>1, <3>1, <3>2 DEF Expected, ByteAddr
    <3> QED BY <1>1, <1>2, <2>5, <3>3 DEF Mismatched
  <2> QED BY <1>5, <2>1, <2>2, <2>4, <2>5 DEF Apart, Story
<1> QED BY <1>3, <1>4, <1>5 DEF Story

\* The host waits for something.
LEMMA WaitsForSome ==
  ASSUME TypeInv, Shapes, KeptInv, [Next]_vars, HostWaits'
  PROVE  host'.want > 0
<1>1. ASSUME UNCHANGED host PROVE host'.want > 0
  BY <1>1 DEF KeptInv, HostWaits
<1>2. CASE HostReceives
  <2>1. host.want \in Nat
    BY DEF Shapes, HostShape
  <2>2. host.want > 1 /\ host'.want = host.want - 1
    BY <1>2, Takes DEF HostWaits, Syncing
  <2> QED BY <2>1, <2>2
<1>3. CASE Host
  <2>1. ASSUME NEW bytes, NEW what, NEW want \in Nat \ {0}, Asking(bytes, what, want) PROVE host'.want > 0
    BY <2>1 DEF Asking
  <2>2. HostConnect => host'.want > 0
    BY DEF HostConnect
  <2>3. HostAsk => host'.want > 0
    BY <2>1, HostAssumption DEF HostAsk
  <2>4. ASSUME ~HostConnect, ~HostAsk PROVE host'.want > 0
    <3>1. \E bytes, what, want : Asking(bytes, what, want) /\ want \in {1, 2}
      BY <1>3, <2>4 DEF Host, HostSetDevice, HostSetAddress, HostErase, HostBlock, HostRead, HostExit
    <3> QED BY <2>1, <3>1
  <2> QED BY <2>2, <2>3, <2>4
<1>4. ~HostTimeout /\ ~HostSynced
  <2>1. HostTimeout => host'.pc = "sync"
    BY DEF HostTimeout, Lost, Idle
  <2>2. HostSynced => host'.pc \in {"idle", "off"}
    BY DEF HostSynced, Idle
  <2> QED BY <2>1, <2>2 DEF HostWaits
<1>5. CASE Loader
  BY <1>1, <1>5, LoaderFrame
<1>6. CASE HostEscapes \/ LoseToLoader \/ LoseToHost \/ PowerFails \/ UNCHANGED vars
  <2>1. UNCHANGED host
    BY <1>6 DEF HostEscapes, LoseToLoader, LoseToHost, PowerFails, Restarts, vars, hostVars
  <2> QED BY <1>1, <2>1
<1> QED BY <1>2, <1>3, <1>4, <1>5, <1>6 DEF Next, HostProceeds

LEMMA FewLosses ==
  ASSUME OneLoss, TypeInv, KeptInv, [Next]_vars
  PROVE  losses' <= 1
<1>1. CASE LoseToLoader \/ LoseToHost
  BY <1>1, Lose
<1>2. CASE ~LoseToLoader /\ ~LoseToHost
  <2>1. \A bytes, what, want : Asking(bytes, what, want) => losses' = losses
    BY DEF Asking
  <2>2. Host => HostConnect \/ \E bytes, what, want : Asking(bytes, what, want)
    BY DEF Host, HostSetDevice, HostAsk, HostSetAddress, HostErase, HostBlock, HostRead, HostExit
  <2>3. HostConnect \/ HostProceeds \/ PowerFails \/ UNCHANGED vars => losses' = losses
    BY DEF HostConnect, HostProceeds, HostReceives, HostTimeout, HostEscapes, HostSynced, PowerFails, Restarts, vars
  <2>4. Loader => losses' = losses
    BY LoaderFrame
  <2> QED BY <1>2, <2>1, <2>2, <2>3, <2>4 DEF Next, KeptInv
<1> QED BY <1>1, <1>2

LEMMA KeptNext ==
  ASSUME AsksFit, WholeWords, OneLoss, Unmistakable
  PROVE  TypeInv /\ Shapes /\ EscapesInv /\ KeptInv /\ [Next]_vars => KeptInv'
<1> SUFFICES ASSUME TypeInv, Shapes, EscapesInv, KeptInv, [Next]_vars PROVE Story'
  BY WaitsForSome, FewLosses DEF KeptInv
<1>1. CASE UNCHANGED vars
  BY <1>1, StoryStutters DEF KeptInv
<1>2. CASE Loader
  BY <1>2, LoaderKeepsStory
<1>3. CASE Host
  BY <1>3, HostKeepsStory
<1>4. CASE HostProceeds
  BY <1>4, ReceivesKeepsStory, StartsOver DEF HostProceeds
<1>5. CASE LoseToLoader
  BY <1>5, LoseToLoaderKeepsStory
<1>6. CASE LoseToHost
  BY <1>6, LoseToHostKeepsStory
<1>7. CASE PowerFails
  BY <1>7, PowerKeepsStory
<1> QED BY <1>1, <1>2, <1>3, <1>4, <1>5, <1>6, <1>7 DEF Next

LEMMA KeptInit == Init => KeptInv
<1> SUFFICES ASSUME Init PROVE KeptInv
  OBVIOUS
<1>1. Unconnected
  BY StartsAgreed
<1>2. losses = 0 /\ ~HostWaits
  BY <1>1 DEF Init, HostWaits, Unconnected
<1> QED BY <1>1, <1>2 DEF KeptInv, Story, Agreed

\* What the loader acknowledged is in memory and stays there, at any moment of a session in which one
\* character may be lost and the power may fail as often as it likes: no step of loader, host or line
\* leads to an acknowledgement the host takes for one of a block or an erase that was not done.
\* For a host that works, of whose bytes none can be mistaken for a command that changes something
\* (Unmistakable): its blocks have at most 69 bytes, for the loader takes the memory type of a longer one
\* that lost the low byte of its length for that length, and acknowledges what it has not stored.
THEOREM AckedStays ==
  ASSUME AsksFit, WholeWords, OneLoss, Unmistakable
  PROVE  Spec => []AckedIsKept
<1>1. Init => EscapesInv
  BY DEF Init, EscapesInv
<1>2. Spec => [](TypeInv /\ Shapes /\ EscapesInv /\ KeptInv)
  BY <1>1, InitType, NextType, ShapesInit, ShapesKept, EscapesNext, KeptInit, KeptNext, PTL DEF Spec
<1>3. KeptInv => AckedIsKept
  <2> SUFFICES ASSUME KeptInv, host.pc \in {"idle", "off"} PROVE Holds
    BY DEF AckedIsKept, Holds
  <2>1. CASE Agreed
    BY <2>1, Phases DEF Unconnected, Ready
  <2>2. CASE Apart
    BY <2>2, ApartPhases DEF Apart, HostWaits, Unaware, Stuck, Muttering
  <2>3. ~Syncing
    BY ApartPhases
  <2> QED BY <2>1, <2>2, <2>3 DEF KeptInv, Story
<1> QED BY <1>2, <1>3, PTL
=============================================================================
