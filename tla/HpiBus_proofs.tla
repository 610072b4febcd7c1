--------------------------- MODULE HpiBus_proofs ---------------------------
(***************************************************************************)
(* Proofs about HpiBus: the accesses of the driver are reads and writes of *)
(* a memory, for every size of the memory and every speed of the chip and  *)
(* of the processor with Gap >= Access + 3.                                *)
(***************************************************************************)
EXTENDS HpiBus, TLAPS

Ins == [address : {HPI_DATA, HPI_ADDR}, cs : BOOLEAN, r : BOOLEAN,
        w : BOOLEAN, data : Place]

\* A call has one data word or two.
LEMMA CallShape ==
  ASSUME NEW c \in Calls
  PROVE  /\ c.at \in Place
         /\ c.fn \in {"write", "read"}
         /\ c.fn = "read" => Ios(c) = 2
         /\ c.fn = "write" => /\ Len(c.words) \in {1, 2}
                              /\ Ios(c) = 1 + Len(c.words)
                              /\ \A i \in 1 .. Len(c.words) : c.words[i] \in Place
<1>1. CASE c \in [fn : {"read"}, at : Place, words : {<<>>}]
  BY <1>1 DEF Ios
<1>2. CASE c \in [fn : {"write"}, at : Place,
                  words : {<<d>> : d \in Place} \cup (Place \X Place)]
  <2>1. c.at \in Place /\ c.fn = "write" /\ Ios(c) = 1 + Len(c.words)
    BY <1>2 DEF Ios
  <2>2. CASE c.words \in {<<d>> : d \in Place}
    <3>1. PICK d \in Place : c.words = <<d>>
      BY <2>2
    <3>2. QED
      BY <3>1, <2>1
  <2>3. CASE c.words \in Place \X Place
    <3>1. PICK d \in Place, e \in Place : c.words = <<d, e>>
      BY <2>3
    <3>2. QED
      BY <3>1, <2>1
  <2>4. QED
    BY <1>2, <2>2, <2>3
<1>3. QED
  BY <1>1, <1>2 DEF Calls

LEMMA TwoOrThree ==
  ASSUME NEW c \in Calls
  PROVE  Ios(c) \in {2, 3}
<1>1. c.fn = "read" => Ios(c) = 2
  BY CallShape
<1>2. c.fn = "write" => Ios(c) = 2 \/ Ios(c) = 3
  <2>1. PICK n : n = Len(c.words)
    OBVIOUS
  <2>2. c.fn = "write" => n \in {1, 2} /\ Ios(c) = 1 + n
    BY <2>1, CallShape
  <2>3. QED
    BY <2>2
<1>3. c.fn \in {"write", "read"}
  BY CallShape
<1>4. QED
  BY <1>1, <1>2, <1>3

\* A port access in progress, by its place in the read or write it is of.
LEMMA Sixths ==
  ASSUME NEW s \in 0 .. 18
  PROVE  /\ s \div 6 \in 0 .. 3 /\ s % 6 \in 0 .. 5
         /\ s = (6 * (s \div 6)) + (s % 6)
         /\ (s + 1) % 6 = IF s % 6 = 5 THEN 0 ELSE (s % 6) + 1
         /\ (s + 1) \div 6 = IF s % 6 = 5 THEN (s \div 6) + 1 ELSE s \div 6
         /\ s < 6 <=> s \div 6 = 0
<1>1. s \div 6 \in 0 .. 3 /\ s % 6 \in 0 .. 5
  OBVIOUS
<1>2. s = (6 * (s \div 6)) + (s % 6)
  OBVIOUS
<1>3. (s + 1) % 6 = IF s % 6 = 5 THEN 0 ELSE (s % 6) + 1
  OBVIOUS
<1>4. (s + 1) \div 6 = IF s % 6 = 5 THEN (s \div 6) + 1 ELSE s \div 6
  OBVIOUS
<1>5. s < 6 <=> s \div 6 = 0
  BY <1>1, <1>2
<1>6. QED
  BY <1>1, <1>2, <1>3, <1>4, <1>5

\* What one port access does to the ports: to the select and the strobes, and
\* to the rest.
Flags(j, now, old, new) ==
  /\ j = 1 => new.cs
  /\ j = 4 => ~new.cs
  /\ j \notin {1, 4} => new.cs = old.cs
  /\ j = 2 /\ now => new.w /\ new.r = old.r
  /\ j = 2 /\ ~now => new.r /\ new.w = old.w
  /\ j = 5 /\ now => ~new.w /\ new.r = old.r
  /\ j = 5 /\ ~now => ~new.r /\ new.w = old.w
  /\ j \notin {2, 5} => new.w = old.w /\ new.r = old.r

Values(j, now, d) ==
  /\ j = 0 => sw'.address = IF step < 6 THEN HPI_ADDR ELSE HPI_DATA
  /\ j # 0 => sw'.address = sw.address
  /\ j = 3 /\ now => sw'.data = d
  /\ ~(j = 3 /\ now) => sw'.data = sw.data
  /\ j = 3 /\ ~now => temp' = readdata
  /\ ~(j = 3 /\ ~now) => temp' = temp

Effect ==
  /\ sw' \in Ins
  /\ Flags(step % 6, Writes(call, step), sw, sw')
  /\ Values(step % 6, Writes(call, step), Datum(call, step))

LEMMA Nth ==
  ASSUME NEW x1, NEW x2, NEW x3, NEW x4, NEW x5, NEW x6
  PROVE  LET s == <<x1, x2, x3, x4, x5, x6>>
         IN s[1] = x1 /\ s[2] = x2 /\ s[3] = x3 /\ s[4] = x4 /\ s[5] = x5 /\ s[6] = x6
OBVIOUS

\* Putting one port.
LEMMA PutAddress ==
  ASSUME NEW s \in Ins, NEW x \in {HPI_DATA, HPI_ADDR},
         NEW t, t = [s EXCEPT !["address"] = x]
  PROVE  t \in Ins /\ t.address = x /\ t.cs = s.cs /\ t.r = s.r /\ t.w = s.w /\ t.data = s.data
BY DEF Ins

LEMMA PutData ==
  ASSUME NEW s \in Ins, NEW x \in Place,
         NEW t, t = [s EXCEPT !["data"] = x]
  PROVE  t \in Ins /\ t.data = x /\ t.address = s.address /\ t.cs = s.cs /\ t.r = s.r /\ t.w = s.w
BY DEF Ins

LEMMA PutCs ==
  ASSUME NEW s \in Ins, NEW b \in BOOLEAN,
         NEW t, t = [s EXCEPT !["cs"] = b]
  PROVE  t \in Ins /\ t.cs = b /\ t.address = s.address /\ t.r = s.r /\ t.w = s.w /\ t.data = s.data
BY DEF Ins

LEMMA PutR ==
  ASSUME NEW s \in Ins, NEW b \in BOOLEAN,
         NEW t, t = [s EXCEPT !["r"] = b]
  PROVE  t \in Ins /\ t.r = b /\ t.address = s.address /\ t.cs = s.cs /\ t.w = s.w /\ t.data = s.data
BY DEF Ins

LEMMA PutW ==
  ASSUME NEW s \in Ins, NEW b \in BOOLEAN,
         NEW t, t = [s EXCEPT !["w"] = b]
  PROVE  t \in Ins /\ t.w = b /\ t.address = s.address /\ t.cs = s.cs /\ t.r = s.r /\ t.data = s.data
BY DEF Ins

LEMMA WriteParts ==
  ASSUME NEW x, NEW d
  PROVE  /\ IO_write(x, d)[1] = Put("address", x) /\ IO_write(x, d)[2] = Put("cs", TRUE)
         /\ IO_write(x, d)[3] = Put("w", TRUE) /\ IO_write(x, d)[4] = Put("data", d)
         /\ IO_write(x, d)[5] = Put("cs", FALSE) /\ IO_write(x, d)[6] = Put("w", FALSE)
BY Nth, Zenon DEF IO_write

LEMMA ReadParts ==
  ASSUME NEW x
  PROVE  /\ IO_read(x)[1] = Put("address", x) /\ IO_read(x)[2] = Put("cs", TRUE)
         /\ IO_read(x)[3] = Put("r", TRUE) /\ IO_read(x)[4] = Get
         /\ IO_read(x)[5] = Put("cs", FALSE) /\ IO_read(x)[6] = Put("r", FALSE)
BY Nth, Zenon DEF IO_read

LEMMA WriteSelects ==
  ASSUME NEW x, NEW d
  PROVE  IO_write(x, d)[2] = Put("cs", TRUE)
BY Nth, Zenon DEF IO_write

LEMMA WriteStrobes ==
  ASSUME NEW x, NEW d
  PROVE  IO_write(x, d)[3] = Put("w", TRUE)
BY Nth, Zenon DEF IO_write

\* The next access of a write, and of a read.
LEMMA PortEffect ==
  ASSUME TypeOK, Steps, PortAccess
  PROVE  Effect /\ step \in 0 .. 17 /\ step \div 6 < Ios(call)
<1> DEFINE j == step % 6
           a == Io(call, step \div 6)[j + 1]
           port == IF step < 6 THEN HPI_ADDR ELSE HPI_DATA
<1>1. /\ call \in Calls /\ step \in 0 .. 18 /\ step < 6 * Ios(call)
      /\ sw \in Ins
      /\ a.port = "get" => temp' = readdata /\ sw' = sw
      /\ a.port # "get" => sw' = [sw EXCEPT ![a.port] = a.x] /\ temp' = temp
  BY DEF TypeOK, PortAccess, Ins
<1>2. /\ call.at \in Place
      /\ call.fn \in {"write", "read"}
      /\ call.fn = "read" => Ios(call) = 2
      /\ call.fn = "write" => /\ Len(call.words) \in {1, 2}
                              /\ Ios(call) = 1 + Len(call.words)
                              /\ \A i \in 1 .. Len(call.words) : call.words[i] \in Place
  BY <1>1, CallShape
<1>3. /\ step \in 0 .. 17 /\ j \in 0 .. 5
      /\ step \div 6 < Ios(call)
      /\ step \div 6 \in 0 .. 2
      /\ step < 6 <=> step \div 6 = 0
  <2>1. step \in 0 .. 17 /\ step \in 0 .. 18 /\ step < 6 * Ios(call)
    BY <1>1, <1>2
  <2>2. /\ step \div 6 \in 0 .. 3 /\ step % 6 \in 0 .. 5
        /\ step = (6 * (step \div 6)) + (step % 6)
    BY <2>1, Sixths
  <2>3. step < 6 <=> step \div 6 = 0
    BY <2>1, Sixths, Zenon
  <2>4. Ios(call) \in {2, 3}
    BY <1>1, TwoOrThree
  <2> QED
    BY ONLY <2>1, <2>2, <2>3, <2>4 DEF j
<1>d. PICK d : d = Datum(call, step)
  OBVIOUS
<1>4. Writes(call, step) => Io(call, step \div 6) = IO_write(port, d)
  BY <1>d, <1>1, <1>2, <1>3 DEF Io, Writes, Datum
<1>5. ~Writes(call, step) => Io(call, step \div 6) = IO_read(port)
  BY <1>1, <1>2, <1>3 DEF Io, Writes, Datum
<1>6. Writes(call, step) => d \in Place
  BY <1>d, <1>1, <1>2, <1>3 DEF Writes, Datum
<1>7. port \in {HPI_DATA, HPI_ADDR}
  OBVIOUS
<1> DEFINE Done == sw' \in Ins /\ Flags(j, Writes(call, step), sw, sw') /\ Values(j, Writes(call, step), d)
<1>w. sw \in Ins
  BY <1>1
<1> HIDE DEF port, j, a, Done
<1>8. ASSUME Writes(call, step) PROVE Done
  <2>0. Io(call, step \div 6) = IO_write(port, d)
    BY <1>8, <1>4
  <2>1. CASE j = 0
    <3>0. a = IO_write(port, d)[1]
      BY <2>0, <2>1 DEF a
    <3>1. a = Put("address", port)
      BY <3>0, WriteParts, Zenon
    <3>2. a.port = "address" /\ a.x = port
      BY <3>1 DEF Put
    <3>3. sw' = [sw EXCEPT !["address"] = port] /\ temp' = temp
      BY <3>2, <1>1
    <3>4. sw' \in Ins /\ sw'.address = port /\ sw'.cs = sw.cs /\ sw'.r = sw.r
          /\ sw'.w = sw.w /\ sw'.data = sw.data
      BY <3>3, <1>w, <1>7, PutAddress
    <3>5. Flags(j, Writes(call, step), sw, sw')
      BY <3>4, <1>8, <2>1 DEF Flags
    <3>6. Values(j, Writes(call, step), d)
      BY <3>3, <3>4, <1>8, <2>1 DEF Values, port
    <3>7. QED
      BY <3>4, <3>5, <3>6 DEF Done
  <2>2. CASE j = 1
    <3>0. a = IO_write(port, d)[2]
      BY <2>0, <2>2 DEF a
    <3>1. a = Put("cs", TRUE)
      BY ONLY <3>0, WriteSelects
    <3>2. a.port = "cs" /\ a.x = TRUE
      BY <3>1 DEF Put
    <3>3. sw' = [sw EXCEPT !["cs"] = TRUE] /\ temp' = temp
      BY <3>2, <1>1
    <3>4. sw' \in Ins /\ sw'.address = sw.address /\ sw'.cs = TRUE /\ sw'.r = sw.r
          /\ sw'.w = sw.w /\ sw'.data = sw.data
      BY <3>3, <1>w, PutCs
    <3>5. Flags(j, Writes(call, step), sw, sw')
      BY <3>4, <1>8, <2>2 DEF Flags
    <3>6. Values(j, Writes(call, step), d)
      BY <3>3, <3>4, <1>8, <2>2 DEF Values
    <3>7. QED
      BY <3>4, <3>5, <3>6 DEF Done
  <2>3. CASE j = 2
    <3>0. a = IO_write(port, d)[3]
      BY <2>0, <2>3 DEF a
    <3>1. a = Put("w", TRUE)
      BY ONLY <3>0, WriteStrobes
    <3>2. a.port = "w" /\ a.x = TRUE
      BY <3>1 DEF Put
    <3>3. sw' = [sw EXCEPT !["w"] = TRUE] /\ temp' = temp
      BY <3>2, <1>1
    <3>4. sw' \in Ins /\ sw'.address = sw.address /\ sw'.cs = sw.cs /\ sw'.r = sw.r
          /\ sw'.w = TRUE /\ sw'.data = sw.data
      BY <3>3, <1>w, PutW
    <3>5. Flags(j, Writes(call, step), sw, sw')
      BY <3>4, <1>8, <2>3 DEF Flags
    <3>6. Values(j, Writes(call, step), d)
      BY <3>3, <3>4, <1>8, <2>3 DEF Values
    <3>7. QED
      BY <3>4, <3>5, <3>6 DEF Done
  <2>4. CASE j = 3
    <3>0. a = IO_write(port, d)[4]
      BY <2>0, <2>4 DEF a
    <3>1. a = Put("data", d)
      BY <3>0, WriteParts, Zenon
    <3>2. a.port = "data" /\ a.x = d
      BY <3>1 DEF Put
    <3>3. sw' = [sw EXCEPT !["data"] = d] /\ temp' = temp
      BY <3>2, <1>1
    <3>x. d \in Place
      BY <1>6, <1>8
    <3>4. sw' \in Ins /\ sw'.address = sw.address /\ sw'.cs = sw.cs /\ sw'.r = sw.r
          /\ sw'.w = sw.w /\ sw'.data = d
      BY <3>3, <1>w, <3>x DEF Ins
    <3>5. Flags(j, Writes(call, step), sw, sw')
      BY <3>4, <1>8, <2>4 DEF Flags
    <3>6. Values(j, Writes(call, step), d)
      BY <3>3, <3>4, <1>8, <2>4 DEF Values
    <3>7. QED
      BY <3>4, <3>5, <3>6 DEF Done
  <2>5. CASE j = 4
    <3>0. a = IO_write(port, d)[5]
      BY <2>0, <2>5 DEF a
    <3>1. a = Put("cs", FALSE)
      BY ONLY <3>0, WriteParts
    <3>2. a.port = "cs" /\ a.x = FALSE
      BY <3>1 DEF Put
    <3>3. sw' = [sw EXCEPT !["cs"] = FALSE] /\ temp' = temp
      BY <3>2, <1>1
    <3>4. sw' \in Ins /\ sw'.address = sw.address /\ sw'.cs = FALSE /\ sw'.r = sw.r
          /\ sw'.w = sw.w /\ sw'.data = sw.data
      BY <3>3, <1>w, PutCs
    <3>5. Flags(j, Writes(call, step), sw, sw')
      BY <3>4, <1>8, <2>5 DEF Flags
    <3>6. Values(j, Writes(call, step), d)
      BY <3>3, <3>4, <1>8, <2>5 DEF Values
    <3>7. QED
      BY <3>4, <3>5, <3>6 DEF Done
  <2>6. CASE j = 5
    <3>0. a = IO_write(port, d)[6]
      BY <2>0, <2>6 DEF a
    <3>1. a = Put("w", FALSE)
      BY ONLY <3>0, WriteParts
    <3>2. a.port = "w" /\ a.x = FALSE
      BY <3>1 DEF Put
    <3>3. sw' = [sw EXCEPT !["w"] = FALSE] /\ temp' = temp
      BY <3>2, <1>1
    <3>4. sw' \in Ins /\ sw'.address = sw.address /\ sw'.cs = sw.cs /\ sw'.r = sw.r
          /\ sw'.w = FALSE /\ sw'.data = sw.data
      BY <3>3, <1>w, PutW
    <3>5. Flags(j, Writes(call, step), sw, sw')
      BY <3>4, <1>8, <2>6 DEF Flags
    <3>6. Values(j, Writes(call, step), d)
      BY <3>3, <3>4, <1>8, <2>6 DEF Values
    <3>7. QED
      BY <3>4, <3>5, <3>6 DEF Done
  <2>7. QED
    BY <1>3, <2>1, <2>2, <2>3, <2>4, <2>5, <2>6
<1>9. ASSUME ~Writes(call, step) PROVE Done
  <2>0. Io(call, step \div 6) = IO_read(port)
    BY <1>9, <1>5
  <2>1. CASE j = 0
    <3>0. a = IO_read(port)[1]
      BY <2>0, <2>1 DEF a
    <3>1. a = Put("address", port)
      BY <3>0, ReadParts, Zenon
    <3>2. a.port = "address" /\ a.x = port
      BY <3>1 DEF Put
    <3>3. sw' = [sw EXCEPT !["address"] = port] /\ temp' = temp
      BY <3>2, <1>1
    <3>4. sw' \in Ins /\ sw'.address = port /\ sw'.cs = sw.cs /\ sw'.r = sw.r
          /\ sw'.w = sw.w /\ sw'.data = sw.data
      BY <3>3, <1>w, <1>7, PutAddress
    <3>5. Flags(j, Writes(call, step), sw, sw')
      BY <3>4, <1>9, <2>1 DEF Flags
    <3>6. Values(j, Writes(call, step), d)
      BY <3>3, <3>4, <1>9, <2>1 DEF Values, port
    <3>7. QED
      BY <3>4, <3>5, <3>6 DEF Done
  <2>2. CASE j = 1
    <3>0. a = IO_read(port)[2]
      BY <2>0, <2>2 DEF a
    <3>1. a = Put("cs", TRUE)
      BY ONLY <3>0, ReadParts
    <3>2. a.port = "cs" /\ a.x = TRUE
      BY <3>1 DEF Put
    <3>3. sw' = [sw EXCEPT !["cs"] = TRUE] /\ temp' = temp
      BY <3>2, <1>1
    <3>4. sw' \in Ins /\ sw'.address = sw.address /\ sw'.cs = TRUE /\ sw'.r = sw.r
          /\ sw'.w = sw.w /\ sw'.data = sw.data
      BY <3>3, <1>w, PutCs
    <3>5. Flags(j, Writes(call, step), sw, sw')
      BY <3>4, <1>9, <2>2 DEF Flags
    <3>6. Values(j, Writes(call, step), d)
      BY <3>3, <3>4, <1>9, <2>2 DEF Values
    <3>7. QED
      BY <3>4, <3>5, <3>6 DEF Done
  <2>3. CASE j = 2
    <3>0. a = IO_read(port)[3]
      BY <2>0, <2>3 DEF a
    <3>1. a = Put("r", TRUE)
      BY ONLY <3>0, ReadParts
    <3>2. a.port = "r" /\ a.x = TRUE
      BY <3>1 DEF Put
    <3>3. sw' = [sw EXCEPT !["r"] = TRUE] /\ temp' = temp
      BY <3>2, <1>1
    <3>4. sw' \in Ins /\ sw'.address = sw.address /\ sw'.cs = sw.cs /\ sw'.r = TRUE
          /\ sw'.w = sw.w /\ sw'.data = sw.data
      BY <3>3, <1>w, PutR
    <3>5. Flags(j, Writes(call, step), sw, sw')
      BY <3>4, <1>9, <2>3 DEF Flags
    <3>6. Values(j, Writes(call, step), d)
      BY <3>3, <3>4, <1>9, <2>3 DEF Values
    <3>7. QED
      BY <3>4, <3>5, <3>6 DEF Done
  <2>4. CASE j = 3
    <3>0. a = IO_read(port)[4]
      BY <2>0, <2>4 DEF a
    <3>1. a = Get
      BY <3>0, ReadParts, Zenon
    <3>2. a.port = "get"
      BY <3>1 DEF Get
    <3>3. temp' = readdata /\ sw' = sw
      BY <3>2, <1>1
    <3>4. Flags(j, Writes(call, step), sw, sw')
      BY <3>3, <1>9, <2>4 DEF Flags
    <3>5. QED
      BY <3>3, <3>4, <1>9, <2>4, <1>1 DEF Values, Done
  <2>5. CASE j = 4
    <3>0. a = IO_read(port)[5]
      BY <2>0, <2>5 DEF a
    <3>1. a = Put("cs", FALSE)
      BY ONLY <3>0, ReadParts
    <3>2. a.port = "cs" /\ a.x = FALSE
      BY <3>1 DEF Put
    <3>3. sw' = [sw EXCEPT !["cs"] = FALSE] /\ temp' = temp
      BY <3>2, <1>1
    <3>4. sw' \in Ins /\ sw'.address = sw.address /\ sw'.cs = FALSE /\ sw'.r = sw.r
          /\ sw'.w = sw.w /\ sw'.data = sw.data
      BY <3>3, <1>w, PutCs
    <3>5. Flags(j, Writes(call, step), sw, sw')
      BY <3>4, <1>9, <2>5 DEF Flags
    <3>6. Values(j, Writes(call, step), d)
      BY <3>3, <3>4, <1>9, <2>5 DEF Values
    <3>7. QED
      BY <3>4, <3>5, <3>6 DEF Done
  <2>6. CASE j = 5
    <3>0. a = IO_read(port)[6]
      BY <2>0, <2>6 DEF a
    <3>1. a = Put("r", FALSE)
      BY ONLY <3>0, ReadParts
    <3>2. a.port = "r" /\ a.x = FALSE
      BY <3>1 DEF Put
    <3>3. sw' = [sw EXCEPT !["r"] = FALSE] /\ temp' = temp
      BY <3>2, <1>1
    <3>4. sw' \in Ins /\ sw'.address = sw.address /\ sw'.cs = sw.cs /\ sw'.r = FALSE
          /\ sw'.w = sw.w /\ sw'.data = sw.data
      BY <3>3, <1>w, PutR
    <3>5. Flags(j, Writes(call, step), sw, sw')
      BY <3>4, <1>9, <2>6 DEF Flags
    <3>6. Values(j, Writes(call, step), d)
      BY <3>3, <3>4, <1>9, <2>6 DEF Values
    <3>7. QED
      BY <3>4, <3>5, <3>6 DEF Done
  <2>7. QED
    BY <1>3, <2>1, <2>2, <2>3, <2>4, <2>5, <2>6
<1>10. Done
  BY <1>8, <1>9
<1>11. Effect
  BY <1>d, <1>10 DEF Effect, Done, j
<1>12. QED
  BY <1>3, <1>11

\* The registers and the ports after one port access of the call c.
LEMMA PortsStep ==
  ASSUME NEW c, NEW s \in 0 .. 17, NEW old \in Ins, NEW new \in Ins,
         PortsAt(c, s, old.cs, old.r, old.w, old.address, old.data),
         Flags(s % 6, Writes(c, s), old, new),
         s % 6 = 0 => new.address = IF s < 6 THEN HPI_ADDR ELSE HPI_DATA,
         s % 6 # 0 => new.address = old.address,
         s % 6 = 3 /\ Writes(c, s) => new.data = Datum(c, s),
         ~(s % 6 = 3 /\ Writes(c, s)) => new.data = old.data
  PROVE  PortsAt(c, s + 1, new.cs, new.r, new.w, new.address, new.data)
<1> DEFINE j == s % 6
           k == (s + 1) % 6
<1>1. /\ j \in 0 .. 5 /\ k = IF j = 5 THEN 0 ELSE j + 1
      /\ j # 5 => (s + 1) \div 6 = s \div 6 /\ (s < 6 <=> s + 1 < 6)
  <2>1. s \in 0 .. 18 /\ s + 1 \in 0 .. 18
    OBVIOUS
  <2>2. QED
    BY <2>1, Sixths
<1>2. j # 5 => Writes(c, s + 1) = Writes(c, s) /\ Datum(c, s + 1) = Datum(c, s)
  BY <1>1 DEF Writes, Datum
<1> HIDE DEF j, k
<1>3. new.cs <=> k \in 2 .. 4
  BY <1>1 DEF PortsAt, Flags, j, k
<1>4. new.w <=> k \in 3 .. 5 /\ Writes(c, s + 1)
  BY <1>1, <1>2 DEF PortsAt, Flags, j, k
<1>5. new.r <=> k \in 3 .. 5 /\ ~Writes(c, s + 1)
  BY <1>1, <1>2 DEF PortsAt, Flags, j, k
<1>6. k # 0 => new.address = IF s + 1 < 6 THEN HPI_ADDR ELSE HPI_DATA
  BY <1>1, <1>2 DEF PortsAt, j, k
<1>7. k \in 4 .. 5 /\ Writes(c, s + 1) => new.data = Datum(c, s + 1)
  BY <1>1, <1>2 DEF PortsAt, j, k
<1>8. QED
  BY <1>3, <1>4, <1>5, <1>6, <1>7 DEF PortsAt, k

-----------------------------------------------------------------------------
(* The driver and the ports, whatever the resets. *)

LEMMA StepsKept ==
  ASSUME TypeOK, Steps, Next
  PROVE  Steps'
<1>1. CASE Call
  <2>1. call' \in Calls /\ step' = step /\ wait' = wait /\ step = 0
    BY <1>1 DEF Call, Steps
  <2>2. Ios(call') \in {2, 3}
    BY <2>1, TwoOrThree
  <2>3. QED
    BY <2>1, <2>2, IdleAssumption DEF Steps
<1>2. CASE PortAccess
  <2>1. /\ call # Idle /\ call' = call /\ step' = step + 1 /\ wait' = Gap
        /\ step \in 0 .. 18 /\ step < 6 * Ios(call) /\ call \in Calls
    BY <1>2 DEF PortAccess, TypeOK
  <2>2. Ios(call) \in {2, 3}
    BY <2>1, TwoOrThree
  <2>3. QED
    BY <2>1, <2>2 DEF Steps
<1>3. CASE Return
  BY <1>3 DEF Return, Steps
<1>4. CASE Compute
  BY <1>4 DEF Compute, Steps, TypeOK
<1>5. QED
  BY <1>1, <1>2, <1>3, <1>4 DEF Next

LEMMA PortsKept ==
  ASSUME TypeOK, Steps, Ports, Next
  PROVE  /\ PortsAt(call', step', sw'.cs, sw'.r, sw'.w, sw'.address, sw'.data)
         /\ sw' \in Ins /\ (sw.r => ~sw'.w)
<1>0. /\ sw \in Ins /\ step \in 0 .. 18
      /\ PortsAt(call, step, sw.cs, sw.r, sw.w, sw.address, sw.data)
      /\ ~(sw.r /\ sw.w)
  BY DEF TypeOK, Ins, Ports, PortsAt
<1>1. ASSUME sw' = sw, step' = 0, step % 6 = 0 PROVE
        PortsAt(call', step', sw'.cs, sw'.r, sw'.w, sw'.address, sw'.data)
  BY <1>0, <1>1 DEF PortsAt, Writes
<1>2. CASE Call
  <2>1. step = 0 /\ step' = 0 /\ sw' = sw
    BY <1>2 DEF Call, Steps
  <2>2. QED
    BY <2>1, <1>0, <1>1
<1>3. CASE PortAccess
  <2>1. call' = call /\ step' = step + 1
    BY <1>3 DEF PortAccess
  <2>2. Effect /\ step \in 0 .. 17
    BY <1>3, PortEffect
  <2>3. /\ sw' \in Ins /\ Flags(step % 6, Writes(call, step), sw, sw')
        /\ step % 6 = 0 => sw'.address = IF step < 6 THEN HPI_ADDR ELSE HPI_DATA
        /\ step % 6 # 0 => sw'.address = sw.address
        /\ step % 6 = 3 /\ Writes(call, step) => sw'.data = Datum(call, step)
        /\ ~(step % 6 = 3 /\ Writes(call, step)) => sw'.data = sw.data
    BY <2>2 DEF Effect, Values
  <2>4. PortsAt(call, step + 1, sw'.cs, sw'.r, sw'.w, sw'.address, sw'.data)
    BY <2>2, <2>3, <1>0, PortsStep
  <2>5. sw.r => ~sw'.w
    <3>1. sw.r => step % 6 \in 3 .. 5 /\ ~Writes(call, step) /\ ~sw.w
      BY <1>0 DEF PortsAt
    <3>2. QED
      BY <3>1, <2>3 DEF Flags
  <2>6. QED
    BY <2>1, <2>3, <2>4, <2>5
<1>4. CASE Return
  <2>1. /\ call # Idle /\ step = 6 * Ios(call) /\ step' = 0 /\ sw' = sw
        /\ call \in Calls
    BY <1>4 DEF Return, TypeOK
  <2>2. Ios(call) \in {2, 3}
    BY <2>1, TwoOrThree
  <2>3. step % 6 = 0
    BY <2>1, <2>2
  <2>4. QED
    BY <2>1, <2>3, <1>0, <1>1
<1>5. CASE Compute
  BY <1>5, <1>0 DEF Compute
<1>6. QED
  BY <1>2, <1>3, <1>4, <1>5 DEF Next

RegisterSet == [ADDR : {HPI_DATA, HPI_ADDR}, CS : BOOLEAN, RD : BOOLEAN,
                WR : BOOLEAN, RST : BOOLEAN, data : Place]

LEMMA ARegister ==
  ASSUME NEW a \in {HPI_DATA, HPI_ADDR}, NEW c \in BOOLEAN, NEW r \in BOOLEAN,
         NEW w \in BOOLEAN, NEW reset \in BOOLEAN, NEW d \in Place
  PROVE  [ADDR |-> a, CS |-> c, RD |-> r, WR |-> w, RST |-> reset, data |-> d]
           \in RegisterSet
BY DEF RegisterSet

\* The registers of the bridge follow the ports.
LEMMA Registered ==
  ASSUME Edge
  PROVE  /\ Reset => OTG' = [ADDR |-> 0, CS |-> FALSE, RD |-> FALSE,
                             WR |-> FALSE, RST |-> TRUE, data |-> 0]
         /\ Reset => ~OTG'.RD
         /\ ~Reset => /\ OTG' = [ADDR |-> sw.address, CS |-> sw.cs, RD |-> sw.r,
                                 WR |-> sw.w, RST |-> FALSE, data |-> sw.data]
                      /\ OTG'.ADDR = sw.address /\ OTG'.data = sw.data
                      /\ OTG'.CS = sw.cs /\ OTG'.RD = sw.r /\ OTG'.WR = sw.w
                      /\ ~OTG'.RST
BY DEF Edge, Register

LEMMA BusIsWord ==
  ASSUME TypeOK
  PROVE  Bus \in Word
<1>1. OTG.data \in Place /\ mem \in [Place -> Word] /\ pointer \in Word
  BY DEF TypeOK
<1>2. pointer # Unknown => mem[pointer] \in Word
  BY <1>1 DEF Word
<1>3. OTG.data \in Word /\ Unknown \in Word
  BY <1>1 DEF Word
<1>4. QED
  BY <1>2, <1>3, Zenon DEF Bus

LEMMA TypeKept ==
  ASSUME TypeOK, Steps, Ports, Next
  PROVE  TypeOK'
<1>1. Edge
  BY DEF Next
<1>2. call' \in Calls \cup {Idle} /\ step' \in 0 .. 18 /\ wait' \in 0 .. Gap
  <2>1. CASE Call
    BY <2>1 DEF Call, TypeOK
  <2>2. CASE PortAccess
    <3>1. step \in 0 .. 17
      BY <2>2, PortEffect
    <3>2. QED
      BY <2>2, <3>1, BusAssumption DEF PortAccess, TypeOK
  <2>3. CASE Return
    BY <2>3 DEF Return, TypeOK
  <2>4. CASE Compute
    BY <2>4, BusAssumption DEF Compute, TypeOK
  <2>5. QED
    BY <2>1, <2>2, <2>3, <2>4 DEF Next
<1>3. temp' \in Word
  <2>1. temp' = readdata \/ temp' = temp
    BY Zenon DEF Next, Call, PortAccess, Return, Compute
  <2>2. QED
    BY <2>1 DEF TypeOK
<1>4. sw' \in Ins
  BY PortsKept
<1>5. readdata' \in Word /\ from_sw_data_in' \in Word
  <2>1. 0 \in Word
    BY BusAssumption DEF Word, Place
  <2>2. QED
    BY <1>1, <2>1, BusIsWord DEF Edge, Fetch, TypeOK
<1>6. OTG' \in RegisterSet
  <2>1. 0 \in Place /\ 0 \in {HPI_DATA, HPI_ADDR}
    BY BusAssumption DEF Place, HPI_DATA
  <2>2. FALSE \in BOOLEAN /\ TRUE \in BOOLEAN
    OBVIOUS
  <2>3. CASE Reset
    <3>1. [ADDR |-> 0, CS |-> FALSE, RD |-> FALSE, WR |-> FALSE, RST |-> TRUE,
           data |-> 0] \in RegisterSet
      BY ONLY <2>1, <2>2, ARegister, Zenon
    <3>2. QED
      BY <1>1, <2>3, <3>1, Registered, Zenon
  <2>4. CASE ~Reset
    <3>1. /\ sw.address \in {HPI_DATA, HPI_ADDR} /\ sw.cs \in BOOLEAN
          /\ sw.r \in BOOLEAN /\ sw.w \in BOOLEAN /\ sw.data \in Place
      BY DEF TypeOK
    <3>2. [ADDR |-> sw.address, CS |-> sw.cs, RD |-> sw.r, WR |-> sw.w,
           RST |-> FALSE, data |-> sw.data] \in RegisterSet
      BY ONLY <2>2, <3>1, ARegister, Zenon
    <3>3. QED
      BY <1>1, <2>4, <3>2, Registered, Zenon
  <2>5. QED
    BY <2>3, <2>4
<1>7. pointer' \in Word
  <2>1. Onward \in Word
    <3>1. CASE pointer = Unknown
      BY <3>1 DEF Onward, Word
    <3>2. CASE pointer # Unknown
      <4>1. pointer \in 0 .. Size - 1
        BY <3>2 DEF TypeOK, Word, Place
      <4>2. (pointer + 1) % Size \in 0 .. Size - 1
        BY <4>1, BusAssumption
      <4>3. QED
        BY <4>2, <3>2 DEF Onward, Word, Place
    <3>3. QED
      BY <3>1, <3>2
  <2>2. Unknown \in Word /\ pointer \in Word /\ Bus \in Word
    BY BusIsWord DEF Word, TypeOK
  <2>3. pointer' \in {Unknown, Bus, Onward, pointer}
    BY <1>1, Zenon DEF Edge, Chip
  <2>4. QED
    BY <2>1, <2>2, <2>3
<1>8. mem' \in [Place -> Word]
  <2>1. Unknown \in Word /\ mem \in [Place -> Word] /\ Bus \in Word
    BY BusIsWord DEF Word, TypeOK
  <2>2. mem' = [a \in Place |-> mem'[a]]
        /\ \A a \in Place : mem'[a] \in {Unknown, Bus, mem[a]}
    BY <1>1, Zenon DEF Edge, Chip
  <2>3. QED
    BY <2>1, <2>2
<1>9. ready' \in 0 .. Access
  BY <1>1, BusAssumption DEF Edge, Chip, TypeOK
<1>10. Reset' \in BOOLEAN /\ resets' \in 0 .. MaxResets /\ spoiled' \in BOOLEAN
  <2>1. Reset' \in BOOLEAN
    BY <1>1 DEF Edge, Button
  <2>2. resets' \in 0 .. MaxResets
    BY <1>1, BusAssumption DEF Edge, Button, TypeOK
  <2>3. spoiled' \in BOOLEAN
    BY <1>1 DEF Edge, Button
  <2>4. QED
    BY <2>1, <2>2, <2>3
<1>11. QED
  BY <1>2, <1>3, <1>4, <1>5, <1>6, <1>7, <1>8, <1>9, <1>10 DEF TypeOK, Ins, RegisterSet

LEMMA RegistersKept ==
  ASSUME TypeOK, Steps, Ports, Next
  PROVE  Registers'
<1> SUFFICES ASSUME ~spoiled'
             PROVE  /\ ~Reset' /\ ~OTG'.RST
                    /\ PortsAt(call', Seen', OTG'.CS, OTG'.RD, OTG'.WR, OTG'.ADDR,
                               OTG'.data)
  BY DEF Registers
<1>1. ~Reset /\ ~Reset'
  BY DEF Next, Edge, Button
<1>2. /\ OTG'.ADDR = sw.address /\ OTG'.data = sw.data /\ OTG'.CS = sw.cs
      /\ OTG'.RD = sw.r /\ OTG'.WR = sw.w /\ ~OTG'.RST
  BY <1>1, Registered DEF Next
<1>3. PortsAt(call, step, sw.cs, sw.r, sw.w, sw.address, sw.data)
  BY DEF Ports
<1>4. PortsAt(call', Seen', sw.cs, sw.r, sw.w, sw.address, sw.data)
  <2>1. Gap' = Gap /\ Gap >= 3
    BY BusAssumption
  <2>2. CASE Call
    <3>1. step = 0 /\ step' = 0 /\ wait' = 0
      BY <2>2 DEF Call, Steps
    <3>2. Seen' = 0
      BY <3>1, <2>1 DEF Seen
    <3>3. QED
      BY <3>1, <3>2, <1>3 DEF PortsAt, Writes
  <2>3. CASE PortAccess
    <3>1. step' = step + 1 /\ wait' = Gap /\ call' = call /\ step \in 0 .. 18
      BY <2>3 DEF PortAccess, TypeOK
    <3>2. Seen' = step
      BY <3>1, <2>1 DEF Seen
    <3>3. QED
      BY <3>1, <3>2, <1>3
  <2>4. CASE Return
    <3>1. /\ call \in Calls /\ step = 6 * Ios(call) /\ step' = 0 /\ wait' = 0
      BY <2>4 DEF Return, TypeOK
    <3>2. Seen' = 0
      BY <3>1, <2>1 DEF Seen
    <3>3. step % 6 = 0
      BY <3>1, TwoOrThree
    <3>4. QED
      BY <3>2, <3>3, <1>3 DEF PortsAt, Writes
  <2>5. CASE Compute
    <3>1. step' = step /\ call' = call /\ wait' # Gap
      BY <2>5, <2>1 DEF Compute, TypeOK
    <3>2. Seen' = step
      BY <3>1, <2>1 DEF Seen
    <3>3. QED
      BY <3>1, <3>2, <1>3
  <2>6. QED
    BY <2>2, <2>3, <2>4, <2>5 DEF Next
<1>5. QED
  BY <1>1, <1>2, <1>4 DEF PortsAt

-----------------------------------------------------------------------------
(* The cycles of the chip in a call no reset falls into. *)

\* The chip's cycle of this access ends at the next edge.
Ending == step % 6 = 5 /\ wait = Gap

LEMMA OverAt ==
  ASSUME TypeOK, Steps, Registers, ~spoiled
  PROVE  /\ Seen \in 0 .. 18
         /\ Over = IF Ending THEN step \div 6 ELSE (step + 1) \div 6
<1>1. step \in 0 .. 18 /\ Gap \in Nat /\ Gap >= 3 /\ (step = 0 => wait = 0)
  BY BusAssumption DEF TypeOK, Steps
<1>2. Seen \in 0 .. 18
  BY <1>1 DEF Seen
<1>3. OTG.CS <=> Seen % 6 \in 2 .. 4
  BY DEF Registers, PortsAt
<1>4. step % 6 = 5 => (Seen % 6 \in 2 .. 4 <=> wait = Gap)
  BY <1>1 DEF Seen
<1>5. QED
  BY <1>2, <1>3, <1>4, Zenon DEF Over, Ending

LEMMA CycleEnds ==
  ASSUME TypeOK, Steps, Ports, Registers, Next, ~spoiled, ~spoiled'
  PROVE  /\ (WriteCycle /\ ~WriteCycle') <=> (Ending /\ Writes(call, step))
         /\ (ReadCycle /\ ~ReadCycle') <=> (Ending /\ ~Writes(call, step))
<1>0. ~Reset /\ Edge
  BY DEF Next, Edge, Button
<1>1. /\ OTG'.CS = sw.cs /\ OTG'.RD = sw.r /\ OTG'.WR = sw.w
  BY <1>0, Registered
<1>2. /\ sw.cs <=> step % 6 \in 2 .. 4
      /\ sw.w <=> step % 6 \in 3 .. 5 /\ Writes(call, step)
      /\ sw.r <=> step % 6 \in 3 .. 5 /\ ~Writes(call, step)
  BY DEF Ports, PortsAt
<1>3. /\ OTG.CS <=> Seen % 6 \in 2 .. 4
      /\ OTG.WR <=> Seen % 6 \in 3 .. 5 /\ Writes(call, Seen)
      /\ OTG.RD <=> Seen % 6 \in 3 .. 5 /\ ~Writes(call, Seen)
  BY DEF Registers, PortsAt
<1>4. /\ step % 6 \in 3 .. 5 /\ step % 6 \in 2 .. 4 <=> step % 6 \in 3 .. 4
      /\ Seen % 6 \in 3 .. 5 /\ Seen % 6 \in 2 .. 4 <=> Seen % 6 \in 3 .. 4
  OBVIOUS
<1>5. Seen % 6 \in 3 .. 4 /\ step % 6 \notin 3 .. 4 <=> Ending
  <2>1. step \in 0 .. 18 /\ Gap \in Nat /\ Gap >= 3 /\ (step = 0 => wait = 0)
    BY BusAssumption DEF TypeOK, Steps
  <2>2. CASE wait = Gap
    <3>1. step \in 1 .. 18 /\ Seen = step - 1 /\ step - 1 \in 0 .. 18
      BY <2>1, <2>2 DEF Seen
    <3>2. step % 6 = IF (step - 1) % 6 = 5 THEN 0 ELSE ((step - 1) % 6) + 1
      BY <3>1
    <3>3. (step - 1) % 6 \in 0 .. 5
      BY <3>1
    <3>4. QED
      BY <3>1, <3>2, <3>3, <2>2 DEF Ending
  <2>3. CASE wait # Gap
    BY <2>3 DEF Seen, Ending
  <2>4. QED
    BY <2>2, <2>3
<1>6. Seen % 6 \in 3 .. 4 => (Writes(call, Seen) <=> Writes(call, step))
  <2>1. step \in 0 .. 18 /\ Seen \in 0 .. 18
    BY OverAt DEF TypeOK
  <2>2. Seen % 6 \in 3 .. 4 => (Seen < 6 <=> step < 6)
    BY <2>1 DEF Seen
  <2>3. QED
    BY <2>2 DEF Writes
<1> DEFINE now == Writes(call, step)
           then == Writes(call, Seen)
           new == step % 6 \in 3 .. 4
           old == Seen % 6 \in 3 .. 4
<1>7. WriteCycle' <=> new /\ now
  BY <1>1, <1>2, <1>4 DEF WriteCycle
<1>8. ReadCycle' <=> new /\ ~now
  BY <1>1, <1>2, <1>4 DEF ReadCycle
<1>9. WriteCycle <=> old /\ then
  BY <1>3, <1>4 DEF WriteCycle
<1>10. ReadCycle <=> old /\ ~then
  BY <1>3, <1>4 DEF ReadCycle
<1>11. (old /\ ~new <=> Ending) /\ (old => (then <=> now))
  BY <1>5, <1>6
<1> HIDE DEF now, then, new, old
<1>12. QED
  BY <1>7, <1>8, <1>9, <1>10, <1>11, Zenon DEF now

LEMMA WhoMoves ==
  ASSUME TypeOK, Steps, Next
  PROVE  Ending => Compute /\ call \in Calls /\ wait' = Gap - 1 /\ step' = step
<1>1. step = 0 => wait = 0
  BY DEF Steps
<1>2. Ending => step # 0 /\ wait = Gap /\ wait > 0
  BY BusAssumption DEF Ending
<1>3. Ending => call # Idle /\ call \in Calls
  BY <1>2 DEF Steps, TypeOK
<1>4. Ending => Compute
  BY <1>2, <1>3 DEF Next, Call, PortAccess, Return
<1>5. QED
  BY <1>2, <1>3, <1>4 DEF Compute

\* What the chip does at an edge.
LEMMA ChipStep ==
  ASSUME TypeOK, Steps, Ports, Registers, Next, ~spoiled, ~spoiled'
  PROVE  /\ ~Ending => pointer' = pointer /\ mem' = mem
         /\ Ending /\ step < 6 => pointer' = call.at /\ mem' = mem
         /\ Ending /\ step >= 6 => pointer' = Onward
         /\ Ending /\ step >= 6 /\ call.fn = "read" => mem' = mem
         /\ Ending /\ step >= 6 /\ call.fn = "write" /\ pointer # Unknown =>
              mem' = [mem EXCEPT ![pointer] = call.words[step \div 6]]
<1> DEFINE written == WriteCycle /\ ~WriteCycle'
           read == ReadCycle /\ ~ReadCycle'
           word == IF Bus' = Bus THEN Bus ELSE Unknown
<1>1. /\ pointer' = IF written /\ OTG.ADDR = HPI_ADDR THEN word
                    ELSE IF (written \/ read) /\ OTG.ADDR = HPI_DATA THEN Onward
                    ELSE pointer
      /\ mem' = [a \in Place |->
                  IF written /\ OTG.ADDR = HPI_DATA /\ pointer \in {a, Unknown}
                  THEN (IF pointer = a THEN word ELSE Unknown) ELSE mem[a]]
      /\ ~Reset /\ OTG'.data = sw.data
  <2>1. Edge /\ ~Reset
    BY DEF Next, Edge, Button
  <2>2. ~OTG'.RST /\ OTG'.data = sw.data
    BY <2>1, Registered
  <2>3. QED
    BY <2>1, <2>2, Zenon DEF Edge, Chip
<1>2. /\ written <=> (Ending /\ Writes(call, step))
      /\ read <=> (Ending /\ ~Writes(call, step))
  BY CycleEnds
<1>3. mem \in [Place -> Word] /\ step \in 0 .. 18
  BY DEF TypeOK
<1>4. Ending => OTG.ADDR = IF step < 6 THEN HPI_ADDR ELSE HPI_DATA
  <2>1. SUFFICES ASSUME Ending
                 PROVE  OTG.ADDR = IF step < 6 THEN HPI_ADDR ELSE HPI_DATA
    OBVIOUS
  <2>2. PortsAt(call, step - 1, OTG.CS, OTG.RD, OTG.WR, OTG.ADDR, OTG.data)
    BY <2>1 DEF Registers, Seen, Ending
  <2>3. (step - 1) % 6 = 4 /\ (step - 1 < 6 <=> step < 6)
    BY <2>1, <1>3 DEF Ending
  <2>4. QED
    BY <2>2, <2>3 DEF PortsAt
<1>5. Ending /\ Writes(call, step) => word = Datum(call, step)
  <2>1. SUFFICES ASSUME Ending, Writes(call, step)
                 PROVE  word = Datum(call, step)
    OBVIOUS
  <2>2. PortsAt(call, step - 1, OTG.CS, OTG.RD, OTG.WR, OTG.ADDR, OTG.data)
    BY <2>1 DEF Registers, Seen, Ending
  <2>3. /\ (step - 1) % 6 = 4 /\ step % 6 = 5
        /\ step - 1 < 6 <=> step < 6
        /\ (step - 1) \div 6 = step \div 6
    BY <2>1, <1>3 DEF Ending
  <2>4. OTG.data = Datum(call, step)
    BY <2>1, <2>2, <2>3 DEF PortsAt, Writes, Datum
  <2>5. sw.w /\ sw.data = Datum(call, step)
    BY <2>1, <2>3 DEF Ports, PortsAt
  <2>6. sw' = sw
    BY <2>1, WhoMoves DEF Compute
  <2>7. Bus = OTG.data
    BY <2>5, Zenon DEF Bus
  <2>8. Bus' = OTG'.data
    BY <2>5, <2>6, Zenon DEF Bus
  <2>9. QED
    BY <1>1, <2>4, <2>5, <2>7, <2>8
<1>6. mem = [a \in Place |-> mem[a]]
  BY <1>3
<1> HIDE DEF written, read, word
<1>7. ~written => mem' = mem
  BY <1>1, <1>6, Zenon
<1>8. ~Ending => pointer' = pointer /\ mem' = mem
  BY <1>1, <1>2, <1>7, Zenon
<1>9. ASSUME Ending, step < 6
      PROVE  pointer' = call.at /\ mem' = mem
  <2>1. written /\ OTG.ADDR = HPI_ADDR /\ HPI_ADDR # HPI_DATA /\ word = call.at
    BY <1>9, <1>2, <1>4, <1>5 DEF Writes, Datum, HPI_ADDR, HPI_DATA
  <2>2. mem' = [a \in Place |-> mem[a]]
    BY <1>1, <2>1, Zenon
  <2>3. QED
    BY <1>1, <1>6, <2>1, <2>2, Zenon
<1>10. ASSUME Ending, step >= 6
       PROVE  /\ pointer' = Onward
              /\ call.fn = "read" => mem' = mem
              /\ call.fn = "write" /\ pointer # Unknown =>
                   mem' = [mem EXCEPT ![pointer] = call.words[step \div 6]]
  <2>1. OTG.ADDR = HPI_DATA /\ HPI_ADDR # HPI_DATA /\ (written \/ read) /\ ~(step < 6)
    BY <1>10, <1>2, <1>3, <1>4 DEF HPI_ADDR, HPI_DATA
  <2>2. pointer' = Onward
    BY <1>1, <2>1, Zenon
  <2>3. call.fn = "read" => ~written
    BY <1>2, <2>1 DEF Writes
  <2>4. ASSUME call.fn = "write", pointer # Unknown
        PROVE  mem' = [mem EXCEPT ![pointer] = call.words[step \div 6]]
    <3>1. written /\ word = call.words[step \div 6]
      BY <1>10, <1>2, <1>5, <2>1, <2>4 DEF Writes, Datum
    <3>2. mem' = [a \in Place |-> IF pointer = a THEN word ELSE mem[a]]
      BY <1>1, <2>1, <2>4, <3>1, Zenon
    <3>3. QED
      BY <1>3, <3>1, <3>2
  <2>5. QED
    BY <1>7, <2>2, <2>3, <2>4
<1>11. QED
  BY <1>8, <1>9, <1>10

\* The accesses that are over grow by one when a cycle ends.
LEMMA OverStep ==
  ASSUME TypeOK, Steps, Ports, Registers, Next, ~spoiled, ~spoiled'
  PROVE  /\ Ending => Over = step \div 6 /\ Over' = Over + 1
         /\ ~Ending => Over = (step + 1) \div 6
         /\ ~Ending /\ (PortAccess \/ Compute) => Over' = Over
<1>1. OTG'.CS = sw.cs /\ (sw.cs <=> step % 6 \in 2 .. 4)
  <2>1. Edge /\ ~Reset
    BY DEF Next, Edge, Button
  <2>2. QED
    BY <2>1, Registered DEF Ports, PortsAt
<1>2. Over' = IF step' % 6 = 5 /\ step % 6 \in 2 .. 4
              THEN step' \div 6 ELSE (step' + 1) \div 6
  BY <1>1, Zenon DEF Over
<1>3. Over = IF Ending THEN step \div 6 ELSE (step + 1) \div 6
  BY OverAt
<1>4. step \in 0 .. 18 /\ Gap \in Nat /\ Gap >= 3
  BY BusAssumption DEF TypeOK
<1>5. CASE Ending
  <2>1. step' = step /\ step % 6 = 5
    BY <1>5, WhoMoves DEF Ending
  <2>2. Over = step \div 6 /\ Over' = (step + 1) \div 6
    BY <1>2, <1>3, <1>5, <2>1
  <2>3. QED
    BY <1>4, <1>5, <2>1, <2>2, Sixths
<1>6. CASE ~Ending
  <2>1. Over = (step + 1) \div 6
    BY <1>3, <1>6
  <2>2. ASSUME Compute PROVE Over' = Over
    <3>1. step' = step
      BY <2>2 DEF Compute
    <3>2. ~(step % 6 = 5 /\ step % 6 \in 2 .. 4)
      OBVIOUS
    <3>3. QED
      BY <1>2, <2>1, <3>1, <3>2
  <2>3. ASSUME PortAccess PROVE Over' = Over
    <3>1. step' = step + 1 /\ step \in 0 .. 17
      BY <2>3, PortEffect DEF PortAccess
    <3>2. /\ step + 1 \in 0 .. 18 /\ step \in 0 .. 18
          /\ step % 6 = 4 <=> (step + 1) % 6 = 5
      BY <3>1
    <3>3. step % 6 # 4 => (step + 2) \div 6 = (step + 1) \div 6
      BY <3>1
    <3>4. Over' = IF step % 6 = 4 THEN (step + 1) \div 6 ELSE (step + 2) \div 6
      BY <1>2, <3>1, <3>2
    <3>5. QED
      BY <2>1, <3>3, <3>4
  <2>4. QED
    BY <1>6, <2>1, <2>2, <2>3
<1>7. QED
  BY <1>5, <1>6

\* An address one further, on a memory of n words.
LEMMA Onwards ==
  ASSUME NEW n \in Nat, n >= 2, NEW a \in 0 .. n - 1, NEW k \in 0 .. 1
  PROVE  /\ (a + k) % n \in 0 .. n - 1
         /\ (((a + k) % n) + 1) % n = (a + k + 1) % n
         /\ a % n = a
<1>1. \A x \in 0 .. 2 * n - 1 : x % n = IF x < n THEN x ELSE x - n
  OBVIOUS
<1>2. (a + k) % n = IF a + k < n THEN a + k ELSE a + k - n
  BY <1>1
<1>3. (a + k + 1) % n = IF a + k + 1 < n THEN a + k + 1 ELSE a + k + 1 - n
  BY <1>1
<1>4. a % n = a
  BY <1>1
<1>5. CASE a + k < n
  BY <1>2, <1>3, <1>4, <1>5
<1>6. CASE ~(a + k < n)
  <2>1. a + k = n /\ (a + k) % n = 0
    BY <1>2, <1>6
  <2>2. (0 + 1) % n = 1
    BY <1>1
  <2>3. QED
    BY <2>1, <2>2, <1>3, <1>4
<1>7. QED
  BY <1>5, <1>6

LEMMA PointingKept ==
  ASSUME TypeOK, Steps, Ports, Registers, Pointing, Next
  PROVE  Pointing'
<1>1. Call \/ Return => Over' = 0
  <2>1. Call \/ Return => step' = 0
    BY DEF Call, Return, Steps
  <2>2. QED
    BY <2>1 DEF Over
<1> SUFFICES ASSUME ~spoiled', ~(Call \/ Return), Over' > 0
             PROVE  pointer' = (call'.at + Over' - 1) % Size
  BY <1>1, BusAssumption DEF Pointing
<1>2. ~spoiled /\ (PortAccess \/ Compute) /\ call' = call /\ call # Idle
  <2>1. PortAccess \/ Compute
    BY DEF Next
  <2>2. call' = call
    BY <2>1 DEF PortAccess, Compute
  <2>3. ~spoiled
    BY <2>2 DEF Next, Edge, Button
  <2>4. call = Idle => step' = 0
    BY <2>1 DEF PortAccess, Compute, Steps
  <2>5. step' = 0 => Over' = 0
    BY DEF Over
  <2>6. QED
    BY <2>1, <2>2, <2>3, <2>4, <2>5
<1>3. call \in Calls /\ call.at \in Place /\ step \in 0 .. 18
  BY <1>2, CallShape DEF TypeOK
<1>7. /\ Size \in Nat /\ Size >= 2 /\ call.at \in 0 .. Size - 1
      /\ 0 \in 0 .. 1
  BY <1>3, BusAssumption DEF Place
<1>4. CASE ~Ending
  BY <1>2, <1>4, ChipStep, OverStep DEF Pointing
<1>5. CASE Ending
  <2>1. Over = step \div 6 /\ Over' = Over + 1 /\ step % 6 = 5
    BY <1>2, <1>5, OverStep DEF Ending
  <2>2. CASE step < 6
    <3>1. pointer' = call.at /\ Over' = 1
      BY <1>2, <1>3, <1>5, <2>1, <2>2, ChipStep
    <3>2. call.at % Size = call.at
      BY ONLY <1>7, Onwards, Zenon
    <3>3. QED
      BY <1>2, <1>3, <3>1, <3>2, BusAssumption DEF Place
  <2>3. CASE step >= 6
    <3>1. pointer' = Onward /\ Over \in 1 .. 2
      BY <1>2, <1>3, <1>5, <2>1, <2>3, ChipStep
    <3>2. pointer = (call.at + (Over - 1)) % Size
      BY <1>2, <1>3, <3>1, BusAssumption DEF Pointing, Place
    <3>3. pointer \in 0 .. Size - 1
          /\ (pointer + 1) % Size = (call.at + (Over - 1) + 1) % Size
      <4>1. Over - 1 \in 0 .. 1
        BY <3>1
      <4>2. /\ (call.at + (Over - 1)) % Size \in 0 .. Size - 1
            /\ (((call.at + (Over - 1)) % Size) + 1) % Size
                 = (call.at + (Over - 1) + 1) % Size
        BY ONLY <1>7, <4>1, Onwards, Zenon
      <4>3. QED
        BY <3>2, <4>2, Zenon
    <3>4. pointer' = (pointer + 1) % Size
      BY <3>1, <3>3, BusAssumption DEF Onward
    <3>5. QED
      BY <1>2, <1>3, <2>1, <3>1, <3>3, <3>4, BusAssumption DEF Place
  <2>4. QED
    BY <1>3, <2>2, <2>3
<1>6. QED
  BY <1>4, <1>5

LEMMA ReadingKept ==
  ASSUME TypeOK, Steps, Ports, Registers, Pointing, Reading, Next
  PROVE  Reading'
<1> SUFFICES ASSUME ~spoiled', call' # Idle, call'.fn = "read"
             PROVE  /\ step' = 9 /\ wait' < Gap =>
                         /\ ready' = Access \/ ready' + wait' >= Gap - 1
                         /\ wait' + Access + 2 <= Gap => from_sw_data_in' = mem'[call'.at]
                         /\ wait' + Access + 3 <= Gap => readdata' = mem'[call'.at]
                    /\ step' > 9 => temp' = mem'[call'.at]
  BY DEF Reading
<1>0. /\ Access \in Nat /\ Gap \in Nat /\ Gap >= Access + 3
      /\ step \in 0 .. 18 /\ wait \in 0 .. Gap /\ ready \in 0 .. Access
  BY BusAssumption DEF TypeOK
<1>1. CASE Call
  BY <1>1 DEF Call, Steps
<1>2. CASE Return
  BY <1>2 DEF Return
<1>3. CASE PortAccess \/ Compute
  <2>1. call' = call /\ call # Idle /\ ~spoiled /\ ~Reset /\ Edge /\ call \in Calls
    BY <1>3 DEF PortAccess, Compute, Next, Edge, Button, TypeOK
  <2>2. Ios(call) = 2 /\ call.at \in Place /\ call.fn = "read"
    BY <2>1, CallShape
  <2>3. ~Ending => mem' = mem
    BY <2>1, ChipStep
  <2>4. step >= 6 => mem' = mem
    BY <2>1, <2>2, ChipStep
  <2>5. CASE PortAccess
    <3>1. wait = 0 /\ step' = step + 1 /\ wait' = Gap /\ step < 12
      BY <2>2, <2>5 DEF PortAccess
    <3>2. CASE step = 9
      <4>1. step % 6 = 3 /\ ~Writes(call, step)
        BY <2>2, <3>2 DEF Writes
      <4>2. temp' = readdata
        BY <2>5, <4>1, PortEffect DEF Effect, Values
      <4>3. readdata = mem[call.at]
        BY <1>0, <2>1, <2>2, <3>1, <3>2 DEF Reading
      <4>4. QED
        BY <1>0, <2>1, <2>4, <3>1, <3>2, <4>2, <4>3
    <3>3. CASE step > 9
      <4>1. step % 6 # 3
        BY <1>0, <3>1, <3>3
      <4>2. temp' = temp
        BY <2>5, <4>1, PortEffect DEF Effect, Values
      <4>3. temp = mem[call.at]
        BY <2>1, <2>2, <3>3 DEF Reading
      <4>4. QED
        BY <1>0, <2>1, <2>4, <3>1, <3>3, <4>2, <4>3
    <3>4. QED
      BY <1>0, <3>1, <3>2, <3>3
  <2>6. CASE Compute
    <3>1. /\ step' = step /\ temp' = temp
          /\ wait' = IF wait > 0 THEN wait - 1 ELSE 0
      BY <2>6 DEF Compute
    <3>2. step > 9 => temp' = mem'[call'.at]
      BY <1>0, <2>1, <2>2, <2>4, <3>1 DEF Reading
    <3>3. ASSUME step = 9
          PROVE  /\ ready' = Access \/ ready' + wait' >= Gap - 1
                 /\ wait' + Access + 2 <= Gap => from_sw_data_in' = mem'[call'.at]
                 /\ wait' + Access + 3 <= Gap => readdata' = mem'[call'.at]
      <4>1. step % 6 = 3 /\ ~Writes(call, step) /\ step \div 6 = 1 /\ (step + 1) \div 6 = 1
        BY <3>3, <2>2 DEF Writes
      <4>2. sw.cs /\ sw.r /\ ~sw.w
        BY <4>1 DEF Ports, PortsAt
      <4>3. OTG'.CS /\ OTG'.RD /\ ~OTG'.RST
        BY <2>1, <4>2, Registered
      <4>4. Driving'
        BY <4>3 DEF Driving, ReadCycle
      <4>5. ready' = IF Driving THEN ready + (IF ready < Access THEN 1 ELSE 0) ELSE 0
        BY <2>1, <4>3, <4>4, Zenon DEF Edge, Chip
      <4>6. readdata' = from_sw_data_in /\ from_sw_data_in' = Bus
        BY <2>1 DEF Edge, Fetch
      <4>7. CASE wait = Gap
        <5>1. ~Driving
          <6>1. Seen = 8 /\ 8 % 6 = 2
            BY <3>3, <4>7 DEF Seen
          <6>2. ~OTG.RD
            BY <2>1, <6>1 DEF Registers, PortsAt
          <6>3. QED
            BY <6>2 DEF Driving, ReadCycle
        <5>2. ready' = 0 /\ wait' = Gap - 1
          BY <1>0, <3>1, <4>5, <4>7, <5>1
        <5>3. QED
          BY <1>0, <5>2
      <4>8. CASE wait < Gap
        <5>1. Driving
          <6>1. Seen = step
            BY <4>8, <1>0 DEF Seen
          <6>2. OTG.CS /\ OTG.RD /\ ~OTG.RST
            BY <2>1, <4>1, <6>1 DEF Registers, PortsAt
          <6>3. QED
            BY <6>2 DEF Driving, ReadCycle
        <5>2. /\ ready = Access \/ ready + wait >= Gap - 1
              /\ wait + Access + 2 <= Gap => from_sw_data_in = mem[call.at]
              /\ wait + Access + 3 <= Gap => readdata = mem[call.at]
          BY <2>1, <2>2, <3>3, <4>8 DEF Reading
        <5>3. ready' = Access \/ ready' + wait' >= Gap - 1
          BY <1>0, <3>1, <4>5, <5>1, <5>2
        <5>4. mem' = mem
          BY <2>4, <3>3
        <5>5. wait' + Access + 2 <= Gap => Bus = mem[call.at]
          <6>1. SUFFICES ASSUME wait' + Access + 2 <= Gap PROVE Bus = mem[call.at]
            OBVIOUS
          <6>2. ready = Access
            BY <1>0, <3>1, <5>2, <6>1
          <6>3. pointer = call.at
            <7>1. ~Ending
              BY <4>1 DEF Ending
            <7>2. Over = 1
              BY <2>1, <4>1, <7>1, OverAt
            <7>3. pointer = (call.at + 1 - 1) % Size
              BY <2>1, <7>2 DEF Pointing
            <7>4. Size \in Nat /\ Size >= 2 /\ call.at \in 0 .. Size - 1 /\ 0 \in 0 .. 1
              BY <2>2, BusAssumption DEF Place
            <7>5. call.at % Size = call.at
              BY ONLY <7>4, Onwards, Zenon
            <7>6. call.at + 1 - 1 = call.at
              BY <7>4
            <7>7. QED
              BY <7>3, <7>5, <7>6, Zenon
          <6>4. call.at # Unknown
            BY <2>2, BusAssumption DEF Place
          <6>5. QED
            BY <4>2, <5>1, <6>2, <6>3, <6>4, Zenon DEF Bus
        <5>6. wait' + Access + 3 <= Gap => wait + Access + 2 <= Gap
          BY <1>0, <3>1
        <5>7. QED
          BY <2>1, <4>6, <5>2, <5>3, <5>4, <5>5, <5>6
      <4>9. QED
        BY <1>0, <4>7, <4>8
    <3>4. QED
      BY <3>1, <3>2, <3>3
  <2>7. QED
    BY <1>3, <2>5, <2>6
<1>4. QED
  BY <1>1, <1>2, <1>3 DEF Next

-----------------------------------------------------------------------------
(* The theorems. *)

LEMMA InitHolds == Init => IInv
<1> SUFFICES ASSUME Init PROVE IInv
  OBVIOUS
<1>1. TypeOK
  <2>1. 0 \in Place /\ 0 \in Word /\ Unknown \in Word
    BY BusAssumption DEF Place, Word
  <2>2. sw \in Ins
    <3>1. 0 \in {HPI_DATA, HPI_ADDR} /\ FALSE \in BOOLEAN
      BY DEF HPI_DATA
    <3>2. [address |-> 0, cs |-> FALSE, r |-> FALSE, w |-> FALSE, data |-> 0] \in Ins
      BY <2>1, <3>1 DEF Ins
    <3>3. QED
      BY <3>2 DEF Init
  <2>3. OTG \in RegisterSet
    <3>1. 0 \in {HPI_DATA, HPI_ADDR} /\ FALSE \in BOOLEAN
      BY DEF HPI_DATA
    <3>2. QED
      BY ONLY <2>1, <3>1, ARegister, Init, Zenon DEF Init
  <2>4. mem \in [Place -> Word]
    BY <2>1 DEF Init
  <2>5. step \in 0 .. 18 /\ wait \in 0 .. Gap /\ ready \in 0 .. Access
        /\ resets \in 0 .. MaxResets
    BY BusAssumption DEF Init
  <2>6. Reset \in BOOLEAN /\ spoiled \in BOOLEAN
    BY DEF Init
  <2>7. QED
    BY <2>1, <2>2, <2>3, <2>4, <2>5, <2>6 DEF Init, TypeOK, Ins, RegisterSet
<1>2. Steps
  BY DEF Init, Steps
<1>3. 0 % 6 = 0 /\ (0 + 1) \div 6 = 0 /\ Seen = 0
  BY BusAssumption DEF Init, Seen
<1>4. Ports /\ Registers
  BY <1>3 DEF Init, Ports, Registers, PortsAt
<1>5. Pointing
  BY <1>3 DEF Init, Pointing, Over
<1>6. Reading
  BY DEF Init, Reading
<1>7. QED
  BY <1>1, <1>2, <1>4, <1>5, <1>6 DEF IInv

LEMMA NextHolds == IInv /\ [Next]_vars => IInv'
<1> SUFFICES ASSUME IInv, [Next]_vars PROVE IInv'
  OBVIOUS
<1>1. CASE Next
  <2>1. TypeOK /\ Steps /\ Ports /\ Registers /\ Pointing /\ Reading
    BY DEF IInv
  <2>2. TypeOK' /\ Steps'
    BY <1>1, <2>1, TypeKept, StepsKept
  <2>3. Ports'
    <3>1. /\ PortsAt(call', step', sw'.cs, sw'.r, sw'.w, sw'.address, sw'.data)
          /\ sw.r => ~sw'.w
      BY <1>1, <2>1, PortsKept
    <3>2. OTG'.RD => sw.r
      BY <1>1, Registered DEF Next
    <3>3. QED
      BY <3>1, <3>2 DEF Ports
  <2>4. Registers' /\ Pointing' /\ Reading'
    BY <1>1, <2>1, RegistersKept, PointingKept, ReadingKept
  <2>5. QED
    BY <2>2, <2>3, <2>4 DEF IInv
<1>2. CASE UNCHANGED vars
  BY <1>2 DEF vars, driver, bridge, chip, IInv, TypeOK, Steps, Ports, Registers, Seen,
              Pointing, Over, Reading
<1>3. QED
  BY <1>1, <1>2

\* What every state of the bus satisfies: the ports and the registers are where
\* the driver is in its call, the address register points at the word of this
\* access, and the word of a read is in its place when the driver takes it.
THEOREM SpecInvariant == Spec => []IInv
BY InitHolds, NextHolds, PTL DEF Spec

\* The bridge drives the bus on a port and the chip on a registered strobe,
\* never at the same time, resets or not.
THEOREM BusSafe == Spec => []NoContention
<1>1. IInv => NoContention
  BY DEF IInv, Ports, NoContention, Driving, ReadCycle
<1>2. QED
  BY <1>1, SpecInvariant, PTL

-----------------------------------------------------------------------------
(* The driver's calls are those of a memory. *)

\* Edges that move nothing of the memory.
LEMMA Quiet ==
  ASSUME IInv, Next, ~spoiled, ~spoiled', PortAccess \/ Compute,
         Ending => step < 6
  PROVE  UNCHANGED Memory!memory
<1>1. TypeOK /\ Steps /\ Ports /\ Registers
  BY DEF IInv
<1>2. call' = call
  BY DEF PortAccess, Compute
<1>3. step \in 0 .. 18 /\ (call = Idle => step = 0)
  BY <1>1 DEF TypeOK, Steps
<1>4. mem' = mem
  BY <1>1, ChipStep
<1>s. spoiled' = spoiled
  <2>1. spoiled \in BOOLEAN /\ spoiled' \in BOOLEAN
    BY <1>1, TypeKept DEF TypeOK
  <2>2. QED
    BY <2>1, Zenon
<1>5. CASE Ending
  <2>1. Over = 0 /\ Over' = 1
    BY <1>1, <1>3, <1>5, OverStep DEF Ending
  <2>2. WordsDone = 0 /\ WordsDone' = 0
    BY <2>1 DEF WordsDone
  <2>3. Value = Unknown /\ Value' = Unknown
    BY <2>2 DEF Value
  <2>4. QED
    BY <1>2, <1>4, <1>s, <2>2, <2>3 DEF Memory!memory
<1>6. CASE ~Ending
  <2>1. Over' = Over /\ Over = (step + 1) \div 6
    BY <1>1, <1>6, OverStep
  <2>2. WordsDone' = WordsDone
    BY <2>1, Zenon DEF WordsDone
  <2>3. temp' = temp \/ WordsDone = 0
    <3>1. CASE Compute
      BY <3>1 DEF Compute
    <3>2. CASE PortAccess
      <4>1. SUFFICES ASSUME temp' # temp PROVE WordsDone = 0
        OBVIOUS
      <4>2. step % 6 = 3 /\ ~Writes(call, step)
        BY <1>1, <3>2, <4>1, PortEffect DEF Effect, Values
      <4>3. step >= 6 /\ call.fn # "write"
        BY <1>3, <4>2 DEF Writes
      <4>4. call \in Calls /\ step < 6 * Ios(call)
        BY <1>1, <3>2 DEF PortAccess, TypeOK
      <4>5. Ios(call) = 2
        BY <4>3, <4>4, CallShape
      <4>6. step = 9
        BY <1>3, <4>2, <4>3, <4>4, <4>5
      <4>7. Over = 1
        BY <2>1, <4>6
      <4>8. QED
        BY <4>7 DEF WordsDone
    <3>3. QED
      BY <3>1, <3>2
  <2>4. Value' = Value
    BY <1>2, <2>2, <2>3 DEF Value
  <2>5. QED
    BY <1>2, <1>4, <1>s, <2>2, <2>4 DEF Memory!memory
<1>7. QED
  BY <1>5, <1>6

\* The edge that ends the cycle of a data word.
LEMMA WordMoved ==
  ASSUME IInv, Next, ~spoiled, ~spoiled', Ending, step >= 6
  PROVE  Memory!Write \/ Memory!Read
<1>1. TypeOK /\ Steps /\ Ports /\ Registers /\ Pointing /\ Reading
  BY DEF IInv
<1>2. Compute /\ call \in Calls /\ step' = step /\ call # Idle
  BY <1>1, WhoMoves, IdleAssumption
<1>3. call' = call /\ temp' = temp
  BY <1>2 DEF Compute
<1>4. /\ step \in 0 .. 18 /\ step % 6 = 5 /\ step <= 6 * Ios(call)
      /\ Ios(call) \in {2, 3}
  BY <1>1, <1>2, TwoOrThree DEF TypeOK, Steps, Ending
<1>5. Over = step \div 6 /\ Over' = Over + 1 /\ Over \in 1 .. 2 /\ Over < Ios(call)
  <2>1. Over = step \div 6 /\ Over' = Over + 1
    BY <1>1, OverStep
  <2>2. step = (6 * (step \div 6)) + 5 /\ step \div 6 \in 0 .. 3
    BY <1>4, Sixths
  <2>3. QED
    BY <1>4, <2>1, <2>2
<1>6. WordsDone = Over - 1 /\ WordsDone' = Over
  BY <1>5 DEF WordsDone
<1>7. call.at \in Place /\ call.fn \in {"write", "read"}
  BY <1>2, CallShape
<1>8. CASE call.fn = "read"
  <2>1. Over = 1 /\ step > 9
    BY <1>2, <1>4, <1>5, <1>8, CallShape
  <2>2. WordsDone = 0 /\ WordsDone' = 1
    BY <1>6, <2>1
  <2>3. Value' = temp'
    BY <1>2, <1>3, <2>2 DEF Value
  <2>4. temp = mem[call.at]
    BY <1>1, <1>2, <1>8, <2>1 DEF Reading
  <2>5. mem' = mem
    BY <1>1, <1>8, ChipStep
  <2>6. QED
    BY <1>2, <1>3, <1>8, <2>2, <2>3, <2>4, <2>5 DEF Memory!Read
<1>9. CASE call.fn = "write"
  <2>1. PICK n : n = Len(call.words)
    OBVIOUS
  <2>2. n \in {1, 2} /\ Ios(call) = 1 + n
    BY <1>2, <1>9, <2>1, CallShape
  <2>3. pointer = (call.at + WordsDone) % Size /\ pointer # Unknown
    <3>1. pointer = (call.at + (Over - 1)) % Size
      BY <1>1, <1>5, <1>7, BusAssumption DEF Pointing, Place
    <3>2. /\ Size \in Nat /\ Size >= 2 /\ call.at \in 0 .. Size - 1
          /\ Over - 1 \in 0 .. 1
      BY <1>5, <1>7, BusAssumption DEF Place
    <3>3. (call.at + (Over - 1)) % Size \in 0 .. Size - 1
      BY ONLY <3>2, Onwards, Zenon
    <3>4. pointer # Unknown
      BY <3>1, <3>3, BusAssumption
    <3>5. QED
      BY <1>6, <3>1, <3>4, Zenon
  <2>4. mem' = [mem EXCEPT ![pointer] = call.words[step \div 6]]
    BY <1>1, <1>9, <2>3, ChipStep
  <2>5. step \div 6 = WordsDone + 1 /\ WordsDone' = WordsDone + 1 /\ WordsDone < n
    BY <1>5, <1>6, <2>2
  <2>6. mem' = [mem EXCEPT ![(call.at + WordsDone) % Size] = call.words[WordsDone + 1]]
    BY <2>3, <2>4, <2>5, Zenon
  <2>7. QED
    BY <1>2, <1>3, <1>9, <2>1, <2>5, <2>6 DEF Memory!Write
<1>10. QED
  BY <1>7, <1>8, <1>9

LEMMA MemoryInit == Init => Memory!Init
<1> SUFFICES ASSUME Init PROVE Memory!Init
  OBVIOUS
<1>1. Over = 0
  <2>1. step = 0 /\ 0 % 6 = 0 /\ (0 + 1) \div 6 = 0
    BY DEF Init
  <2>2. QED
    BY <2>1 DEF Over
<1>2. WordsDone = 0
  BY <1>1 DEF WordsDone
<1>3. mem \in [0 .. Size - 1 -> Word]
  BY DEF Init, Place, Word
<1>4. QED
  BY <1>2, <1>3 DEF Init, Memory!Init

LEMMA MemoryNext == IInv /\ [Next]_vars => [Memory!Next]_(Memory!memory)
<1> SUFFICES ASSUME IInv, [Next]_vars
             PROVE  Memory!Next \/ UNCHANGED Memory!memory
  BY DEF Memory!memory
<1>1. CASE UNCHANGED vars
  BY <1>1 DEF vars, driver, bridge, chip, Memory!memory, WordsDone, Value, Over
<1>2. CASE Next /\ spoiled
  BY <1>2 DEF Memory!Next, Memory!Spoiled
<1>3. CASE Next /\ ~spoiled /\ spoiled'
  BY <1>3 DEF Memory!Next, Memory!Spoil
<1>4. CASE Next /\ ~spoiled /\ ~spoiled'
  <2>1. TypeOK /\ Steps /\ Ports /\ Registers
    BY DEF IInv
  <2>2. step \in 0 .. 18 /\ (call = Idle => step = 0)
    BY <2>1 DEF TypeOK, Steps
  <2>3. CASE Call
    <3>1. call = Idle /\ call' \in Calls /\ step = 0 /\ step' = 0
      BY <2>2, <2>3 DEF Call
    <3>2. ~Ending
      BY <3>1 DEF Ending
    <3>3. mem' = mem
      BY <1>4, <2>1, <3>2, ChipStep
    <3>4. Over' = 0
      BY <3>1 DEF Over
    <3>5. WordsDone' = 0
      BY <3>4 DEF WordsDone
    <3>6. QED
      BY <1>4, <3>1, <3>3, <3>5 DEF Memory!Next, Memory!Sound, Memory!Start
  <2>4. CASE Return
    <3>1. call # Idle /\ call \in Calls /\ step = 6 * Ios(call) /\ call' = Idle
      BY <2>1, <2>4 DEF Return, TypeOK
    <3>2. Ios(call) \in {2, 3}
      BY <3>1, TwoOrThree
    <3>3. step % 6 = 0 /\ (step + 1) \div 6 = Ios(call)
      BY <3>1, <3>2
    <3>4. ~Ending
      BY <3>3 DEF Ending
    <3>5. mem' = mem /\ Over = Ios(call)
      BY <1>4, <2>1, <3>3, <3>4, ChipStep, OverStep
    <3>6. WordsDone = Ios(call) - 1
      BY <3>2, <3>5 DEF WordsDone
    <3>7. WordsDone = IF call.fn = "read" THEN 1 ELSE Len(call.words)
      <4>1. PICK n : n = Len(call.words)
        OBVIOUS
      <4>2. /\ call.fn \in {"read", "write"}
            /\ call.fn = "read" => Ios(call) = 2
            /\ call.fn = "write" => n \in {1, 2} /\ Ios(call) = 1 + n
        BY <3>1, <4>1, CallShape
      <4>3. WordsDone = IF call.fn = "read" THEN 1 ELSE n
        BY <3>6, <4>2
      <4>4. QED
        BY <4>1, <4>3
    <3>8. QED
      BY <1>4, <3>1, <3>5, <3>7 DEF Memory!Next, Memory!Sound, Memory!Return
  <2>5. CASE PortAccess \/ Compute
    <3>1. CASE Ending /\ step >= 6
      BY <1>4, <3>1, WordMoved DEF Memory!Next, Memory!Sound
    <3>2. CASE ~(Ending /\ step >= 6)
      <4>1. Ending => step < 6
        BY <2>2, <3>2
      <4>2. QED
        BY <1>4, <2>5, <4>1, Quiet
    <3>3. QED
      BY <3>1, <3>2
  <2>6. QED
    BY <1>4, <2>3, <2>4, <2>5 DEF Next
<1>5. QED
  BY <1>1, <1>2, <1>3, <1>4

\* UsbWrite, UsbRead and the word lists of usb.c do what reads and writes of a
\* memory do: each word once, at its address, before the call returns, for every
\* memory size and every timing with Gap >= Access + 3.
THEOREM IsMemory == Spec => MemorySpec
<1>1. Spec => Memory!Init /\ [][Memory!Next]_(Memory!memory)
  BY MemoryInit, MemoryNext, SpecInvariant, PTL DEF Spec
<1>2. QED
  BY <1>1 DEF MemorySpec, Memory!Spec
=============================================================================
