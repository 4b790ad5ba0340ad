----------------------------- MODULE ExecProofs -----------------------------
(***************************************************************************)
(* What load_into_user_window, build_user_stack and get_arg do together.   *)
(***************************************************************************)
EXTENDS Exec, Induction

(* The constants, without the alignment of the window.                     *)
LEMMA Sizes ==
  /\ USER_IMAGE_BASE \in Nat \ {0} /\ USER_IMAGE_LIMIT \in Nat \ {0}
  /\ WORD \in Nat \ {0} /\ GET_ARG_MAX \in Nat \ {0}
  /\ USER_IMAGE_BASE < USER_IMAGE_LIMIT /\ USER_IMAGE_LIMIT <= 256
BY ExecAssumption

USE Sizes

-----------------------------------------------------------------------------
(* The fields of a program header, and the headers of a file as            *)
(* load_into_user_window walks over them.                                  *)
LEMMA HeaderFacts ==
  /\ \A h \in ProgramHeader : h.vaddr \in Nat /\ h.memsz \in Nat /\ h.bytes \in Seq(Byte)
  /\ \A h \in Headers : /\ Len(h) \in Nat /\ DOMAIN h = 1 .. Len(h)
                        /\ \A k \in 1 .. Len(h) : h[k] \in ProgramHeader
<1>1. \A h \in ProgramHeader : h.vaddr \in Nat /\ h.memsz \in Nat /\ h.bytes \in Seq(Byte)
  BY DEF ProgramHeader
<1>2. \A h \in Headers : /\ Len(h) \in Nat /\ DOMAIN h = 1 .. Len(h)
                        /\ \A k \in 1 .. Len(h) : h[k] \in ProgramHeader
  BY DEF Headers
<1> QED BY <1>1, <1>2

(* The arguments that sys_spawn hands to build_user_stack.                 *)
LEMMA ArgumentFacts ==
  ASSUME NEW args \in Arguments
  PROVE  /\ Len(args) \in Nat
         /\ \A i \in 1 .. Len(args) : args[i] \in Text /\ Len(args[i]) \in Nat
BY DEF Arguments, Text

(* An argument has no NUL byte of its own: the one get_arg stops at is the *)
(* terminator that build_user_stack pushes.                                *)
LEMMA NoNul ==
  ASSUME NEW s \in Text, NEW j \in 1 .. Len(s)
  PROVE  s[j] # 0
<1>1. \A S : s \in Seq(S) => s[j] \in S
  OBVIOUS
<1>2. s[j] \in 1 .. 255
  BY <1>1 DEF Text
<1>3. \A x \in 1 .. 255 : x # 0
  OBVIOUS
<1> QED BY <1>2, <1>3, Zenon

(* Room for a string below sp.                                             *)
LEMMA Room ==
  ASSUME NEW sp \in Int, NEW len \in Nat, sp <= USER_IMAGE_LIMIT,
         ~(sp - (len + 1) < USER_IMAGE_BASE)
  PROVE  /\ sp - (len + 1) \in Int /\ USER_IMAGE_BASE <= sp - (len + 1)
         /\ sp - (len + 1) + len + 1 = sp /\ sp - (len + 1) < sp
         /\ sp - (len + 1) \in Window /\ sp - (len + 1) + len \in Window
BY DEF Window

(* The bytes of a string and its terminator, placed at an address of the   *)
(* window, are in the window.                                              *)
LEMMA Within ==
  ASSUME NEW at \in Window, NEW len \in Nat, at + len \in Window, NEW j \in 1 .. len
  PROVE  /\ at + j - 1 \in Window /\ at <= at + j - 1 /\ at + j - 1 < at + (len + 1)
         /\ (at + j - 1) - at + 1 = j
BY DEF Window

(* The bytes from d up to d + m are the offsets below m: the destination   *)
(* of the copy of a segment.                                               *)
LEMMA Offset ==
  ASSUME NEW a \in Int, NEW d \in Int, NEW m \in Nat, d <= a, a < d + m
  PROVE  a - d \in 0 .. m - 1 /\ a - d \in Nat /\ a = d + (a - d)
OBVIOUS

(* Bytes written into a window leave a window.                             *)
LEMMA Copied ==
  ASSUME NEW w \in Image, NEW at \in Int, NEW bytes \in Seq(Byte)
  PROVE  /\ CopyToUser(w, at, bytes) \in Image
         /\ \A a \in Window : CopyToUser(w, at, bytes)[a] =
              IF at <= a /\ a < at + Len(bytes) THEN bytes[a - at + 1] ELSE w[a]
<1>1. ASSUME NEW a \in Window
      PROVE  /\ (IF a \in at .. at + Len(bytes) - 1 THEN bytes[a - at + 1] ELSE w[a]) \in Byte
             /\ a \in at .. at + Len(bytes) - 1 <=> at <= a /\ a < at + Len(bytes)
  BY DEF Window, Image
<1> QED BY <1>1 DEF CopyToUser, Image

(* What the loader copies for a segment: the bytes of the file, and zeroes *)
(* up to memsz.                                                            *)
LEMMA DataBytes ==
  ASSUME NEW h \in ProgramHeader
  PROVE  /\ Data(h) \in Seq(Byte) /\ Len(Data(h)) = h.memsz
         /\ \A i \in 1 .. h.memsz : Data(h)[i] = IF i <= Len(h.bytes) THEN h.bytes[i] ELSE 0
<1>1. h.memsz \in Nat /\ h.bytes \in Seq(Byte)
  BY DEF ProgramHeader
<1>2. \A i \in 1 .. h.memsz : (IF i <= Len(h.bytes) THEN h.bytes[i] ELSE 0) \in Byte
  <2>1. 0 \in Byte
    BY DEF Byte
  <2>2. \A i \in 1 .. h.memsz : i <= Len(h.bytes) => h.bytes[i] \in Byte
    BY <1>1
  <2> QED BY <2>1, <2>2
<1> QED BY <1>1, <1>2 DEF Data

(* The loop of load_into_user_window.                                      *)
LEMMA LoadLoop ==
  ASSUME NEW w \in Image, NEW file, file.headers \in Headers,
         \A k \in 1 .. Len(file.headers) :
           IsLoad(file.headers[k]) => Dest(file, file.headers[k].vaddr) \in Int
  PROVE  LET n == Len(file.headers)
             h == file.headers
         IN  \E v \in [0 .. n -> Image] :
               /\ v[0] = w /\ v[n] = LoadIntoUserWindow(w, file)
               /\ \A k \in 1 .. n :
                    v[k] = IF IsLoad(h[k]) THEN CopyToUser(v[k - 1], Dest(file, h[k].vaddr), Data(h[k]))
                           ELSE v[k - 1]
<1> DEFINE h == file.headers
           n == Len(h)
           Body(x, k) == IF IsLoad(h[k]) THEN CopyToUser(x, Dest(file, h[k].vaddr), Data(h[k]))
                         ELSE x
           Step(f) == [k \in 0 .. n |-> IF k = 0 THEN w ELSE Body(f[k - 1], k)]
           v == CHOOSE f : f = Step(f)
           G == [k \in 1 .. n |-> [x \in Image |-> Body(x, k)]]
<1>0. n \in Nat
  BY HeaderFacts
<1>1. LoadIntoUserWindow(w, file) = v[n]
  BY Zenon DEF LoadIntoUserWindow
<1>2. \A k \in 1 .. n, x \in Image : Body(x, k) \in Image
  <2> SUFFICES ASSUME NEW k \in 1 .. n, NEW x \in Image PROVE Body(x, k) \in Image
    OBVIOUS
  <2>1. h[k] \in ProgramHeader /\ (IsLoad(h[k]) => Dest(file, h[k].vaddr) \in Int)
    BY HeaderFacts
  <2> QED BY <2>1, Copied, DataBytes
<1> HIDE DEF Body, n
<1>3. \E f : f = Step(f)
  <2>1. G \in [1 .. n -> [Image -> Image]]
    BY <1>2
  <2>2. PICK f : Iterates(f, n, Image, w, G)
    <3> HIDE DEF G
    <3> QED BY <1>0, <2>1, RecursionTo, Zenon
  <2>3. f \in [0 .. n -> Image] /\ f[0] = w /\ \A k \in 1 .. n : f[k] = G[k][f[k - 1]]
    BY <2>2 DEF Iterates
  <2>4. \A k \in 1 .. n : f[k] = Body(f[k - 1], k)
    <3> SUFFICES ASSUME NEW k \in 1 .. n PROVE f[k] = Body(f[k - 1], k)
      OBVIOUS
    <3>1. f[k - 1] \in Image
      BY <1>0, <2>3
    <3>2. G[k][f[k - 1]] = Body(f[k - 1], k)
      BY <3>1, Zenon
    <3> QED BY <2>3, <3>2, Zenon
  <2>5. f = Step(f)
    BY <1>0, <2>3, <2>4
  <2> QED BY <2>5
<1>4. v = Step(v)
  <2> HIDE DEF Step
  <2> QED BY <1>3
<1> HIDE DEF v
<1>5. v[0] = w /\ \A k \in 1 .. n : v[k] = Body(v[k - 1], k)
  BY <1>0, <1>4
<1>6. v \in [0 .. n -> Image]
  <2> DEFINE T == {k \in 0 .. n : v[k] \in Image}
  <2>1. 0 \in T /\ \A k \in 1 .. n : k - 1 \in T => k \in T
    BY <1>0, <1>2, <1>5
  <2>2. 0 .. n \subseteq T
    <3> HIDE DEF T
    <3> QED BY <1>0, <2>1, InductionTo
  <2>3. v = [k \in 0 .. n |-> v[k]]
    BY <1>4
  <2> QED BY <2>2, <2>3
<1> QED BY <1>1, <1>5, <1>6 DEF Body, n

(* The state of the first loop of build_user_stack.                        *)
Strings(n) ==
  [sp : USER_IMAGE_BASE .. USER_IMAGE_LIMIT, arg_ptrs : [1 .. n -> Byte], window : Image,
   failed : BOOLEAN]

(* The push of one argument keeps the stack pointer in the window and      *)
(* the pointers below 256.                                                 *)
LEMMA StringPushed ==
  ASSUME NEW n \in Nat, NEW index \in 1 .. n, NEW arg \in Text, NEW st \in Strings(n)
  PROVE  PushString(index, arg, st) \in Strings(n)
<1> DEFINE at == st.sp - (Len(arg) + 1)
<1>1. /\ st.sp \in USER_IMAGE_BASE .. USER_IMAGE_LIMIT /\ st.arg_ptrs \in [1 .. n -> Byte]
      /\ st.window \in Image /\ st.failed \in BOOLEAN
      /\ USER_IMAGE_BASE \in Nat /\ USER_IMAGE_LIMIT \in Nat /\ USER_IMAGE_LIMIT <= 256
      /\ Len(arg) \in Nat
  BY DEF Strings
<1>2. CASE st.failed \/ at < USER_IMAGE_BASE
  BY <1>2 DEF PushString, Strings
<1>3. CASE ~(st.failed \/ at < USER_IMAGE_BASE)
  <2>1. at \in USER_IMAGE_BASE .. USER_IMAGE_LIMIT /\ at \in Byte /\ at \in Int
    <3>1. USER_IMAGE_BASE <= at /\ at < USER_IMAGE_LIMIT /\ at \in Int
      BY <1>1, <1>3
    <3> HIDE DEF at
    <3> QED BY <1>1, <3>1 DEF Byte
  <2>2. Append(arg, 0) \in Seq(Byte)
    BY DEF Byte, Text
  <2>3. CopyToUser(st.window, at, Append(arg, 0)) \in Image
    BY <1>1, <2>1, <2>2, Copied
  <2>4. [st.arg_ptrs EXCEPT ![index] = at] \in [1 .. n -> Byte]
    BY <1>1, <2>1
  <2> HIDE DEF at
  <2>5. PushString(index, arg, st) =
          [sp |-> at, arg_ptrs |-> [st.arg_ptrs EXCEPT ![index] = at],
           window |-> CopyToUser(st.window, at, Append(arg, 0)), failed |-> FALSE]
    BY <1>3, Zenon DEF PushString, at
  <2> QED BY <2>1, <2>3, <2>4, <2>5 DEF Strings
<1> QED BY <1>2, <1>3

(* The first loop of build_user_stack.                                     *)
LEMMA StringsLoop ==
  ASSUME NEW w \in Image, NEW args \in Arguments
  PROVE  LET n == Len(args)
         IN  \E st \in [0 .. n -> Strings(n)] :
               /\ st[0] = [sp |-> USER_IMAGE_LIMIT, arg_ptrs |-> [i \in 1 .. n |-> 0],
                           window |-> w, failed |-> FALSE]
               /\ st[n] = PushStrings(w, args)
               /\ \A k \in 1 .. n : st[k] = PushString(n + 1 - k, args[n + 1 - k], st[k - 1])
<1> DEFINE n == Len(args)
           S == Strings(n)
           first == [sp |-> USER_IMAGE_LIMIT, arg_ptrs |-> [i \in 1 .. n |-> 0],
                     window |-> w, failed |-> FALSE]
           Body(x, k) == PushString(n + 1 - k, args[n + 1 - k], x)
           Step(f) == [k \in 0 .. n |-> IF k = 0 THEN first ELSE Body(f[k - 1], k)]
           v == CHOOSE f : f = Step(f)
           G == [k \in 1 .. n |-> [x \in S |-> Body(x, k)]]
<1>0. n \in Nat
  BY ArgumentFacts
<1>1. PushStrings(w, args) = v[n]
  BY Zenon DEF PushStrings
<1>2. \A k \in 1 .. n, x \in S : Body(x, k) \in S
  <2> SUFFICES ASSUME NEW k \in 1 .. n, NEW x \in S PROVE Body(x, k) \in S
    OBVIOUS
  <2>1. n + 1 - k \in 1 .. n /\ args[n + 1 - k] \in Text
    BY <1>0, ArgumentFacts
  <2> QED BY <1>0, <2>1, StringPushed
<1>3. first \in S
  BY <1>0 DEF Strings, Byte
<1> HIDE DEF Body, n, S, first
<1>4. \E f : f = Step(f)
  <2>1. G \in [1 .. n -> [S -> S]]
    BY <1>2
  <2>2. PICK f : Iterates(f, n, S, first, G)
    <3> HIDE DEF G
    <3> QED BY <1>0, <1>3, <2>1, RecursionTo, Zenon
  <2>3. f \in [0 .. n -> S] /\ f[0] = first /\ \A k \in 1 .. n : f[k] = G[k][f[k - 1]]
    BY <2>2 DEF Iterates
  <2>4. \A k \in 1 .. n : f[k] = Body(f[k - 1], k)
    <3> SUFFICES ASSUME NEW k \in 1 .. n PROVE f[k] = Body(f[k - 1], k)
      OBVIOUS
    <3>1. f[k - 1] \in S
      BY <1>0, <2>3
    <3>2. G[k][f[k - 1]] = Body(f[k - 1], k)
      BY <3>1, Zenon
    <3> QED BY <2>3, <3>2, Zenon
  <2>5. f = Step(f)
    BY <1>0, <2>3, <2>4
  <2> QED BY <2>5
<1>5. v = Step(v)
  <2> HIDE DEF Step
  <2> QED BY <1>4
<1> HIDE DEF v
<1>6. v[0] = first /\ \A k \in 1 .. n : v[k] = Body(v[k - 1], k)
  BY <1>0, <1>5
<1>7. v \in [0 .. n -> S]
  <2> DEFINE T == {k \in 0 .. n : v[k] \in S}
  <2>1. 0 \in T /\ \A k \in 1 .. n : k - 1 \in T => k \in T
    BY <1>0, <1>2, <1>3, <1>6
  <2>2. 0 .. n \subseteq T
    <3> HIDE DEF T
    <3> QED BY <1>0, <2>1, InductionTo
  <2>3. v = [k \in 0 .. n |-> v[k]]
    BY <1>5
  <2> QED BY <2>2, <2>3
<1> QED BY <1>1, <1>6, <1>7 DEF Body, n, S, first

(* The state of the rest of build_user_stack.                              *)
Words == [sp : Int, window : Image]

(* A word on the stack, and what it leaves of the window.                  *)
LEMMA WordPushed ==
  ASSUME NEW word \in Byte, NEW st \in Words
  PROVE  LET x == PushWord(word, st)
         IN  /\ x \in Words /\ x.sp = st.sp - WORD
             /\ \A a \in Window : a < x.sp \/ a >= st.sp => x.window[a] = st.window[a]
             /\ x.sp \in Window => x.window[x.sp] = word
<1> DEFINE at == st.sp - WORD
           bytes == [i \in 1 .. WORD |-> IF i = 1 THEN word ELSE 0]
           x == PushWord(word, st)
<1>1. st.sp \in Int /\ st.window \in Image /\ WORD \in Nat \ {0} /\ at \in Int /\ at + WORD = st.sp
  BY DEF Words
<1>2. bytes \in Seq(Byte) /\ Len(bytes) = WORD /\ bytes[1] = word
  <2>1. 0 \in Byte
    BY DEF Byte
  <2> HIDE DEF Byte
  <2>2. \A i \in 1 .. WORD : (IF i = 1 THEN word ELSE 0) \in Byte
    BY <2>1
  <2> QED BY <1>1, <2>2
<1>3. x = [sp |-> at, window |-> CopyToUser(st.window, at, bytes)]
  BY Zenon DEF PushWord
<1> HIDE DEF bytes, x
<1>4. /\ CopyToUser(st.window, at, bytes) \in Image
      /\ \A a \in Window : CopyToUser(st.window, at, bytes)[a] =
           IF at <= a /\ a < at + Len(bytes) THEN bytes[a - at + 1] ELSE st.window[a]
  BY <1>1, <1>2, Copied
<1> HIDE DEF at
<1>5. x \in Words /\ x.sp = at /\ x.window = CopyToUser(st.window, at, bytes)
  BY <1>1, <1>3, <1>4 DEF Words
<1>6. ASSUME NEW a \in Window, a < at \/ a >= st.sp
      PROVE  x.window[a] = st.window[a]
  BY <1>1, <1>2, <1>4, <1>5, <1>6 DEF Window
<1>7. ASSUME at \in Window
      PROVE  x.window[at] = word
  BY <1>1, <1>2, <1>4, <1>5, <1>7 DEF Window
<1>8. /\ x \in Words /\ x.sp = st.sp - WORD
      /\ \A a \in Window : a < x.sp \/ a >= st.sp => x.window[a] = st.window[a]
      /\ x.sp \in Window => x.window[x.sp] = word
  BY <1>5, <1>6, <1>7 DEF at
<1> QED BY ONLY <1>8, Zenon DEF x

(* The loop over the pointers.                                             *)
LEMMA PointersLoop ==
  ASSUME NEW n \in Nat, NEW ptrs \in [1 .. n -> Byte], NEW first \in Words
  PROVE  \E q \in [0 .. n -> Words] :
           /\ q[0] = first /\ q[n] = PushPointers(ptrs, first)
           /\ \A k \in 1 .. n : q[k] = PushWord(ptrs[n + 1 - k], q[k - 1])
<1> DEFINE Body(x, k) == PushWord(ptrs[n + 1 - k], x)
           Step(f) == [k \in 0 .. n |-> IF k = 0 THEN first ELSE Body(f[k - 1], k)]
           v == CHOOSE f : f = Step(f)
           G == [k \in 1 .. n |-> [x \in Words |-> Body(x, k)]]
<1>1. PushPointers(ptrs, first) = v[n]
  <2>1. Len(ptrs) = n
    OBVIOUS
  <2> QED BY <2>1, Zenon DEF PushPointers
<1>2. \A k \in 1 .. n, x \in Words : Body(x, k) \in Words
  <2> SUFFICES ASSUME NEW k \in 1 .. n, NEW x \in Words PROVE Body(x, k) \in Words
    OBVIOUS
  <2>1. n + 1 - k \in 1 .. n /\ ptrs[n + 1 - k] \in Byte
    OBVIOUS
  <2> QED BY <2>1, WordPushed
<1> HIDE DEF Body
<1>3. \E f : f = Step(f)
  <2>1. G \in [1 .. n -> [Words -> Words]]
    BY <1>2
  <2>2. PICK f : Iterates(f, n, Words, first, G)
    <3> HIDE DEF G
    <3> QED BY <2>1, RecursionTo, Zenon
  <2>3. f \in [0 .. n -> Words] /\ f[0] = first /\ \A k \in 1 .. n : f[k] = G[k][f[k - 1]]
    BY <2>2 DEF Iterates
  <2>4. \A k \in 1 .. n : f[k] = Body(f[k - 1], k)
    <3> SUFFICES ASSUME NEW k \in 1 .. n PROVE f[k] = Body(f[k - 1], k)
      OBVIOUS
    <3>1. f[k - 1] \in Words
      BY <2>3
    <3>2. G[k][f[k - 1]] = Body(f[k - 1], k)
      BY <3>1, Zenon
    <3> QED BY <2>3, <3>2, Zenon
  <2>5. f = Step(f)
    BY <2>3, <2>4
  <2> QED BY <2>5
<1>4. v = Step(v)
  <2> HIDE DEF Step
  <2> QED BY <1>3
<1> HIDE DEF v
<1>5. v[0] = first /\ \A k \in 1 .. n : v[k] = Body(v[k - 1], k)
  BY <1>4
<1>6. v \in [0 .. n -> Words]
  <2> DEFINE T == {k \in 0 .. n : v[k] \in Words}
  <2>1. 0 \in T
    BY <1>5
  <2>2. ASSUME NEW k \in 1 .. n, k - 1 \in T
        PROVE  k \in T
    <3>1. k \in 0 .. n /\ v[k - 1] \in Words
      BY <2>2
    <3>2. v[k] \in Words
      BY <1>2, <1>5, <3>1
    <3> QED BY <3>1, <3>2
  <2>3. 0 .. n \subseteq T
    <3> HIDE DEF T
    <3> QED BY <2>1, <2>2, InductionTo
  <2>4. v = [k \in 0 .. n |-> v[k]]
    BY <1>4
  <2> QED BY <2>3, <2>4
<1> QED BY <1>1, <1>5, <1>6 DEF Body

-----------------------------------------------------------------------------
(* A string and its NUL lie at an address.                                 *)
StringAt(w, p, arg) ==
  /\ p \in Window /\ p + Len(arg) \in Window
  /\ \A j \in 1 .. Len(arg) : w[p + j - 1] = arg[j]
  /\ w[p + Len(arg)] = 0

(* The strings of the arguments in I are on the stack, and below them the  *)
(* window is as it was.                                                    *)
StringsDone(w, args, I, st) ==
  /\ \A i \in I : StringAt(st.window, st.arg_ptrs[i], args[i]) /\ st.sp <= st.arg_ptrs[i]
  /\ \A a \in Window : a < st.sp => st.window[a] = w[a]

(* One round of the loop adds one string.                                  *)
LEMMA StringAdded ==
  ASSUME NEW n \in Nat, NEW index \in 1 .. n, NEW st \in Strings(n), NEW w \in Image,
         NEW args \in Arguments, Len(args) = n,
         StringsDone(w, args, index + 1 .. n, st), ~PushString(index, args[index], st).failed
  PROVE  /\ StringsDone(w, args, index .. n, PushString(index, args[index], st))
         /\ ~st.failed /\ PushString(index, args[index], st).sp < st.sp
<1> DEFINE arg == args[index]
           at == st.sp - (Len(arg) + 1)
           x == PushString(index, arg, st)
<1>1. /\ st.sp \in USER_IMAGE_BASE .. USER_IMAGE_LIMIT /\ st.arg_ptrs \in [1 .. n -> Byte]
      /\ st.window \in Image /\ st.failed \in BOOLEAN
      /\ arg \in Text /\ Len(arg) \in Nat
      /\ USER_IMAGE_BASE \in Nat /\ USER_IMAGE_LIMIT \in Nat /\ USER_IMAGE_LIMIT <= 256
  BY ArgumentFacts DEF Strings
<1> HIDE DEF arg
<1>2. ~st.failed /\ ~(at < USER_IMAGE_BASE)
  <2>1. CASE st.failed \/ at < USER_IMAGE_BASE
    <3>1. PushString(index, arg, st) = [st EXCEPT !.failed = TRUE]
      BY <2>1, Zenon DEF PushString
    <3>2. [st EXCEPT !.failed = TRUE].failed = TRUE
      BY DEF Strings
    <3> QED BY <3>1, <3>2 DEF arg
  <2> QED BY <2>1
<1>3. USER_IMAGE_BASE <= at /\ at + Len(arg) + 1 = st.sp /\ at < st.sp /\ at \in Int
      /\ at \in Window /\ at + Len(arg) \in Window
  <2>1. st.sp \in Int /\ Len(arg) \in Nat /\ st.sp <= USER_IMAGE_LIMIT
    BY <1>1
  <2> QED BY <1>2, <2>1, Room, Zenon
<1>4. x = [sp |-> at, arg_ptrs |-> [st.arg_ptrs EXCEPT ![index] = at],
           window |-> CopyToUser(st.window, at, Append(arg, 0)), failed |-> FALSE]
  BY <1>2, Zenon DEF PushString
<1> HIDE DEF at, x
<1>5. /\ x.sp = at /\ x.arg_ptrs = [st.arg_ptrs EXCEPT ![index] = at]
      /\ x.window = CopyToUser(st.window, at, Append(arg, 0))
  BY <1>4, Zenon
<1>6. x.arg_ptrs[index] = at /\ \A i \in index + 1 .. n : x.arg_ptrs[i] = st.arg_ptrs[i]
  BY ONLY n \in Nat, index \in 1 .. n, Sizes, <1>1, <1>5
<1>7. /\ Append(arg, 0) \in Seq(Byte) /\ Len(Append(arg, 0)) = Len(arg) + 1
      /\ \A j \in 1 .. Len(arg) : Append(arg, 0)[j] = arg[j]
      /\ Append(arg, 0)[Len(arg) + 1] = 0
  BY <1>1 DEF Byte, Text
<1>8. \A a \in Window : x.window[a] =
           IF at <= a /\ a < at + Len(Append(arg, 0)) THEN Append(arg, 0)[a - at + 1]
           ELSE st.window[a]
  <2>1. \A a \in Window : CopyToUser(st.window, at, Append(arg, 0))[a] =
           IF at <= a /\ a < at + Len(Append(arg, 0)) THEN Append(arg, 0)[a - at + 1]
           ELSE st.window[a]
    BY <1>1, <1>3, <1>7, Copied, Zenon
  <2> QED BY <1>5, <2>1, Zenon
<1>9. /\ \A a \in Window : a < at \/ a >= st.sp => x.window[a] = st.window[a]
      /\ \A j \in 1 .. Len(arg) : x.window[at + j - 1] = arg[j]
      /\ x.window[at + Len(arg)] = 0
  <2> DEFINE b == Append(arg, 0)
  <2> HIDE DEF b
  <2>1. \A a \in Window : x.window[a] =
           IF at <= a /\ a < at + (Len(arg) + 1) THEN b[a - at + 1] ELSE st.window[a]
    BY <1>7, <1>8 DEF b
  <2>2. (\A j \in 1 .. Len(arg) : b[j] = arg[j]) /\ b[Len(arg) + 1] = 0
    BY <1>7 DEF b
  <2>3. \A a \in Window : a < at \/ a >= st.sp => x.window[a] = st.window[a]
    BY <1>1, <1>3, <2>1 DEF Window
  <2>4. ASSUME NEW j \in 1 .. Len(arg)
        PROVE  x.window[at + j - 1] = arg[j]
    <3>1. at + j - 1 \in Window /\ at <= at + j - 1 /\ at + j - 1 < at + (Len(arg) + 1)
          /\ (at + j - 1) - at + 1 = j
      BY <1>1, <1>3, Within
    <3> QED BY <2>1, <2>2, <3>1
  <2>5. x.window[at + Len(arg)] = 0
    <3>1. at <= at + Len(arg) /\ at + Len(arg) < at + (Len(arg) + 1)
          /\ (at + Len(arg)) - at + 1 = Len(arg) + 1
      BY <1>1, <1>3
    <3> QED BY <1>3, <2>1, <2>2, <3>1
  <2> QED BY <2>3, <2>4, <2>5
<1>10. StringAt(x.window, x.arg_ptrs[index], arg)
  BY <1>3, <1>6, <1>9 DEF StringAt
<1>11. ASSUME NEW i \in index + 1 .. n
       PROVE  StringAt(x.window, x.arg_ptrs[i], args[i]) /\ x.sp <= x.arg_ptrs[i]
  <2> DEFINE p == st.arg_ptrs[i]
             s == args[i]
  <2>1. StringAt(st.window, p, s) /\ st.sp <= p /\ s \in Text
    BY ArgumentFacts DEF StringsDone
  <2> HIDE DEF p, s
  <2>2. /\ p \in Window /\ p + Len(s) \in Window /\ Len(s) \in Nat
        /\ \A j \in 1 .. Len(s) : st.window[p + j - 1] = s[j]
        /\ st.window[p + Len(s)] = 0
    BY <2>1 DEF StringAt
  <2>3. \A j \in 1 .. Len(s) : p + j - 1 \in Window /\ p + j - 1 >= st.sp
    BY <1>1, <2>1, <2>2 DEF Window
  <2>4. p + Len(s) >= st.sp /\ at <= p
    BY ONLY Sizes, <1>1, <1>3, <2>1, <2>2 DEF Window
  <2>5. StringAt(x.window, p, s)
    BY <1>9, <2>2, <2>3, <2>4 DEF StringAt
  <2> QED BY <1>5, <1>6, <2>4, <2>5 DEF p, s
<1>12. \A a \in Window : a < x.sp => x.window[a] = w[a]
  BY <1>1, <1>3, <1>5, <1>9 DEF StringsDone, Window
<1>13. \A i \in index .. n : i = index \/ i \in index + 1 .. n
  OBVIOUS
<1>14. x.sp <= x.arg_ptrs[index]
  BY <1>3, <1>5, <1>6
<1> QED BY <1>2, <1>3, <1>5, <1>10, <1>11, <1>12, <1>13, <1>14 DEF StringsDone, x, arg

(* The first loop of build_user_stack puts every string in its place, or   *)
(* runs out of the window.                                                 *)
LEMMA StringsPhase ==
  ASSUME NEW w \in Image, NEW args \in Arguments
  PROVE  LET r == PushStrings(w, args)
         IN  /\ r \in Strings(Len(args))
             /\ ~r.failed => /\ StringsDone(w, args, 1 .. Len(args), r)
                             /\ r.sp <= USER_IMAGE_LIMIT - Len(args)
<1> DEFINE n == Len(args)
           r == PushStrings(w, args)
<1>0. n \in Nat
  BY ArgumentFacts
<1>1. PICK st \in [0 .. n -> Strings(n)] :
        /\ st[0] = [sp |-> USER_IMAGE_LIMIT, arg_ptrs |-> [i \in 1 .. n |-> 0],
                    window |-> w, failed |-> FALSE]
        /\ st[n] = r
        /\ \A k \in 1 .. n : st[k] = PushString(n + 1 - k, args[n + 1 - k], st[k - 1])
  BY StringsLoop, Zenon
<1> HIDE DEF r
<1> DEFINE T == {k \in 0 .. n : ~st[k].failed =>
                   /\ StringsDone(w, args, n + 1 - k .. n, st[k])
                   /\ st[k].sp <= USER_IMAGE_LIMIT - k}
<1>2. 0 \in T
  <2>1. st[0].sp = USER_IMAGE_LIMIT /\ st[0].window = w
    BY <1>1
  <2>2. StringsDone(w, args, n + 1 - 0 .. n, st[0])
    BY <1>0, <2>1 DEF StringsDone
  <2> QED BY <1>0, <2>1, <2>2
<1>3. ASSUME NEW k \in 1 .. n, k - 1 \in T
      PROVE  k \in T
  <2> DEFINE index == n + 1 - k
  <2>1. /\ index \in 1 .. n /\ index + 1 = n + 1 - (k - 1) /\ k - 1 \in 0 .. n /\ k \in 0 .. n
    BY <1>0
  <2>2. st[k - 1] \in Strings(n) /\ st[k] = PushString(index, args[index], st[k - 1])
    BY <1>1, <2>1
  <2> HIDE DEF index
  <2> SUFFICES ASSUME ~st[k].failed
               PROVE  /\ StringsDone(w, args, index .. n, st[k])
                      /\ st[k].sp <= USER_IMAGE_LIMIT - k
    BY <2>1 DEF index
  <2>3. ~st[k - 1].failed
    BY <2>2 DEF PushString, Strings
  <2>4. /\ StringsDone(w, args, index + 1 .. n, st[k - 1])
        /\ st[k - 1].sp <= USER_IMAGE_LIMIT - (k - 1)
    BY <1>3, <2>1, <2>3
  <2>5. StringsDone(w, args, index .. n, st[k]) /\ st[k].sp < st[k - 1].sp
    BY <1>0, <2>1, <2>2, <2>4, StringAdded
  <2>6. st[k].sp \in Int /\ st[k - 1].sp \in Int
    <3>1. st[k] \in Strings(n) /\ st[k - 1] \in Strings(n)
      BY <1>1, <2>1
    <3>2. \A z \in Strings(n) : z.sp \in Int
      BY ONLY Sizes DEF Strings
    <3> QED BY <3>1, <3>2
  <2> QED BY <2>4, <2>5, <2>6
<1>4. 0 .. n \subseteq T
  <2> HIDE DEF T
  <2> QED BY <1>0, <1>2, <1>3, InductionTo
<1>5. n \in 0 .. n /\ n + 1 - n = 1
  BY <1>0
<1>6. ~r.failed => StringsDone(w, args, 1 .. n, r) /\ r.sp <= USER_IMAGE_LIMIT - n
  BY <1>1, <1>4, <1>5
<1>7. r \in Strings(n)
  BY <1>1, <1>5
<1> QED BY ONLY <1>6, <1>7, Zenon DEF r, n

(* Where the strings go does not depend on what the window held.           *)
LEMMA StringsAlike ==
  ASSUME NEW v \in Image, NEW w \in Image, NEW args \in Arguments
  PROVE  /\ PushStrings(v, args).failed = PushStrings(w, args).failed
         /\ PushStrings(v, args).sp = PushStrings(w, args).sp
<1> DEFINE n == Len(args)
<1>0. n \in Nat
  BY ArgumentFacts
<1>1. PICK f \in [0 .. n -> Strings(n)] :
        /\ f[0] = [sp |-> USER_IMAGE_LIMIT, arg_ptrs |-> [i \in 1 .. n |-> 0],
                   window |-> v, failed |-> FALSE]
        /\ f[n] = PushStrings(v, args)
        /\ \A k \in 1 .. n : f[k] = PushString(n + 1 - k, args[n + 1 - k], f[k - 1])
  BY StringsLoop, Zenon
<1>2. PICK g \in [0 .. n -> Strings(n)] :
        /\ g[0] = [sp |-> USER_IMAGE_LIMIT, arg_ptrs |-> [i \in 1 .. n |-> 0],
                   window |-> w, failed |-> FALSE]
        /\ g[n] = PushStrings(w, args)
        /\ \A k \in 1 .. n : g[k] = PushString(n + 1 - k, args[n + 1 - k], g[k - 1])
  BY StringsLoop, Zenon
<1> DEFINE T == {k \in 0 .. n : f[k].failed = g[k].failed /\ f[k].sp = g[k].sp}
<1>3. 0 \in T
  <2>1. f[0].failed = FALSE /\ g[0].failed = FALSE /\ f[0].sp = g[0].sp
    BY <1>1, <1>2
  <2> QED BY <1>0, <2>1
<1>4. ASSUME NEW k \in 1 .. n, k - 1 \in T
      PROVE  k \in T
  <2> DEFINE i == n + 1 - k
             x == f[k - 1]
             y == g[k - 1]
  <2>1. /\ k - 1 \in 0 .. n /\ k \in 0 .. n /\ x \in Strings(n) /\ y \in Strings(n)
        /\ f[k] = PushString(i, args[i], x) /\ g[k] = PushString(i, args[i], y)
        /\ x.failed = y.failed /\ x.sp = y.sp
    BY <1>0, <1>1, <1>2, <1>4
  <2> HIDE DEF i, x, y
  <2>2. ASSUME NEW p, NEW s, NEW z \in Strings(n)
        PROVE  LET at == z.sp - (Len(s) + 1)
                   bad == z.failed \/ at < USER_IMAGE_BASE
               IN  /\ PushString(p, s, z).failed = bad
                   /\ PushString(p, s, z).sp = IF bad THEN z.sp ELSE at
    BY DEF PushString, Strings
  <2> QED BY <2>1, <2>2
<1>5. 0 .. n \subseteq T
  <2> HIDE DEF T
  <2> QED BY <1>0, <1>3, <1>4, InductionTo
<1>6. n \in T
  BY <1>0, <1>5
<1> QED BY <1>1, <1>2, <1>6

(* i words take less room than k words when i <= k.                        *)
LEMMA Multiples ==
  ASSUME NEW i \in Nat, NEW k \in Nat
  PROVE  /\ i * WORD \in Nat /\ (i + 1) * WORD = i * WORD + WORD
         /\ i <= k => i * WORD <= k * WORD
<1>1. i * WORD \in Nat /\ (i + 1) * WORD = i * WORD + WORD
  OBVIOUS
<1>2. ASSUME i <= k PROVE i * WORD <= k * WORD
  <2>1. k * WORD = i * WORD + (k - i) * WORD
    OBVIOUS
  <2>2. (k - i) * WORD \in Nat
    BY <1>2
  <2> QED BY <1>1, <2>1, <2>2
<1> QED BY <1>1, <1>2

(* The pointers i of I are in the array that ends below base, and the rest *)
(* of the window, apart from the array, is as it was.                      *)
PointersDone(first, ptrs, n, I, q) ==
  /\ \A i \in I : LET a == first.sp - (n + 1 - i) * WORD
                   IN  a \in Window => q.window[a] = ptrs[i]
  /\ \A a \in Window : a < q.sp \/ a >= first.sp => q.window[a] = first.window[a]

(* The loop that pushes the argv pointers, last one first, leaves them as  *)
(* an array of words in order and changes nothing else.                    *)
LEMMA PointersPhase ==
  ASSUME NEW n \in Nat, NEW ptrs \in [1 .. n -> Byte], NEW first \in Words
  PROVE  LET r == PushPointers(ptrs, first)
         IN  /\ r \in Words /\ r.sp = first.sp - n * WORD
             /\ PointersDone(first, ptrs, n, 1 .. n, r)
<1> DEFINE r == PushPointers(ptrs, first)
<1>1. PICK q \in [0 .. n -> Words] :
        /\ q[0] = first /\ q[n] = r
        /\ \A k \in 1 .. n : q[k] = PushWord(ptrs[n + 1 - k], q[k - 1])
  <2>1. \E q \in [0 .. n -> Words] :
           /\ q[0] = first /\ q[n] = PushPointers(ptrs, first)
           /\ \A k \in 1 .. n : q[k] = PushWord(ptrs[n + 1 - k], q[k - 1])
    BY ONLY PointersLoop, n \in Nat, ptrs \in [1 .. n -> Byte], first \in Words, Zenon
  <2> QED BY ONLY <2>1, Zenon DEF r
<1> HIDE DEF r
<1>2. first.sp \in Int
  BY DEF Words
<1> DEFINE T == {k \in 0 .. n : /\ q[k].sp = first.sp - k * WORD
                                /\ PointersDone(first, ptrs, n, n + 1 - k .. n, q[k])}
<1>3. 0 \in T
  <2>1. 0 * WORD = 0 /\ n + 1 - 0 .. n = {}
    OBVIOUS
  <2>2. PointersDone(first, ptrs, n, {}, q[0])
    BY <1>1 DEF PointersDone
  <2> QED BY <1>1, <1>2, <2>1, <2>2
<1>4. ASSUME NEW k \in 1 .. n, k - 1 \in T
      PROVE  k \in T
  <2> DEFINE index == n + 1 - k
             x == q[k - 1]
             y == q[k]
  <2>1. /\ index \in 1 .. n /\ n + 1 - (k - 1) = index + 1 /\ n + 1 - index = k
        /\ k - 1 \in 0 .. n /\ k \in 0 .. n /\ k - 1 \in Nat /\ k \in Nat
    OBVIOUS
  <2>2. x \in Words /\ y \in Words /\ y = PushWord(ptrs[index], x) /\ ptrs[index] \in Byte
    BY <1>1, <2>1
  <2>3. x.sp = first.sp - (k - 1) * WORD /\ PointersDone(first, ptrs, n, index + 1 .. n, x)
    BY <1>4, <2>1
  <2> HIDE DEF index, x, y
  <2>4. /\ y.sp = x.sp - WORD /\ x.sp \in Int /\ y.sp \in Int
        /\ \A a \in Window : a < y.sp \/ a >= x.sp => y.window[a] = x.window[a]
        /\ y.sp \in Window => y.window[y.sp] = ptrs[index]
    <3>1. /\ y.sp = x.sp - WORD
          /\ \A a \in Window : a < y.sp \/ a >= x.sp => y.window[a] = x.window[a]
          /\ y.sp \in Window => y.window[y.sp] = ptrs[index]
      BY <2>2, WordPushed, Zenon
    <3>2. x.sp \in Int /\ y.sp \in Int
      BY <2>2 DEF Words
    <3> QED BY <3>1, <3>2
  <2>5. (k - 1) * WORD \in Nat /\ k * WORD = (k - 1) * WORD + WORD
    BY <2>1, Multiples
  <2>6. y.sp = first.sp - k * WORD /\ x.sp <= first.sp
    BY <1>2, <2>3, <2>4, <2>5
  <2>7. ASSUME NEW a \in Window, a < y.sp \/ a >= first.sp
        PROVE  y.window[a] = first.window[a]
    <3>1. a < y.sp \/ a >= x.sp
      BY <1>2, <2>4, <2>6, <2>7 DEF Window
    <3>2. a < x.sp \/ a >= first.sp
      BY <1>2, <2>4, <2>6, <2>7 DEF Window
    <3> QED BY <2>3, <2>4, <3>1, <3>2 DEF PointersDone
  <2>8. ASSUME NEW i \in index .. n, NEW a \in Window, a = first.sp - (n + 1 - i) * WORD
        PROVE  y.window[a] = ptrs[i]
    <3>1. CASE i = index
      BY <2>1, <2>4, <2>6, <2>8, <3>1
    <3>2. CASE i # index
      <4>1. i \in index + 1 .. n /\ n + 1 - i \in Nat /\ n + 1 - i <= k - 1
        BY <2>1, <3>2
      <4>2. (n + 1 - i) * WORD \in Nat /\ (n + 1 - i) * WORD <= (k - 1) * WORD
        BY <2>1, <4>1, Multiples
      <4>3. a >= x.sp
        BY <1>2, <2>3, <2>5, <2>8, <4>2 DEF Window
      <4>4. x.window[a] = ptrs[i]
        BY <2>3, <2>8, <4>1 DEF PointersDone
      <4> QED BY <2>4, <4>3, <4>4
    <3> QED BY <3>1, <3>2
  <2>9. PointersDone(first, ptrs, n, index .. n, y)
    BY <2>7, <2>8, Zenon DEF PointersDone
  <2> QED BY <2>1, <2>6, <2>9 DEF index, y
<1>5. 0 .. n \subseteq T
  <2> HIDE DEF T
  <2> QED BY <1>3, <1>4, InductionTo
<1>6. n \in T /\ n + 1 - n = 1
  BY <1>5
<1>7. r \in Words /\ r.sp = first.sp - n * WORD /\ PointersDone(first, ptrs, n, 1 .. n, r)
  BY <1>1, <1>6
<1> QED BY ONLY <1>7, Zenon DEF r

(* Rounding the stack pointer down to 16 bytes does not raise it.          *)
LEMMA Aligned ==
  ASSUME NEW sp \in Nat
  PROVE  Align(sp) \in Int /\ Align(sp) <= sp
<1>1. 2 * WORD \in Nat \ {0}
  OBVIOUS
<1>2. ASSUME NEW d \in Nat \ {0} PROVE sp % d \in 0 .. d - 1
  OBVIOUS
<1> QED BY <1>1, <1>2 DEF Align

-----------------------------------------------------------------------------
(* get_arg reads back a string that lies where a pointer says.             *)
LEMMA GetArgReads ==
  ASSUME NEW w \in Image, NEW argv \in Int, NEW index \in Int, NEW arg \in Text,
         StringAt(w, w[argv + index * WORD], arg)
  PROVE  GetArg(w, argv, index) = Shortened(arg)
<1> DEFINE p == w[argv + index * WORD]
           Ends == {n \in 0 .. GET_ARG_MAX + 1 :
                      p + n \in Window /\ (n > GET_ARG_MAX \/ w[p + n] = 0)}
           m == IF Len(arg) <= GET_ARG_MAX + 1 THEN Len(arg) ELSE GET_ARG_MAX + 1
<1>0. \A j \in 1 .. Len(arg) : arg[j] # 0
  BY NoNul
<1>1. /\ p \in Window /\ p + Len(arg) \in Window /\ Len(arg) \in Nat
      /\ \A j \in 1 .. Len(arg) : w[p + j - 1] = arg[j]
      /\ w[p + Len(arg)] = 0
  BY DEF StringAt
<1> HIDE DEF p
<1>2. m \in Nat /\ m <= Len(arg) /\ m <= GET_ARG_MAX + 1 /\ (m = Len(arg) \/ m > GET_ARG_MAX)
  BY <1>1
<1>3. Min({Len(arg), GET_ARG_MAX + 1}) = m
  BY <1>1 DEF Min
<1> HIDE DEF m
<1>4. m \in Ends
  <2>1. p + m \in Window
    BY <1>1, <1>2 DEF Window
  <2> QED BY <1>1, <1>2, <2>1
<1>5. ASSUME NEW n \in Ends PROVE m <= n
  <2> SUFFICES ASSUME n < m PROVE FALSE
    BY <1>2
  <2>1. n + 1 \in 1 .. Len(arg) /\ n \in Nat /\ p + (n + 1) - 1 = p + n /\ ~(n > GET_ARG_MAX)
    BY <1>1, <1>2 DEF Window
  <2>2. w[p + n] = arg[n + 1]
    BY <1>1, <2>1
  <2>3. arg[n + 1] # 0
    BY <1>0, <2>1
  <2> QED BY <2>1, <2>2, <2>3
<1>6. ArgLength(w, p) = m
  <2>1. Ends \subseteq Nat
    OBVIOUS
  <2>2. ArgLength(w, p) = Min(Ends)
    BY DEF ArgLength
  <2> HIDE DEF Ends
  <2>3. Min(Ends) \in Ends /\ \A y \in Ends : Min(Ends) <= y
    BY <1>4, <1>5, Zenon DEF Min
  <2>4. PICK z \in Ends : z = Min(Ends) /\ z \in Nat
    BY <2>1, <2>3, Zenon
  <2>5. z <= m /\ m <= z
    BY <1>4, <1>5, <2>3, <2>4
  <2>6. z = m
    BY <1>2, <2>4, <2>5
  <2> QED BY <2>2, <2>4, <2>6
<1>7. GetArg(w, argv, index) = [i \in 1 .. m |-> w[p + i - 1]]
  BY <1>6, Zenon DEF GetArg, p
<1>8. \A i \in 1 .. m : w[p + i - 1] = arg[i]
  BY <1>1, <1>2
<1>9. SubSeq(arg, 1, m) = [i \in 1 .. m |-> arg[i]]
  BY <1>1, <1>2
<1> QED BY <1>3, <1>7, <1>8, <1>9 DEF Shortened

-----------------------------------------------------------------------------
(* The stack has grown from x to y, and only between the two was the       *)
(* window written.                                                         *)
Grown(x, y) ==
  /\ x \in Words /\ y \in Words /\ y.sp <= x.sp
  /\ \A a \in Window : a < y.sp \/ a >= x.sp => y.window[a] = x.window[a]

(* Two pushes, one after the other, are a growth of the stack.             *)
LEMMA GrownTwice ==
  ASSUME NEW x, NEW y, NEW z, Grown(x, y), Grown(y, z)
  PROVE  Grown(x, z)
<1>1. x.sp \in Int /\ y.sp \in Int /\ z.sp \in Int
  BY DEF Grown, Words
<1>2. z.sp <= y.sp /\ y.sp <= x.sp
  BY DEF Grown
<1>3. \A a \in Window : a < z.sp \/ a >= x.sp => (a < z.sp \/ a >= y.sp) /\ (a < y.sp \/ a >= x.sp)
  BY <1>1, <1>2 DEF Window
<1>4. \A a \in Window : a < z.sp \/ a >= x.sp => z.window[a] = x.window[a]
  BY <1>3 DEF Grown
<1>5. z.sp <= x.sp
  BY <1>1, <1>2
<1> QED BY <1>4, <1>5 DEF Grown

(* A write_usize_to_user below the stack pointer grows the stack by a word.*)
LEMMA WordGrows ==
  ASSUME NEW word \in Byte, NEW st \in Words
  PROVE  Grown(st, PushWord(word, st)) /\ PushWord(word, st).sp = st.sp - WORD
<1> DEFINE x == PushWord(word, st)
<1>1. /\ x \in Words /\ x.sp = st.sp - WORD
      /\ \A a \in Window : a < x.sp \/ a >= st.sp => x.window[a] = st.window[a]
  BY WordPushed, Zenon
<1> HIDE DEF x
<1>2. st.sp \in Int
  BY DEF Words
<1>3. x.sp <= st.sp
  BY <1>1, <1>2
<1> QED BY <1>1, <1>3 DEF Grown, x

(* Where the stack of build_user_stack ends when its strings end at sp.    *)
ArgvAt(sp, n) == Align(sp) - (IF (n + 2) % 2 # 0 THEN WORD ELSE 0) - WORD - n * WORD

(* The words above the argv array.                                         *)
LEMMA WordsPhase ==
  ASSUME NEW r \in Words, r.sp >= 0, NEW n \in Nat, NEW ptrs \in [1 .. n -> Byte], n \in Byte,
         NEW aligned, aligned = [sp |-> Align(r.sp), window |-> r.window]
  PROVE  LET padded == IF (n + 2) % 2 # 0 THEN PushWord(0, aligned) ELSE aligned
             pointers == PushPointers(ptrs, PushWord(0, padded))
             top == PushWord(n, pointers)
         IN  /\ Grown(r, top)
             /\ pointers.sp = ArgvAt(r.sp, n) /\ top.sp = pointers.sp - WORD
             /\ pointers.sp \in Int
             /\ \A i \in 1 .. n : pointers.sp + (i - 1) * WORD \in Window =>
                  top.window[pointers.sp + (i - 1) * WORD] = ptrs[i]
<1> DEFINE padded == IF (n + 2) % 2 # 0 THEN PushWord(0, aligned) ELSE aligned
           null == PushWord(0, padded)
           pointers == PushPointers(ptrs, null)
           top == PushWord(n, pointers)
<1>1. r.sp \in Nat /\ r.window \in Image /\ 0 \in Byte
  BY DEF Words, Byte
<1>2. Align(r.sp) \in Int /\ Align(r.sp) <= r.sp
  BY <1>1, Aligned
<1>3. Grown(r, aligned) /\ aligned \in Words /\ aligned.sp = Align(r.sp)
  <2>1. aligned \in Words /\ aligned.sp = Align(r.sp) /\ aligned.window = r.window
    BY <1>1, <1>2 DEF Words
  <2> QED BY <1>2, <2>1 DEF Grown
<1>4. /\ Grown(r, padded) /\ padded \in Words
      /\ padded.sp = Align(r.sp) - (IF (n + 2) % 2 # 0 THEN WORD ELSE 0)
  <2>1. Grown(aligned, PushWord(0, aligned)) /\ PushWord(0, aligned).sp = aligned.sp - WORD
    BY <1>1, <1>3, WordGrows
  <2>2. Grown(r, PushWord(0, aligned))
    BY <1>3, <2>1, GrownTwice
  <2>3. CASE (n + 2) % 2 # 0
    <3>1. padded = PushWord(0, aligned)
      BY <2>3
    <3> QED BY <1>3, <2>1, <2>2, <2>3, <3>1 DEF Grown
  <2>4. CASE ~((n + 2) % 2 # 0)
    <3>1. padded = aligned
      BY <2>4
    <3> QED BY <1>2, <1>3, <2>4, <3>1
  <2> QED BY <2>3, <2>4
<1> HIDE DEF padded
<1>5. Grown(r, null) /\ null \in Words /\ null.sp = padded.sp - WORD /\ null.sp \in Int
  <2>1. Grown(padded, null) /\ null.sp = padded.sp - WORD
    BY <1>1, <1>4, WordGrows
  <2> HIDE DEF null
  <2>2. Grown(r, null) /\ null \in Words
    BY <1>4, <2>1, GrownTwice DEF Grown
  <2> QED BY <2>1, <2>2 DEF Words
<1> HIDE DEF null
<1>6. /\ pointers \in Words /\ pointers.sp = null.sp - n * WORD
      /\ PointersDone(null, ptrs, n, 1 .. n, pointers)
  BY <1>5, PointersPhase, Zenon
<1> HIDE DEF pointers
<1>7. n * WORD \in Nat /\ pointers.sp \in Int
  BY <1>6, Multiples DEF Words
<1>8. Grown(null, pointers)
  <2>1. pointers.sp <= null.sp
    BY <1>5, <1>6, <1>7
  <2> QED BY <1>5, <1>6, <2>1 DEF Grown, PointersDone
<1>9. Grown(pointers, top) /\ top.sp = pointers.sp - WORD
  BY <1>6, WordGrows
<1> HIDE DEF top
<1>10. Grown(r, top)
  BY <1>5, <1>8, <1>9, GrownTwice
<1>11. pointers.sp = ArgvAt(r.sp, n)
  BY <1>4, <1>5, <1>6 DEF ArgvAt
<1>12. ASSUME NEW i \in 1 .. n, pointers.sp + (i - 1) * WORD \in Window
       PROVE  top.window[pointers.sp + (i - 1) * WORD] = ptrs[i]
  <2> DEFINE a == pointers.sp + (i - 1) * WORD
  <2>1. (i - 1) * WORD \in Nat /\ i - 1 \in Nat
    BY Multiples
  <2>2. a >= pointers.sp
    BY <1>7, <2>1
  <2>3. a = null.sp - (n + 1 - i) * WORD
    <3>1. n * WORD = (i - 1) * WORD + (n + 1 - i) * WORD /\ (n + 1 - i) * WORD \in Int
      OBVIOUS
    <3> QED BY <1>5, <1>6, <1>7, <2>1, <3>1
  <2> HIDE DEF a
  <2>4. a \in Window
    BY <1>12 DEF a
  <2>5. pointers.window[a] = ptrs[i]
    BY <1>6, <2>3, <2>4, Zenon DEF PointersDone
  <2>6. top.window[a] = pointers.window[a]
    BY <1>9, <2>2, <2>4 DEF Grown
  <2> QED BY <2>5, <2>6 DEF a
<1>13. /\ Grown(r, top)
       /\ pointers.sp = ArgvAt(r.sp, n) /\ top.sp = pointers.sp - WORD /\ pointers.sp \in Int
       /\ \A i \in 1 .. n : pointers.sp + (i - 1) * WORD \in Window =>
            top.window[pointers.sp + (i - 1) * WORD] = ptrs[i]
  BY <1>7, <1>9, <1>10, <1>11, <1>12
<1> QED BY ONLY <1>13, Zenon DEF top, pointers, null, padded

(* What build_user_stack leaves: where its stack ends depends on the       *)
(* arguments only, below it the window is as it was, and if it ends in the *)
(* window get_arg finds the arguments.                                     *)
LEMMA BuildFine ==
  ASSUME NEW w \in Image, NEW args \in Arguments
  PROVE  LET b == BuildUserStack(w, args)
             r == PushStrings(w, args)
         IN  /\ b.window \in Image /\ b.failed = r.failed
             /\ ~b.failed =>
                  /\ b.argv = ArgvAt(r.sp, Len(args)) /\ b.sp = b.argv - WORD /\ b.argv \in Int
                  /\ \A a \in Window : a < b.sp => b.window[a] = w[a]
                  /\ b.sp >= USER_IMAGE_BASE => \A i \in 1 .. Len(args) :
                       GetArg(b.window, b.argv, i - 1) =
                         Shortened(args[i])
<1> DEFINE n == Len(args)
           s == PushStrings(w, args)
           aligned == [sp |-> Align(s.sp), window |-> s.window]
           padded == IF (n + 2) % 2 # 0 THEN PushWord(0, aligned) ELSE aligned
           pointers == PushPointers(s.arg_ptrs, PushWord(0, padded))
           top == PushWord(n, pointers)
           b == BuildUserStack(w, args)
<1>0. n \in Nat
  BY ArgumentFacts
<1>1. /\ s \in Strings(n)
      /\ ~s.failed => StringsDone(w, args, 1 .. n, s) /\ s.sp <= USER_IMAGE_LIMIT - n
  BY StringsPhase, Zenon
<1>2. b = IF s.failed THEN [failed |-> TRUE, window |-> s.window]
          ELSE [failed |-> FALSE, window |-> top.window, sp |-> top.sp, argc |-> n,
                argv |-> pointers.sp]
  BY Zenon DEF BuildUserStack
<1> HIDE DEF s, b
<1>3. /\ s.sp \in USER_IMAGE_BASE .. USER_IMAGE_LIMIT /\ s.arg_ptrs \in [1 .. n -> Byte]
      /\ s.window \in Image /\ s.failed \in BOOLEAN
  BY <1>1 DEF Strings
<1>4. CASE s.failed
  <2>1. b.failed = TRUE /\ b.window = s.window
    BY <1>2, <1>4, Zenon
  <2>2. b.window \in Image /\ b.failed = s.failed /\ b.failed
    BY <1>3, <1>4, <2>1
  <2> QED BY ONLY <2>2, Zenon DEF b, s
<1>5. CASE ~s.failed
  <2> DEFINE r == [sp |-> s.sp, window |-> s.window]
  <2>1. r \in Words /\ r.sp = s.sp /\ r.window = s.window /\ r.sp >= 0
    BY <1>3 DEF Words
  <2> HIDE DEF r
  <2>2. n \in Byte
    <3>1. s.sp \in Int /\ s.sp >= USER_IMAGE_BASE /\ s.sp <= USER_IMAGE_LIMIT - n
      BY <1>1, <1>3, <1>5
    <3> HIDE DEF n
    <3> QED BY <1>0, <3>1 DEF Byte
  <2>3. /\ Grown(r, top)
        /\ pointers.sp = ArgvAt(r.sp, n) /\ top.sp = pointers.sp - WORD /\ pointers.sp \in Int
        /\ \A i \in 1 .. n : pointers.sp + (i - 1) * WORD \in Window =>
             top.window[pointers.sp + (i - 1) * WORD] = s.arg_ptrs[i]
    <3>1. aligned = [sp |-> Align(r.sp), window |-> r.window]
      BY <2>1
    <3> DEFINE ptrs == s.arg_ptrs
    <3>2. ptrs \in [1 .. n -> Byte]
      BY <1>3
    <3> HIDE DEF aligned, n, ptrs
    <3>3. LET padd == IF (n + 2) % 2 # 0 THEN PushWord(0, aligned) ELSE aligned
              pts == PushPointers(ptrs, PushWord(0, padd))
              tp == PushWord(n, pts)
          IN  /\ Grown(r, tp)
              /\ pts.sp = ArgvAt(r.sp, n) /\ tp.sp = pts.sp - WORD
              /\ pts.sp \in Int
              /\ \A i \in 1 .. n : pts.sp + (i - 1) * WORD \in Window =>
                   tp.window[pts.sp + (i - 1) * WORD] = ptrs[i]
      BY ONLY <1>0, <2>1, <2>2, <3>1, <3>2, WordsPhase
    <3> QED BY ONLY <3>3, Zenon DEF ptrs
  <2> HIDE DEF top, pointers
  <2>4. /\ b.failed = FALSE /\ b.window = top.window /\ b.sp = top.sp
        /\ b.argv = pointers.sp
    BY <1>2, <1>5, Zenon
  <2>5. top.window \in Image
    BY <2>3 DEF Grown, Words
  <2>6. \A a \in Window : a < top.sp => top.window[a] = w[a]
    <3>1. top.sp <= s.sp /\ top.sp \in Int /\ s.sp \in Int
      BY <1>3, <2>1, <2>3 DEF Grown, Words
    <3>2. \A a \in Window : a < top.sp => a < s.sp
      BY <3>1 DEF Window
    <3> QED BY <1>1, <1>5, <2>1, <2>3, <3>2 DEF Grown, StringsDone
  <2>7. ASSUME top.sp >= USER_IMAGE_BASE, NEW i \in 1 .. n
        PROVE  GetArg(top.window, pointers.sp, i - 1) =
                 Shortened(args[i])
    <3> DEFINE p == s.arg_ptrs[i]
               a == pointers.sp + (i - 1) * WORD
               arg == args[i]
    <3>1. StringAt(s.window, p, arg) /\ s.sp <= p /\ arg \in Text /\ Len(arg) \in Nat
      BY <1>1, <1>5, ArgumentFacts DEF StringsDone
    <3>2. a \in Window
      <4>1. /\ i - 1 \in Nat /\ (i - 1) * WORD \in Nat /\ n * WORD \in Nat
            /\ (i - 1) * WORD <= n * WORD
        BY <1>0, Multiples
      <4>2. pointers.sp + n * WORD < USER_IMAGE_LIMIT
        <5>1. Align(s.sp) \in Int /\ Align(s.sp) <= s.sp
          BY <1>3, Aligned
        <5>2. (IF (n + 2) % 2 # 0 THEN WORD ELSE 0) \in Nat
          OBVIOUS
        <5> HIDE DEF n
        <5> QED BY <1>3, <2>1, <2>3, <4>1, <5>1, <5>2 DEF ArgvAt
      <4>3. pointers.sp >= USER_IMAGE_BASE
        BY <2>3, <2>7
      <4> QED BY <2>3, <4>1, <4>2, <4>3 DEF Window
    <3>3. top.window[a] = p
      BY <2>3, <3>2
    <3> HIDE DEF p, a, arg
    <3>4. StringAt(top.window, p, arg)
      <4>1. /\ p \in Window /\ p + Len(arg) \in Window
            /\ \A j \in 1 .. Len(arg) : s.window[p + j - 1] = arg[j]
            /\ s.window[p + Len(arg)] = 0
        BY <3>1 DEF StringAt
      <4>2. \A x \in Window : x >= s.sp => top.window[x] = s.window[x]
        BY <2>1, <2>3 DEF Grown
      <4>3. \A j \in 1 .. Len(arg) : p + j - 1 \in Window /\ p + j - 1 >= s.sp
        <5> SUFFICES ASSUME NEW j \in 1 .. Len(arg)
                     PROVE  p + j - 1 \in Window /\ p + j - 1 >= s.sp
          OBVIOUS
        <5>1. p + j - 1 \in Window /\ p <= p + j - 1
          BY <3>1, <4>1, Within
        <5> QED BY <1>3, <3>1, <4>1, <5>1 DEF Window
      <4>4. p + Len(arg) >= s.sp
        BY <1>3, <3>1, <4>1 DEF Window
      <4> QED BY <4>1, <4>2, <4>3, <4>4 DEF StringAt
    <3>5. StringAt(top.window, top.window[pointers.sp + (i - 1) * WORD], arg)
      BY <3>3, <3>4 DEF a
    <3>6. i - 1 \in Int
      OBVIOUS
    <3>7. GetArg(top.window, pointers.sp, i - 1) =
            Shortened(arg)
      <4> DEFINE v == top.window
                 argv == pointers.sp
                 index == i - 1
      <4>1. v \in Image /\ argv \in Int /\ index \in Int /\ arg \in Text
            /\ StringAt(v, v[argv + index * WORD], arg)
        BY <2>3, <2>5, <3>1, <3>5, <3>6, Zenon
      <4> HIDE DEF v, argv, index
      <4>2. GetArg(v, argv, index) = Shortened(arg)
        BY ONLY <4>1, GetArgReads, Zenon
      <4> QED BY ONLY <4>2, Zenon DEF v, argv, index
    <3> QED BY ONLY <3>7, Zenon DEF arg
  <2>8. /\ b.window \in Image /\ b.failed = s.failed
        /\ b.argv = ArgvAt(s.sp, n) /\ b.sp = b.argv - WORD /\ b.argv \in Int
        /\ \A a \in Window : a < b.sp => b.window[a] = w[a]
        /\ b.sp >= USER_IMAGE_BASE => \A i \in 1 .. n :
             GetArg(b.window, b.argv, i - 1) =
               Shortened(args[i])
    BY <1>3, <1>5, <2>1, <2>3, <2>4, <2>5, <2>6, <2>7
  <2> QED BY ONLY <2>8, Zenon DEF b, s
<1> QED BY <1>4, <1>5

(* The same arguments make the same stack in every window.                 *)
LEMMA BuildAlike ==
  ASSUME NEW v \in Image, NEW w \in Image, NEW args \in Arguments
  PROVE  LET a == BuildUserStack(v, args)
             b == BuildUserStack(w, args)
         IN  a.failed = b.failed /\ (~b.failed => a.sp = b.sp)
<1>1. /\ BuildUserStack(v, args).failed = PushStrings(v, args).failed
      /\ ~BuildUserStack(v, args).failed =>
           /\ BuildUserStack(v, args).argv = ArgvAt(PushStrings(v, args).sp, Len(args))
           /\ BuildUserStack(v, args).sp = BuildUserStack(v, args).argv - WORD
  BY BuildFine, Zenon
<1>2. /\ BuildUserStack(w, args).failed = PushStrings(w, args).failed
      /\ ~BuildUserStack(w, args).failed =>
           /\ BuildUserStack(w, args).argv = ArgvAt(PushStrings(w, args).sp, Len(args))
           /\ BuildUserStack(w, args).sp = BuildUserStack(w, args).argv - WORD
  BY BuildFine, Zenon
<1> QED BY <1>1, <1>2, StringsAlike, Zenon

-----------------------------------------------------------------------------
(* load puts a segment where it belongs.                                   *)
LEMMA Placed ==
  ASSUME NEW file, file.headers \in Headers, NEW k \in Loaded(file)
  PROVE  /\ k \in 1 .. Len(file.headers) /\ file.headers[k] \in ProgramHeader /\ IsLoad(file.headers[k])
         /\ Dest(file, file.headers[k].vaddr) = Place(file, k, 0)
         /\ Place(file, k, 0) \in Int /\ Place(file, k, 0) >= USER_IMAGE_BASE
         /\ \A i \in Nat : Place(file, k, i) = Place(file, k, 0) + i
<1> DEFINE h == file.headers
           V == {h[l].vaddr : l \in Loaded(file)}
<1>1. \A l \in Loaded(file) : /\ l \in 1 .. Len(h) /\ h[l] \in ProgramHeader /\ IsLoad(h[l])
                             /\ h[l].vaddr \in Nat
  BY HeaderFacts DEF Loaded, IsLoad
<1>2. V \in SUBSET Nat /\ V # {} /\ h[k].vaddr \in V
  BY <1>1
<1>3. V = {seg.vaddr : seg \in Segments(file)}
  <2>1. Segments(file) = {h[l] : l \in Loaded(file)}
    BY DEF Segments, Loaded, IsLoad, Range
  <2> QED BY <2>1
<1>4. BaseVaddr(file) = Min(V)
  <2> HIDE DEF V
  <2> QED BY <1>2, <1>3, Zenon DEF BaseVaddr
<1>5. Min(V) \in V /\ \A v \in V : Min(V) <= v
  <2> HIDE DEF V
  <2>1. \E v \in V : \A u \in V : v <= u
    BY <1>2, LeastNat
  <2> QED BY <2>1, Zenon DEF Min
<1>6. LowAddress(file) \in V /\ \A v \in V : LowAddress(file) <= v
  <2>1. \E v \in V : \A l \in Loaded(file) : v <= h[l].vaddr
    <3>1. \A l \in Loaded(file) : h[l].vaddr \in V
      OBVIOUS
    <3> HIDE DEF V
    <3> QED BY <1>5, <3>1, Zenon
  <2>2. LowAddress(file) = CHOOSE v \in V : \A l \in Loaded(file) : v <= h[l].vaddr
    BY DEF LowAddress
  <2>3. LowAddress(file) \in V /\ \A l \in Loaded(file) : LowAddress(file) <= h[l].vaddr
    <3> HIDE DEF V
    <3> QED BY <2>1, <2>2, Zenon
  <2> QED BY <2>3
<1>7. PICK low \in Nat : low = LowAddress(file)
  BY <1>2, <1>6
<1>8. Min(V) = low
  <2> HIDE DEF V
  <2>1. PICK m \in Nat : m = Min(V)
    BY <1>2, <1>5
  <2>2. m <= low /\ low <= m
    BY <1>5, <1>6, <1>7, <2>1
  <2> QED BY <2>1, <2>2
<1>9. PICK a \in Nat : a = h[k].vaddr
  BY <1>1
<1>10. low <= a
  BY <1>2, <1>6, <1>7, <1>9
<1>11. \A i \in Nat : Place(file, k, i) = USER_IMAGE_BASE + a - low + i
  BY <1>7, <1>9 DEF Place
<1>12. Dest(file, a) = USER_IMAGE_BASE + (a - low)
  <2>1. Dest(file, a) = USER_IMAGE_BASE + Max({a - low, 0})
    BY <1>4, <1>8 DEF Dest
  <2>2. \A d \in Nat : Max({d, 0}) = d
    BY DEF Max
  <2>3. a - low \in Nat
    BY <1>10
  <2> QED BY <2>1, <2>2, <2>3
<1>13. /\ Place(file, k, 0) = USER_IMAGE_BASE + (a - low) /\ Place(file, k, 0) \in Int
       /\ Place(file, k, 0) >= USER_IMAGE_BASE
       /\ \A i \in Nat : Place(file, k, i) = Place(file, k, 0) + i
  BY <1>10, <1>11
<1> QED BY <1>1, <1>9, <1>12, <1>13

(* After load_into_user_window a byte that no later segment lies over is   *)
(* what the file says.                                                     *)
LEMMA LoadFine ==
  ASSUME NEW w \in Image, NEW file, file.headers \in Headers
  PROVE  /\ LoadIntoUserWindow(w, file) \in Image
         /\ \A k \in Loaded(file) : \A i \in 0 .. file.headers[k].memsz - 1 :
              Place(file, k, i) \in Window /\ ~Covered(file, k, Place(file, k, i)) =>
                LoadIntoUserWindow(w, file)[Place(file, k, i)] = Content(file.headers[k], i)
<1> DEFINE h == file.headers
           n == Len(h)
<1>0. n \in Nat
  BY HeaderFacts
<1>1. \A k \in 1 .. n : IsLoad(h[k]) => k \in Loaded(file)
  BY HeaderFacts DEF IsLoad, Loaded
<1>2. \A k \in 1 .. n : IsLoad(h[k]) => Dest(file, h[k].vaddr) \in Int
  BY <1>1, Placed
<1>3. PICK v \in [0 .. n -> Image] :
        /\ v[0] = w /\ v[n] = LoadIntoUserWindow(w, file)
        /\ \A k \in 1 .. n :
             v[k] = IF IsLoad(h[k]) THEN CopyToUser(v[k - 1], Dest(file, h[k].vaddr), Data(h[k]))
                    ELSE v[k - 1]
  <2>1. LET m == Len(file.headers)
            g == file.headers
        IN  \E v \in [0 .. m -> Image] :
              /\ v[0] = w /\ v[m] = LoadIntoUserWindow(w, file)
              /\ \A k \in 1 .. m :
                   v[k] = IF IsLoad(g[k]) THEN CopyToUser(v[k - 1], Dest(file, g[k].vaddr), Data(g[k]))
                          ELSE v[k - 1]
    BY ONLY <1>2, w \in Image, file.headers \in Headers, LoadLoop
  <2> QED BY ONLY <2>1, Zenon
<1>4. LoadIntoUserWindow(w, file) \in Image
  BY <1>0, <1>3
<1>5. ASSUME NEW k \in Loaded(file), NEW i \in 0 .. h[k].memsz - 1, NEW a \in Window,
             a = Place(file, k, i), ~Covered(file, k, a)
      PROVE  v[n][a] = Content(h[k], i)
  <2>1. /\ k \in 1 .. n /\ h[k] \in ProgramHeader /\ IsLoad(h[k])
        /\ Dest(file, h[k].vaddr) = Place(file, k, 0) /\ Place(file, k, 0) \in Int
        /\ \A j \in Nat : Place(file, k, j) = Place(file, k, 0) + j
    BY Placed
  <2>2. h[k].memsz \in Nat /\ h[k].bytes \in Seq(Byte) /\ i \in Nat /\ i < h[k].memsz
    <3>1. h[k].memsz \in Nat /\ h[k].bytes \in Seq(Byte)
      BY <2>1, HeaderFacts
    <3> QED BY <3>1
  <2>3. v[k][a] = Content(h[k], i)
    <3> DEFINE d == Place(file, k, 0)
               x == v[k - 1]
    <3>1. x \in Image /\ v[k] = CopyToUser(x, d, Data(h[k]))
      <4>1. k - 1 \in 0 .. n
        BY <1>0, <2>1
      <4>2. x \in Image
        BY <1>3, <4>1
      <4> QED BY <1>3, <2>1, <4>2
    <3>2. a = d + i
      BY <1>5, <2>1, <2>2
    <3> HIDE DEF d, x
    <3>3. d \in Int
      BY <2>1 DEF d
    <3>4. /\ Data(h[k]) \in Seq(Byte) /\ Len(Data(h[k])) = h[k].memsz
          /\ Data(h[k])[i + 1] = Content(h[k], i)
      <4>1. /\ Data(h[k]) \in Seq(Byte) /\ Len(Data(h[k])) = h[k].memsz
            /\ \A j \in 1 .. h[k].memsz : Data(h[k])[j] =
                 IF j <= Len(h[k].bytes) THEN h[k].bytes[j] ELSE 0
        BY <2>1, DataBytes
      <4>2. i + 1 \in 1 .. h[k].memsz /\ (i + 1 <= Len(h[k].bytes) <=> i < Len(h[k].bytes))
        BY <2>2
      <4> QED BY <4>1, <4>2 DEF Content
    <3>5. CopyToUser(x, d, Data(h[k]))[a] =
            IF d <= a /\ a < d + Len(Data(h[k])) THEN Data(h[k])[a - d + 1] ELSE x[a]
      BY <3>1, <3>3, <3>4, Copied, Zenon
    <3>6. d <= a /\ a < d + h[k].memsz /\ a - d + 1 = i + 1
      BY <2>2, <3>2, <3>3
    <3> QED BY <3>1, <3>4, <3>5, <3>6
  <2> DEFINE T == {j \in 0 .. n : j >= k => v[j][a] = Content(h[k], i)}
  <2>4. 0 \in T
    BY <1>0, <2>1
  <2>5. ASSUME NEW j \in 1 .. n, j - 1 \in T
        PROVE  j \in T
    <3>1. CASE j <= k
      BY <1>0, <2>1, <2>3, <3>1
    <3>2. CASE j > k
      <4> DEFINE x == v[j - 1]
      <4>1. x[a] = Content(h[k], i) /\ x \in Image /\ j \in 0 .. n
        <5>1. j - 1 \in 0 .. n /\ j \in 0 .. n /\ j - 1 >= k
          <6>1. k \in Int
            BY <2>1
          <6> HIDE DEF n
          <6> QED BY ONLY j \in 1 .. n, <1>0, <3>2, <6>1
        <5>2. x \in Image
          BY <1>3, <5>1
        <5> QED BY <2>5, <5>1, <5>2
      <4>2. CASE ~IsLoad(h[j])
        BY <1>3, <4>1, <4>2
      <4>3. CASE IsLoad(h[j])
        <5> DEFINE d == Place(file, j, 0)
        <5>1. /\ j \in Loaded(file) /\ h[j] \in ProgramHeader
              /\ Dest(file, h[j].vaddr) = d /\ d \in Int
              /\ \A l \in Nat : Place(file, j, l) = d + l
          BY <1>1, <4>3, Placed
        <5>2. v[j] = CopyToUser(x, d, Data(h[j]))
          BY <1>3, <4>3, <5>1
        <5> HIDE DEF d, x
        <5>3. Data(h[j]) \in Seq(Byte) /\ Len(Data(h[j])) = h[j].memsz /\ h[j].memsz \in Nat
          BY <5>1, DataBytes, HeaderFacts
        <5>4. v[j][a] = IF d <= a /\ a < d + Len(Data(h[j])) THEN Data(h[j])[a - d + 1] ELSE x[a]
          <6>1. x \in Image /\ d \in Int /\ Data(h[j]) \in Seq(Byte)
            BY <4>1, <5>1, <5>3
          <6>2. CopyToUser(x, d, Data(h[j]))[a] =
                  IF d <= a /\ a < d + Len(Data(h[j])) THEN Data(h[j])[a - d + 1] ELSE x[a]
            BY <6>1, Copied, Zenon
          <6> QED BY <5>2, <6>2, Zenon
        <5>5. ~(d <= a /\ a < d + h[j].memsz)
          <6> SUFFICES ASSUME d <= a, a < d + h[j].memsz PROVE FALSE
            OBVIOUS
          <6>1. a \in Int
            BY DEF Window
          <6>2. a - d \in 0 .. h[j].memsz - 1 /\ a - d \in Nat /\ a = d + (a - d)
            BY <5>1, <5>3, <6>1, Offset, Zenon
          <6>3. a = Place(file, j, a - d)
            BY <5>1, <6>2
          <6> QED BY <1>5, <3>2, <5>1, <6>2, <6>3 DEF Covered
        <5> QED BY <4>1, <5>3, <5>4, <5>5
      <4> QED BY <4>2, <4>3
    <3> QED BY <2>1, <3>1, <3>2
  <2>6. 0 .. n \subseteq T
    <3> HIDE DEF T
    <3> QED BY <1>0, <2>4, <2>5, InductionTo
  <2>7. n \in T /\ n >= k
    <3> HIDE DEF T, n
    <3> QED BY <1>0, <2>1, <2>6
  <2> QED BY <2>7
<1>6. ASSUME NEW k \in Loaded(file), NEW i \in 0 .. file.headers[k].memsz - 1,
             Place(file, k, i) \in Window, ~Covered(file, k, Place(file, k, i))
      PROVE  LoadIntoUserWindow(w, file)[Place(file, k, i)] = Content(file.headers[k], i)
  BY <1>3, <1>5, <1>6
<1> QED BY <1>4, <1>6

(* A whole number of words is aligned to a word.                           *)
LEMMA WholeWords ==
  ASSUME NEW m \in Int
  PROVE  (m * WORD) % WORD = 0
<1> DEFINE x == m * WORD
           d == x \div WORD
           r == x % WORD
<1>1. x \in Int /\ d \in Int /\ r \in 0 .. WORD - 1 /\ x = WORD * d + r
  <2>1. ASSUME NEW y \in Int, NEW z \in Nat \ {0}
        PROVE  y \div z \in Int /\ y % z \in 0 .. z - 1 /\ y = z * (y \div z) + (y % z)
    OBVIOUS
  <2>2. x \in Int /\ WORD \in Nat \ {0}
    OBVIOUS
  <2> HIDE DEF x
  <2> QED BY ONLY <2>1, <2>2, Zenon DEF d, r
<1> HIDE DEF d, r
<1>2. (m - d) * WORD = r
  BY <1>1
<1>3. CASE m - d >= 1
  <2>1. (m - d) * WORD = WORD + (m - d - 1) * WORD /\ (m - d - 1) * WORD \in Nat
    BY <1>1, <1>3
  <2> QED BY <1>1, <1>2, <2>1
<1>4. CASE m - d <= -1
  <2>1. (m - d) * WORD = -((d - m) * WORD) /\ (d - m) * WORD = WORD + (d - m - 1) * WORD
        /\ (d - m - 1) * WORD \in Nat
    BY <1>1, <1>4
  <2> QED BY <1>1, <1>2, <2>1
<1>5. CASE m - d = 0
  BY <1>1, <1>2, <1>5 DEF r
<1> QED BY <1>1, <1>3, <1>4, <1>5

(* The argv array begins at a word: build_user_stack aligns the stack      *)
(* pointer before it pushes words.                                         *)
LEMMA ArgvAligned ==
  ASSUME NEW sp \in Nat, NEW n \in Nat
  PROVE  ArgvAt(sp, n) % WORD = 0
<1> DEFINE e == 2 * WORD
           d == sp \div e
           p == IF (n + 2) % 2 # 0 THEN 1 ELSE 0
<1>1. e \in Nat \ {0}
  OBVIOUS
<1>2. ASSUME NEW y \in Nat \ {0} PROVE sp \div y \in Int /\ sp - (sp % y) = y * (sp \div y)
  OBVIOUS
<1>3. d \in Int /\ Align(sp) = e * d
  BY <1>1, <1>2 DEF Align
<1> HIDE DEF d
<1>4. p \in Int /\ (IF (n + 2) % 2 # 0 THEN WORD ELSE 0) = p * WORD
  OBVIOUS
<1> HIDE DEF p
<1>5. ArgvAt(sp, n) = e * d - p * WORD - WORD - n * WORD
  BY <1>3, <1>4 DEF ArgvAt
<1>6. ArgvAt(sp, n) = (2 * d - p - 1 - n) * WORD
  BY <1>3, <1>4, <1>5
<1>7. 2 * d - p - 1 - n \in Int
  BY <1>3, <1>4
<1> QED BY <1>6, <1>7, WholeWords

(* If the words fit, argv is an aligned address in the window.             *)
LEMMA ArgvInside ==
  ASSUME NEW w \in Image, NEW args \in Arguments
  PROVE  LET b == BuildUserStack(w, args)
         IN  ~b.failed /\ b.sp >= USER_IMAGE_BASE => b.argv \in Window /\ b.argv % WORD = 0
<1> DEFINE b == BuildUserStack(w, args)
           r == PushStrings(w, args)
           n == Len(args)
<1>1. b.failed = r.failed /\ (~b.failed => b.argv = ArgvAt(r.sp, n) /\ b.sp = b.argv - WORD /\ b.argv \in Int)
  BY BuildFine, Zenon
<1>2. r \in Strings(n) /\ (~r.failed => r.sp <= USER_IMAGE_LIMIT - n)
  BY StringsPhase, Zenon
<1>3. n \in Nat
  BY ArgumentFacts
<1>4. r.sp \in USER_IMAGE_BASE .. USER_IMAGE_LIMIT
  BY <1>2, Zenon DEF Strings
<1> HIDE DEF b, r, n
<1> SUFFICES ASSUME ~b.failed, b.sp >= USER_IMAGE_BASE
             PROVE  b.argv \in Window /\ b.argv % WORD = 0
  BY DEF b
<1>6. r.sp \in Nat /\ r.sp <= USER_IMAGE_LIMIT
  BY <1>4
<1>7. Align(r.sp) \in Int /\ Align(r.sp) <= r.sp
  BY <1>6, Aligned
<1>8. n * WORD \in Nat
  BY <1>3
<1>9. ArgvAt(r.sp, n) < USER_IMAGE_LIMIT
  BY <1>6, <1>7, <1>8 DEF ArgvAt
<1>10. b.argv \in Window
  BY <1>1, <1>9 DEF Window
<1>11. b.argv % WORD = 0
  BY <1>1, <1>3, <1>6, ArgvAligned
<1> QED BY <1>10, <1>11

(* A file that loads has all its bytes inside the window.                  *)
LEMMA PlacedInside ==
  ASSUME NEW file, file.headers \in Headers, Loads(file), NEW k \in Loaded(file),
         NEW i \in 0 .. file.headers[k].memsz - 1
  PROVE  Place(file, k, i) \in Window
<1> DEFINE h == file.headers[k]
           p == Place(file, k, 0)
<1>1. /\ k \in 1 .. Len(file.headers) /\ h \in ProgramHeader /\ IsLoad(h)
      /\ Dest(file, h.vaddr) = p /\ p \in Int /\ p >= USER_IMAGE_BASE
      /\ \A j \in Nat : Place(file, k, j) = p + j
  BY Placed
<1>2. h \in Segments(file)
  BY <1>1 DEF Segments, Range, Loaded
<1>3. h.memsz \in Nat
  BY <1>1 DEF ProgramHeader
<1>4. p + h.memsz <= USER_IMAGE_LIMIT
  BY <1>1, <1>2 DEF Loads, Fits
<1>5. i \in Nat /\ i < h.memsz
  BY <1>3
<1> HIDE DEF h, p
<1>6. Place(file, k, i) = p + i
  BY <1>1, <1>5
<1>7. ASSUME NEW m \in Nat, i < m, p + m <= USER_IMAGE_LIMIT PROVE p + i \in Window
  BY <1>1, <1>5, <1>7 DEF Window
<1> QED BY <1>3, <1>4, <1>5, <1>6, <1>7, Zenon
=============================================================================
