------------------------------ MODULE Numbers ------------------------------
(***************************************************************************)
(* The operations of BigInt that a thread calls, on operands of N limbs;   *)
(* the loops that run until a remainder is zero take a step at a time.     *)
(***************************************************************************)
EXTENDS NumberTheory, Thread

CONSTANTS N,             \* the number of limbs
          LimbValues,        \* the limbs that bytes and squares are made of
          Magnitudes,    \* the magnitudes that operands take
          Moduli,        \* odd moduli, those the reducers are tried at
          Residues,      \* operands and exponents of modular operations
          Primes,        \* odd primes, the moduli of roots and norm equations
          Candidates     \* numbers tested for primality

ASSUME NumbersAssumption ==
    /\ N \in Nat /\ N >= 2 /\ N <= Base /\ LimbValues \subseteq Word
    /\ Magnitudes \cup Moduli \cup Residues \cup Primes \cup Candidates \subseteq 0 .. Weight(N) - 1
    /\ \A m \in Moduli \cup Primes : m % 2 = 1 /\ m > 1

Signed == Magnitudes \cup {- m : m \in Magnitudes}

\* The operands of the pending call.
X == BigOf(call.x, N)
Y == BigOf(call.y, N)

\* The sum, the difference and the order, on both paths.
AddSub ==
    /\ Pending("add")
    /\ Return([ct |-> ct_add(X, Y), vt |-> vt_add(X, Y), ct_diff |-> ct_sub(X, Y),
               vt_diff |-> vt_sub(X, Y), order |-> cmp(X, Y), same |-> ct_eq(X, Y)])

\* Every kernel that multiplies.
Multiply ==
    /\ Pending("mul")
    /\ Return([signed |-> {ct_mul(X, Y), vt_mul(X, Y)},
               limbs |-> {mag_mul(X.limbs, Y.limbs), mag_mul_comba(X.limbs, Y.limbs),
                          mag_mul_4_adx(X.limbs, Y.limbs)}])

\* Squares of four limbs, the width that has a kernel of its own.
Square ==
    /\ Pending("square")
    /\ Return({mag_sqr(call.a), mag_sqr_4_adx(call.a), mag_mul(call.a, call.a)})

\* A sum of three terms, whose partial sums may pass the width.
MacSum == Pending("mac") /\ Return(mac_sum(<<X, Y, BigOf(call.z, N)>>, N))

Shift ==
    /\ Pending("shift")
    /\ Return([left |-> shl(X, call.s), right |-> shr(X, call.s),
               bits |-> mag_bitsize(X.limbs), zeros |-> mag_trailing_zeros(X.limbs)])

Resize == Pending("resize") /\ Return(narrow_to(X, call.n))
Decode == Pending("decode") /\ Return(from_bytes_le_signed(call.bytes, N))
Divide ==
    /\ Pending("div")
    /\ LET qr == vt_div_rem(X, Y)
       IN  Return([q |-> qr.q, r |-> qr.r, bitwise |-> mag_div_rem_bitwise(X.limbs, Y.limbs)])

-----------------------------------------------------------------------------
(* The greatest common divisors *)

HasZero == call.x = 0 \/ call.y = 0

\* A zero operand is settled at once.
GcdOfZero == Pending("xgcd") /\ HasZero /\ Return(XgcdOfZero(X, Y))

Stein == Pending("stein") /\ GoOn(SteinStart(X.limbs, Y.limbs))
Lehmer == Pending("lehmer") /\ GoOn(Ordered(X.limbs, Y.limbs))
Xgcd == Pending("xgcd") /\ ~HasZero /\ GoOn(XgcdStart(X, Y))

SteinLoop ==
    /\ Running("stein")
    /\ IF mag_is_zero(loop.b) THEN Return(Big(0, mag_shl(loop.a, loop.shift))) ELSE GoOn(SteinStep(loop))

LehmerLoop ==
    /\ Running("lehmer")
    /\ IF mag_is_zero(loop.b) THEN Return(Big(0, loop.a)) ELSE GoOn(LehmerStep(loop))

XgcdLoop ==
    /\ Running("xgcd")
    /\ IF mag_is_zero(loop.b.limbs)
       THEN LET gxy == XgcdEnd(X, Y, loop)
            IN  Return([g |-> gxy.g, x |-> gxy.x, y |-> gxy.y, inverse |-> invert_mod(gxy, Y)])
       ELSE GoOn(XgcdStep(loop))

-----------------------------------------------------------------------------
(* Modular arithmetic, roots, primes and samples *)

MontMul ==
    LET ctx == Reducer(BigOf(call.m, N))
        x == X
        y == Y
    IN  /\ Pending("mont")
        /\ Return([product |-> mul_mod(ctx, x, y), raw |-> mont_mul(ctx, x.limbs, y.limbs)])

MontSquare ==
    LET ctx == Reducer(BigOf(call.m, N))
        a == X.limbs
        wide == square_wide(a)
    IN  /\ Pending("mont_square")
        /\ Return([limbs |-> mont_square(ctx, a), lost |-> RedcWindows(ctx, wide).lost])

Newton == Pending("newton") /\ Return(neg_inv_mod_2_64(call.u))

PowMod ==
    /\ Pending("pow")
    /\ Return(pow_mod_w(BigOf(call.x, N - 1), BigOf(call.e, N - 1), BigOf(call.m, N - 1), N))

Roots ==
    /\ Pending("root")
    /\ LET x == BigOf(call.x, N - 1)
           m == BigOf(call.m, N - 1)
       IN  Return([root |-> modular_sqrt_w(x, m, N), symbol |-> legendre_w(x, m, N)])

Cornacchia == Pending("cornacchia") /\ Return(cornacchia_auto(X, BigOf(call.m, N), N))
SqrtPow == Pending("sqrt") /\ Return([root |-> sqrt_floor(X), power |-> pow(X, call.e)])
Primality == Pending("prime") /\ Return(is_probable_prime_auto(X, Len(Witnesses), N))
Sample == Pending("sample") /\ Return(rand_interval(X, Y))

-----------------------------------------------------------------------------
\* The calls a thread may make.
Pairs(op, A, B) == [op : {op}, x : A, y : B]
IntegerCalls ==
    Pairs("add", Signed, Signed) \cup Pairs("mul", Signed, Signed) \cup Pairs("xgcd", Signed, Signed)
    \cup Pairs("div", Signed, Signed \ {0})
    \cup Pairs("stein", Magnitudes \ {0}, Magnitudes \ {0})
    \cup Pairs("lehmer", Magnitudes \ {0}, Magnitudes \ {0})
    \cup [op : {"square"}, a : [0 .. 3 -> LimbValues]]
    \cup [op : {"mac"}, x : Residues, y : Signed, z : {- r : r \in Residues}]
    \cup [op : {"shift"}, x : Signed, s : 0 .. LimbBits * N]
    \cup [op : {"resize"}, x : Signed, n : 1 .. N]
    \cup [op : {"decode"}, bytes : [1 .. N - 1 -> LimbValues] \cup [1 .. N -> LimbValues]]

\* An even modulus needs a width of twice its bits; limbs of 64 bits have an
\* even number of them, and the square of no tried root leaves the width.
ModularCalls ==
    {c \in [op : {"mont"}, x : Residues, y : Residues, m : Moduli] : c.x < c.m /\ c.y < c.m}
    \cup {c \in [op : {"mont_square"}, x : Residues \cup Magnitudes, m : Moduli] : c.x < c.m}
    \cup [op : {"newton"}, u : {2 * k + 1 : k \in 0 .. 127}]
    \cup {c \in [op : {"pow"}, x : Residues, e : Residues, m : Residues] :
             c.m > 1 /\ c.x < c.m /\ (c.m % 2 = 0 => c.m * c.m <= Weight(N))}
    \cup [op : {"root"}, x : Residues, m : Primes]
    \cup {c \in [op : {"cornacchia"}, x : Residues, m : Primes \cup {2}] : c.x <= c.m}
    \cup {c \in [op : {"sqrt"}, x : Magnitudes, e : 0 .. 5] : c.x < 4^((LimbBits * N) \div 2)}
    \cup [op : {"prime"}, x : Candidates]
    \cup {c \in Pairs("sample", Residues \cup {-5, -1}, Residues) : c.x <= c.y}

Loops == SteinLoop \/ LehmerLoop \/ XgcdLoop

NumbersStep ==
    \/ AddSub \/ Multiply \/ Square \/ MacSum \/ Shift \/ Resize \/ Decode \/ Divide
    \/ GcdOfZero \/ Stein \/ Lehmer \/ Xgcd \/ Loops
    \/ MontMul \/ MontSquare \/ Newton \/ PowMod \/ Roots \/ Cornacchia \/ SqrtPow
    \/ Primality \/ Sample

NumberCalls == IntegerCalls \cup ModularCalls

\* The thread that calls nothing else.
NumbersSpec == ThreadInit /\ [][CallOne(NumberCalls) \/ NumbersStep \/ Take]_threadVars

-----------------------------------------------------------------------------
(* What the operations promise *)

Capacity == Weight(N)
Fits(v) == v < Capacity /\ v > - Capacity
Magnitude(v) == IF v < 0 THEN -v ELSE v

\* A result is canonical and equals v, cut to the width if v does not fit.
Equals(r, v) ==
    /\ Value(r.limbs) = Magnitude(v) % Capacity
    /\ r.sign = IF v < 0 /\ Value(r.limbs) # 0 THEN 1 ELSE 0

\* Sums are exact, on the short path and on the full one, and only what
\* passes the width is lost: of a sum of three, nothing but the last total.
SumsExact ==
    /\ Is("add") =>
         /\ Equals(Res.ct, call.x + call.y) /\ Res.vt = Res.ct
         /\ Equals(Res.ct_diff, call.x - call.y) /\ Res.vt_diff = Res.ct_diff
         /\ Res.same = (call.x = call.y)
         /\ Res.order = IF call.x > call.y THEN 1 ELSE IF call.x = call.y THEN 0 ELSE -1
    /\ Is("mac") => Equals(Res, call.x + call.y + call.z)

\* The kernels agree, the ADX and column ones included, with the product cut
\* to the width.
ProductsExact ==
    /\ Is("mul") => /\ \A r \in Res.signed : Equals(r, call.x * call.y)
                    /\ \A l \in Res.limbs : Value(l) = Magnitude(call.x * call.y) % Capacity
    /\ Is("square") => \A l \in Res : Value(l) = (Value(call.a) * Value(call.a)) % Weight(4)

\* Shifts by whole limbs, by none and by the width and more; bit lengths; the
\* narrowing that must refuse what it cannot hold; two's complement.
BitsExact ==
    /\ Is("shift") =>
         /\ Value(Res.left.limbs) = (Magnitude(call.x) * 2^call.s) % Capacity
         /\ Equals(Res.right, IF call.x < 0 THEN - (Magnitude(call.x) \div 2^call.s) ELSE call.x \div 2^call.s)
         /\ Magnitude(call.x) < 2^Res.bits
         /\ call.x # 0 => /\ Magnitude(call.x) >= 2^(Res.bits - 1)
                          /\ call.x % 2^Res.zeros = 0 /\ (call.x \div 2^Res.zeros) % 2 = 1
    /\ Is("resize") => IF Magnitude(call.x) < Weight(call.n) THEN IntOf(Res) = call.x
                       ELSE Res = NoBig
    /\ Is("decode") =>
         LET n == Len(call.bytes)
             v == Value([i \in 0 .. n - 1 |-> call.bytes[i + 1]])
         IN  IntOf(Res) = IF v >= Weight(n) \div 2 THEN v - Weight(n) ELSE v

\* Quotient and remainder of Euclid's division, whatever the signs: the
\* estimated digits are corrected in every case.
DivisionExact ==
    Is("div") =>
        /\ IntOf(Res.q) * call.y + IntOf(Res.r) = call.x
        /\ IntOf(Res.r) \in 0 .. Magnitude(call.y) - 1
        /\ Res.q = Canonical(Res.q.sign, Res.q.limbs)
        /\ Value(Res.bitwise.q) = Magnitude(call.x) \div Magnitude(call.y)
        /\ Value(Res.bitwise.r) = Magnitude(call.x) % Magnitude(call.y)

\* The carries, borrows, lengths and estimated digits of multi-limb
\* integers, on every path.
IntegersExact == SumsExact /\ ProductsExact /\ BitsExact /\ DivisionExact

\* Euclid's algorithm, the reference.
Gcd[p \in Nat \X Nat] == IF p[2] = 0 THEN p[1] ELSE Gcd[<<p[2], p[1] % p[2]>>]

\* What the loops keep: the common divisors of the operands, and for xgcd
\* the rows that express its registers by them, whatever the width chosen.
GcdKept ==
    /\ Running("stein") => Gcd[<<Value(loop.a), Value(loop.b)>>] * 2^loop.shift = Gcd[<<call.x, call.y>>]
    /\ Running("lehmer") => Gcd[<<Value(loop.a), Value(loop.b)>>] = Gcd[<<call.x, call.y>>]
    /\ Running("xgcd") =>
         LET x == Magnitude(call.x)
             y == Magnitude(call.y)
         IN  /\ IntOf(loop.a) = IntOf(loop.x_a) * x + IntOf(loop.y_a) * y
             /\ IntOf(loop.b) = IntOf(loop.x_b) * x + IntOf(loop.y_b) * y
    /\ Is("stein") \/ Is("lehmer") => IntOf(Res) = Gcd[<<call.x, call.y>>]
    /\ Is("xgcd") =>
         /\ IntOf(Res.g) = Gcd[<<Magnitude(call.x), Magnitude(call.y)>>]
         /\ IntOf(Res.x) * call.x + IntOf(Res.y) * call.y = IntOf(Res.g)
         /\ ~HasZero /\ IntOf(Res.g) = 1 =>
              LET m == Magnitude(call.y)
              IN  IntOf(Res.inverse) \in 0 .. m - 1 /\ (IntOf(Res.inverse) * (call.x % m) - 1) % m = 0

-----------------------------------------------------------------------------
PowerMod(x, e, m) ==
    LET p[i \in 0 .. e] == IF i = 0 THEN 1 % m ELSE (x * p[i - 1]) % m IN p[e]

\* Montgomery products, powers by windows and by bits, and the constant of
\* the reducer: the residue that they are named for, in 0 .. m - 1.
ModularExact ==
    /\ Is("mont") => /\ IntOf(Res.product) = (call.x * call.y) % call.m
                     /\ (Value(Res.raw) * (Capacity % call.m)) % call.m = (call.x * call.y) % call.m
                     /\ Value(Res.raw) < call.m
    /\ Is("newton") => (call.u * Res) % 2^NewtonBits = 2^NewtonBits - 1
    /\ Is("pow") => IntOf(Res) = PowerMod(call.x, call.e, call.m)
    /\ Is("mont_square") /\ ~Res.lost =>
         (Value(Res.limbs) * (Capacity % call.m)) % call.m = (call.x * call.x) % call.m

\* MontReducer::square is a * a / R mod n for every a below n.
MontSquareExact ==
    Is("mont_square") =>
        (Value(Res.limbs) * (Capacity % call.m)) % call.m = (call.x * call.x) % call.m

IsSquare(x, p) == \E r \in 0 .. p - 1 : (r * r) % p = x % p
Prime(x) == x > 1 /\ \A d \in 2 .. x - 1 : x % d # 0
Norm(q, s) == IntOf(s[1]) * IntOf(s[1]) + q * IntOf(s[2]) * IntOf(s[2])

\* A root is returned exactly when there is one; a norm equation is solved
\* exactly when it has a solution, 0 + 2 * 1 = 2 aside; the floors, the verdicts of the primality
\* test and the range of the sampler are right.
RootsExact ==
    /\ Is("root") =>
         /\ IF IsSquare(call.x, call.m)
            THEN (IntOf(Res.root) * IntOf(Res.root)) % call.m = call.x % call.m
            ELSE Res.root = NoBig
         /\ Res.symbol = IF call.x % call.m = 0 THEN 0 ELSE IF IsSquare(call.x, call.m) THEN 1 ELSE -1
    /\ Is("cornacchia") =>
         IF \E x, y \in 0 .. call.m : x * x + call.x * y * y = call.m /\ <<call.x, call.m>> # <<2, 2>>
         THEN Res # NoSolution /\ Norm(call.x, Res) = call.m
         ELSE Res = NoSolution
    /\ Is("sqrt") =>
         LET r == IntOf(Res.root)
         IN  /\ r * r <= call.x /\ (r + 1) * (r + 1) > call.x
             /\ Value(Res.power.limbs) = PowerMod(call.x, call.e, Capacity)
    /\ Is("prime") => Res = Prime(call.x)
    /\ Is("sample") => {IntOf(r) : r \in Res} = call.x .. call.y

\* The arithmetic modulo a number, from the Montgomery product to roots,
\* norm equations and primes.
ResiduesExact == ModularExact /\ RootsExact
=============================================================================
