----------------------------- MODULE MCStackCache -----------------------------
(***************************************************************************)
(* Blocks to compile: every bytecode alone; pairs of which the first       *)
(* leaves a value that the second takes, for the types whose entries the   *)
(* peephole optimizer merges; and load, operate, store in a row, where one *)
(* merge follows another.                                                  *)
(***************************************************************************)
EXTENDS StackCache

B(op) == [op |-> op, n |-> 0]

Single ==
    {"iconst_0", "iconst_n", "lconst_0", "lconst_1", "fconst_n", "dconst_1", "bipush", "ldc2_w",
     "iload", "lload", "istore", "astore", "lstore", "iinc", "getstatic", "putstatic", "getstatic2",
     "putstatic2", "iaload", "baload", "caload", "saload", "laload", "iastore", "bastore",
     "castore", "sastore", "aastore", "lastore", "pop", "pop2", "dup", "dup_x1", "dup_x2",
     "dup2", "dup2_x1", "dup2_x2", "swap", "iadd", "isub", "imul", "iand", "ior", "ixor",
     "idiv", "irem", "ladd", "lsub", "land", "lor", "lxor", "lmul", "ldiv", "lrem", "ineg",
     "lneg", "fneg", "dneg", "i2b", "i2c", "i2s", "ishl", "ishr", "iushr", "lshl", "lshr",
     "lushr", "fadd", "fmul", "fsub", "fdiv", "dadd", "dmul", "dsub", "ddiv", "frem", "drem",
     "i2l", "l2i", "i2f", "i2d", "l2f", "l2d", "f2d", "d2f", "f2i", "f2l", "d2i", "d2l",
     "lcmp", "fcmpl", "fcmpg", "dcmpl", "dcmpg", "ifeq", "iflt", "if_icmpeq", "if_icmplt",
     "goto", "jsr", "ret", "tableswitch", "lookupswitch", "return", "ireturn", "lreturn",
     "getfield", "getfield2", "putfield", "putfield2", "new", "new_quick", "newarray", "anewarray",
     "arraylength", "athrow", "checkcast", "instanceof", "monitorenter", "monitorexit",
     "ensureopen", "sqrt", "sin", "atan2", "floor", "abs_int", "abs_long", "abs_float",
     "abs_double", "invokestaticV", "invokestaticI", "invokestaticJ"}

\* With n words of arguments or dimensions.
Sized == {[op |-> o, n |-> k] :
            o \in {"invokespecialV", "invokespecialI", "invokespecialJ", "invokestaticJ",
                   "invokeignored_quick", "invokeignored_static_quick", "multianewarray"},
            k \in 1 .. 3}

FloatOut  == {"fload", "faload", "fadd", "fsub", "frem", "i2f", "l2f", "d2f", "fneg"}
FloatIn   == {"fstore", "fastore", "fadd", "fsub", "f2d", "f2i", "fcmpl", "freturn", "pop"}
DoubleOut == {"dload", "daload", "dadd", "dsub", "drem", "i2d", "l2d", "f2d", "dconst_1"}
DoubleIn  == {"dstore", "dastore", "dadd", "dsub", "d2f", "d2l", "dcmpg", "dreturn", "pop2"}
IntPairs  == {"iload", "iaload", "iadd", "dup", "i2l", "getfield", "arraylength", "invokestaticI"}
             \X {"istore", "ifeq", "iastore", "iload"}
LongPairs == {"getfield2", "invokestaticJ", "dadd", "daload"} \X {"dstore", "putfield2", "sqrt"}

Pairs ==
    {<<B(p[1]), B(p[2])>> : p \in (FloatOut \X FloatIn) \cup (DoubleOut \X DoubleIn)
                                  \cup IntPairs \cup LongPairs}
    \cup {<<B("istore"), [op |-> "iload", n |-> k]>> : k \in 0 .. 1}
    \cup {<<B("fstore"), [op |-> "fload", n |-> k]>> : k \in 0 .. 1}
    \cup {<<B("lstore"), [op |-> "lload", n |-> k]>> : k \in 0 .. 1}
    \cup {<<B("dstore"), B("dload")>>, <<B("ifeq"), B("astore")>>, <<B("goto"), B("astore")>>,
          <<B("athrow"), B("astore")>>}

Triples ==
    {<<B(t[1]), B(t[2]), B(t[3])>> :
        t \in ({"fload", "faload", "fmul"} \X {"fadd", "fmul"} \X {"fstore", "fastore", "f2d"})
              \cup ({"dload", "daload", "dmul"} \X {"dadd", "dmul"} \X {"dstore", "dastore", "d2f"})}

\* new C(): the reference is duplicated for the constructor.
Constructor == <<B("new"), B("dup"), [op |-> "invokespecialV", n |-> 1]>>

MCBlocks == {<<B(op)>> : op \in Single} \cup {<<b>> : b \in Sized} \cup Pairs \cup Triples
            \cup {Constructor}
=============================================================================
