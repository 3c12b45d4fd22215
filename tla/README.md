# SteinLang in TLA+

SteinLang is a small imperative language with first-class functions. Its
interpreter reads a program, turns the parse tree into protocol-buffer messages
and evaluates them step by step: each step takes one computation off a stack,
and either replaces it by smaller ones or applies it to results that earlier
steps left on a second stack. The repository also holds what the interpreter is
made of: a tokenizer, a generic parser, a tool that makes a parser from a grammar,
the pools its messages are allocated from, a sequence difference and a tagged union.
This directory models them, model-checks them with TLC, and proves with TLAPS
what matters most about four of them.

## 1. Inventory

| Component | Source | State | Operations |
|---|---|---|---|
| evaluator | `lang/steinlang/language_evaluation.{h,cc}` | `EvalContext`: program, store, output, current local context (computations, results, environment), suspended contexts | `Step` (one handler per kind of computation), `Lookup`, `Assign`, `HasComputation`, `consume_output` |
| literal operators | `literal_ops.{h,cc}` | none | `Neg`, `BoolNot`, arithmetic, comparison, `BoolAnd`, `BoolOr` |
| syntax | `steinlang_syntax.proto` | messages of programs and of evaluation | none |
| memory | `memory.{h,cc}` | arena, one pool per pooled message type, static `allocated_size_` | `Allocate`, `WrapPoolPtr`, `PoolPtr` moves and destruction, `Reset`, deep `Copy` |
| interpreter | `interpreter_main.cc` | evaluation context on the arena | `InitCtx`, the loop `evaluate`, `main` |
| language parser | `steinlang_parser.{h,cc}`, `steinlang_def.cfg.txt` | none | tokenizer rules, grammar tables, `ToSyntax`, `ToProgram` |
| generic parser | `lang/recursive_descent_parser.h`, `parse_tree_util.h` | token position | terminals, alternatives, sequences, repetitions, options |
| tokenizer | `lang/tokenizer.h` | position in the text | first matching rule, text to ignore |
| grammar tool | `lang/cfg_parser*` | none | parse a grammar definition, build a tokenizer and a parser from it, parse an input with them |
| cfgtl | `lang/cfgtl/`, `util/variant.h` | none | template combinators, unused and unfinished, and the variant they hold |
| sequence difference | `util/diff.h`, `diff_tool.cc` | memo table, kept from one comparison to the next | `Diff`, the listing |
| one-of | `util/one_of.h` | the union, its tag, two destroyers | construction, assignment, copy, move, destruction, `get` |
| source annotation | `source_util.*`, `pgm_diff_tool.cc` | none | number the nodes of a program |
| strings, files | `util/strings.h`, `file_io.h` | none | escape, unescape, read |

How they interact: `main` reads a program, the tokenizer and the parser make a
parse tree, `ToProgram` a `Program` message, `InitCtx` schedules its statements
in reverse on the current context, and the loop `evaluate` calls
`Evaluator::Step` and then `consume_output` until `HasComputation` is false.
Every message the evaluator touches is allocated by `PoolingArenaAllocator`;
objects move between the pools, `PoolPtr`s on the C++ stack and the context, and
now and then `Step` copies the context out, resets the arena and copies it back.
The grammar tool runs the same tokenizer and generic parser twice: once with
tables written in C++, on a definition, and once with the tables it made from it.
There is one thread; nothing is persisted and nothing is sent.

What makes this hard is not concurrency but protocol: a handler finishes work
another handler started many steps before, on operands it takes from a stack
without looking, in a context that may meanwhile have been suspended and
resumed; the objects it holds pointers to come from pools that hand them out again,
on an arena that is reset under them. Per component, what makes it correct:

- evaluator: addresses stay in the store; names never share a cell; contexts
  form a function stack; the stacks are balanced for every disciplined
  program; the steps add up to the meaning of the program; bounded programs end;
- literal operators: closed over the values; which divisions trap;
- interpreter: calls `Step` exactly as long as there is something to do, loses
  no output line;
- memory: an object has one owner, a reset leaves no pointer behind, and pooling
  is invisible: the context has the values it would have without it;
- parsers: no character is lost, a failed alternative gives back its tokens, the
  tree is what the grammar says, the conversion covers each alternative of the grammar;
- grammar tool: what is generated is what was written, and reading always ends;
- difference: the script leads from one sequence to the other and is shortest, pointers
  into the table stay good;
- one-of: what is alive is destroyed once, by the right destructor.

The hazards of the code, each at its line, are listed in `PROJECT.json`.

## 2. Modules

| Module | Models |
|---|---|
| `LiteralOps` | values (`Literal`) and the operators on them |
| `SteinSyntax` | the abstract syntax as tables of nodes: `Exps`, `Stmts`, `Programs` |
| `Evaluator` | the evaluator on plain values: one action per handler of `Step`, one per undefined behaviour, `ConsumeOutput` |
| `CallStack` | abstract specification: what a step, a call and a return may touch |
| `Interpreter` | the loop of the interpreter around the evaluator, with its own program counter |
| `BigStep` | reference definition of the meaning of a program, by recursion over its syntax |
| `Discipline` | which programs keep the two stacks balanced |
| `Memory` | messages, pools, `PoolPtr`s, deep copies, the arena and its reset, under the statements of a client |
| `PooledEvaluator` | the evaluator again, every handler as the statements it executes on pooled messages |
| `Claims` | what the comment on tuples says, which the code does not fulfil |
| `Pgms` | the syntax nodes the runs are made of; an id is the program text |
| `MCEvaluator`, `MCInterpreter`, `MCDiscipline`, `MCClaims`, `MCPooledEvaluator` | instances for TLC |
| `Patterns` | external: what the regular expressions of the repository match |
| `Tokenizer` | the tokenizer: its two loops, step by step |
| `GrammarTerms` | terms, cardinalities and expressions of rules |
| `RecursiveDescent` | the generic parser: its functions as frames of a stack, one action per call and return |
| `Grammars` | reference: what a grammar derives, which trees are derivations |
| `SteinParser` | the language: rules, grammar tables, `ToSyntax`, `ToProgram`, and the part of `interpreter_main.cc` that calls them |
| `CfgTool` | the grammar tool: the grammar of grammars, the conversion of a definition, the generated tokenizer and parser, `main` |
| `MCGrammars`, `MCParser`, `MCCfgTool` | instances for TLC |
| `SequenceDiffer` | the memoised edit distance, its table, the script and its listing |
| `MCSequenceDiffer` | the pairs of words, for TLC |
| `OneOf` | the union, its tag and its destroyers, with copies that may throw |
| `TaggedValue` | abstract specification: a value of one of two types |
| `SeqLemmas` | lemmas on sequences and ranks of indices |
| `EvaluatorProofs` | the types of `Evaluator` |
| `StoreProofs` | theorems about the cells of the evaluator's store, and about the loop of the interpreter |
| `DisciplineProofs` | theorems about `Discipline` |
| `MemoryProofs` | theorems about the allocator under `PooledEvaluator`, and about the statements the evaluator gives it |
| `ParserProofs` | the theorem about `RecursiveDescent`, with the rules of a derivation |
| `DifferProofs` | theorems about `SequenceDiffer` |
| `OneOfProofs` | theorems about `OneOf` |

`Interpreter` composes with `Evaluator` (it extends it, and `Step` is a part of
its own step); `Evaluator` instantiates `CallStack` with a refinement mapping;
`Discipline` and `Claims` extend `Evaluator`. `PooledEvaluator` extends `Memory`, and
`MCPooledEvaluator` instantiates `Evaluator` to say what the messages stand for.
`Grammars` extends `RecursiveDescent`; `SteinParser` and `CfgTool` instantiate
the tokenizer and the parser with their rules. `OneOf` instantiates `TaggedValue`.

### `Evaluator`

| Variable | Field |
|---|---|
| `pgm`, `store`, `output` | of `EvalContext` |
| `comp`, `result`, `env` | of `EvalContext.cur_ctx` |
| `saved_ctx` | `EvalContext.saved_ctx`, innermost caller last |
| `fault` | none of the code's: the undefined behaviour reached |

An action is named after the message it evaluates; its guard `Scheduled...` is
the switch of `Step` and the nested ones over expressions and statements. The
stacks are sequences with the top last, as the repeated fields are. `Unfold`,
`Yield` and `Reduce` are the three shapes of a handler: replace the computation
by others, push a result, replace results by one.

Abstractions:

- A syntax tree is a set of nodes with ids. The code moves nodes out of the
  tree it evaluates; it copies where a node is needed again (the body of a
  `while`, a closure in the store), so a node can be named by its id. That the moves
  and copies come to this is what `pooled_resets` checks.
- Closures carry the parameters and the body of the lambda they come from.
- Strings are ranks in the lexicographic order: the language only compares them.
- Floats are left out, and so is the literal `Tuple`: `TupleExpFinal` never
  leaves one where anything could read it.
- `int64` is `-IntMax-1 .. IntMax`; overflow, undefined in C++, wraps as the
  instructions of the build do.
- Undefined behaviour (`PopResultOrDie` on an empty field, `closure->param(i)`
  or `mutable_store(i)` out of range, SIGFPE) ends the behaviour in a state
  whose `fault` names it. The rest of the model says nothing of what follows.
- The parameters of a call are assigned one after the other in the code;
  `CallEnv` and `CallStore` give the outcome of the whole loop, and `BigStep` and
  `PooledEvaluator` do it one parameter at a time.
- The reset at the head of `Step` changes no value: `pooled_resets` shows it.
- Tuple expressions and statements of no type cannot be written in a program
  text. They are in the model because a `Program` message may hold them, and
  the operators on unset oneofs are handlers of the code.

### `Memory` and `PooledEvaluator`

An object is a place, positive on the arena and negative on the C++ heap; the arena
counts objects, not bytes. A message has a type, scalars (`val`) and the messages
its fields point to (`kids`). `code` is what is left of the C++ statements of the
call in progress: each action executes one statement, so every state between two
statements is visible, and a temporary that is destroyed at the end of a full
expression is a statement too. The statements are those of `memory.h` (wrap, move,
assign, destroy, add allocated, release last, unsafe release, swap, copy, reset), of
protobuf on an arena as `src/` uses it (external) and of the evaluator itself where
what follows depends on what is found. A handler whose operands have no pool
leaks them to the arena; a reset is what takes them back.

### The parsers

`RecursiveDescent` makes the recursion of the parsing functions an explicit
stack, `calls`. Only a term calls again, and only a variable or a group has
alternatives, so a frame is an activation of `ParseAlternatives`, with the loops of
`ParseExpressions` and `ParseExpression` as fields (`alt`/`best`,
`nth`/`done`, `round`/`cur`: the index of each loop and the result so far). An
action is a case of `ParseTerm` or a return; `Receive` is what the caller does
with a result up to its next term. The rules and the tokens are variables too, so
that one run covers many grammars.

`Tokenizer` has the two loops of `operator()`: skip what is to be ignored, take
the first rule that matches, stop where none does. The text is a string of
characters. `Patterns` says what a `std::regex` matches, for the operators that
occur in the rules of the repository and in definitions of the runs: repetitions are
greedy and go back.

`SteinParser` has the state of `Evaluate()` up to the call of `InitCtx`: the text, the
tokens, the parser's stack, the `ParseResult`, the program, and where it is
(`stage`). `ToSyntax<T>` is one operator per `T`. A parse tree node is a record
with the tag, the children and, for a terminal, the token. What `std::stoll`,
`std::stof` and `Unescape` make of a text is the constant `ReadAs`. Programs are the
messages themselves here, in the shape `Pgms` gives to one node; the evaluator's
runs take their programs from `Pgms` directly.

`CfgTool` is `main` of `cfg_parser_main.cc` with the whole of `cfg_parser.cc`: the
definition is read by the tables written in C++, converted to rules, the terminals
become the rules of a tokenizer in the order in which they are met, and the
generated pair reads standard input. `Unescape` and `EscapeForRegex` of `strings.h` are
modelled by what their loops do to each character.

### `SequenceDiffer`

A subproblem is how much is left of the two sequences. A frame has the key, which
modification is tried next (`at`) and the best result so far. A pointer to a
`ModSeqResult` is the key of its table entry. The object is used again and again, as the
class allows: `Diff` clears the table.

### `OneOf`

Each object has a tag, the member that is alive and the destroyers that have a
pointer (`armed`); an operation is one action per way it ends, normally or by an
exception of a copy. The two types are treated alike, so each operation is
parameterised by the type. An assignment that throws while it changes the type leaves a tag
whose member is destroyed. Assigning a value of the tag's type to such an object, copying it
and moving from it are undefined behaviour: `UseDestroyed` ends the behaviour with a `fault`,
as in the evaluator, and the other actions ask that the member is alive.

`TaggedValue` is what the user of the class sees: a value of one of two types, which an
exception may take away while the tag stays (`Lose`). What is left takes a value of the other
type or ends (`Give`, `End`); anything else is `Misuse`, after which nothing is promised. That
`OneOf` implements it says that objects behave as values up to such a use, and that an
exception is the only way to it. It does not say that exceptions are harmless.

## 3. Runs

| Run | What it shows |
|---|---|
| `evaluator_any` | for every program of one or two statements of the pool, ill-formed ones included: `TypeOK`, `NoAliasing`, and that the evaluator implements `CallStack` |
| `interpreter_ending` | for programs that end: the interpreter prints and leaves what `BigStep`, which has its own definition of the operators, says (`MatchesReference`: what is on standard output at the end, the last line included), it ends (`Termination`), and it is a host as `Evaluator` assumes (`ImplementsEvaluator`) |
| `discipline` | for programs that follow the discipline: the only underflow left is a call of something that is not a function, a return finds its caller, a program that ends has used up both stacks; `ContextsBalanced` is the balance of the stacks behind these |
| `pooled_resets` | every handler, statement by statement, with a reset never, now and then and at every step: pointers point to objects that exist (`PointersValid`), an object is owned once (`OneOwner`), the pools are used as they must be (`Contract`), no owned object is forgotten (`NothingForgotten`), and from call to call the context is that of `Evaluator` (`ImplementsEvaluator`) |
| `claim_tuple` | not all elements of a tuple are popped |
| `grammars_any` | 2 964 small grammars, every input of up to four tokens: what the generic parser accepts is a derivation of the whole input, with no token lost or doubled |
| `parser_texts` | texts of programs with every construct in every place of another, and texts with one lexeme dropped, added or replaced, from the characters to the messages: no character is lost (`NothingIsLost`), what is written is what is read (`WrittenIsRead`; the phrases carry their meaning and do not use the parser's tables), a text is accepted exactly when the grammar derives its tokens (`AcceptsTheLanguage`), and every node has a case in `ToSyntax` except the `if` without `else` (`EveryNodeIsConverted`) |
| `claim_if` | an `if` without `else`, legal by the grammar, becomes an assignment without operands |
| `claim_ne` | the operator `!=` of the grammar is never read: the rule for `!` comes first |
| `cfg_tool` | the tool run twice, first with the repository's grammar of grammars, whose parser is given a definition to read, then with that definition: what is generated is what is written (`DefinedAsWritten`), the two parsers agree on every definition without a comment, the grammar of grammars itself included, and one with a comment is read by the built-in parser only (`OnlyCommentsAreUndefined`), what a generated parser accepts is a derivation (`AcceptsDerivations`), reading ends (`ReadingEnds`) |
| `differ_words` | every pair of words, one after another with the same object: types and bounds, the equations of the edit distance throughout (`CacheIsOptimal`), the script is a path (`ScriptIsAPath`) and no longer than any set of elements left unchanged would allow (`ScriptIsShortest`), the listing shows both files (`ListingShowsBoth`), entries never change (`EntriesAreStable`), every comparison ends (`Terminates`) |
| `one_of` | three objects in every order of operations and exceptions: the destroyers match what is alive (`DestroyersMatch`), the tag says its type (`TagMatches`), and the objects are tagged values until one whose value an exception took is used (`ImplementsTaggedValue`) |

The `claim_` runs expect a violation; each is a finding with the quoted text. Four more
disagreements were met and have no run of their own: `lang/data/grammar_def.cfg.txt` is not
"the full syntax recognized by the context-free grammar parser" (`README.md:56`), since
`cfg_parser.cc:34` skips comments, which the file does not have and `lang/data/python.cfg.txt` uses
(`OnlyCommentsAreUndefined` states and checks this difference); popping the tail returns is no "tail recursion
optimization" (`language_evaluation.cc:435-436`), since a caller that has only its return
left is suspended all the same; the final `return None` that is to "ensure the body always
returns" (`steinlang_parser.cc:242`) is commented out; and `TupleExpFinal` writes to a `Result`
that is back in its pool, where only the `Clear()` at the next use saves it.

**Bounds.** `IntMax = 7`, so that `7 + 1` wraps, `-8 / -1` traps and the
factorials and sums of the pool stay apart. The pool has every kind of node,
a closure that captures a variable and changes it, a closure that returns a
closure, parameters that shadow, repeat and collide with captured names, calls
with too many arguments and of values that are not functions, loops, recursion.
Two statements are a definition and a use; three (in `interpreter_ending`) put a
value in `x` first, and one alone runs on an empty store. Recursions that do not end are cut at `MaxDepth = 4`
suspended contexts by a state constraint: a fifth behaves like the fourth, since a
handler sees at most the innermost suspended context. Runs with the constraint check no
liveness.

`pooled_resets` takes sixteen small programs which between them execute every handler,
and the limits 0 (a reset at every step), 40 objects (now and then) and one never
reached. A pool has no bound, and a program of two statements returns and hands out
again objects of every pooled type.

The grammars of `grammars_any` have a root with one or two alternatives of up to
two expressions, every cardinality, a group and a second variable that may be
recursive, empty or without a rule; four tokens are more than any alternative consumes
without repetition. What must occur twice is a terminal: a term that may be empty is taken
once by the code, whatever its minimum, and no grammar of the repository asks for more.

The edits of `parser_texts` are those of one-statement programs of up to `MaxEdited` = 5
lexemes and of some longer ones, with lexemes that begin, separate or end something in the grammar. No
opening parenthesis is added: on an error inside nested parentheses the code parses
again from the start, four times per level. The definitions of `cfg_tool` have every
repetition of a terminal, of a group and of an option, every separator, escaped and
quoted characters, a backslash before the closing quote, comments between any two lexemes of a
definition, rules with the same name and without a definition, and near misses;
the inputs are eight, among them the empty one and characters no rule matches.

Words of up to four letters over two values have every pattern of equal and different
letters that an entry, which looks one letter ahead, can see. Three objects of `OneOf` are one
more than any operation has.

**Deadlock** is not checked where the system ends (a program ends, a parser returns, undefined
behaviour is reached). It is
checked in `cfg_tool`, where a tool that has ended may stay as it is: there
every state with something to do has a step.

**Fairness.** The evaluator's `WF_vars(Step)` is the host's loop: it calls
`Step` while there is a computation. That is not taken on trust: `Interpreter`
assumes only that the one thread goes on (`WF` of its whole next-state
relation), and `ImplementsEvaluator` derives the other from it. In `pooled_resets`
too, the thread goes on, statement after statement, and it follows that resets, even at every step,
never keep the evaluation from going on. `SequenceDiffer` goes on while a
comparison is running, and need not start another; `cfg_tool` goes on while `main` has something
to do (`Tick` is any step of its work), and nobody has to run it.

**Mutants.** The operators `Mut_...` are the definitions after them with a
plausible bug. They are not part of the specifications; each shows that a
property of a run can fail.

## 4. Proofs

Nothing is assumed but what each paragraph says. The theorems about the evaluator hold for
every set of names, every syntax that satisfies `SyntaxAssumption`, and every `IntMax > 0`.

| Property | Theorem | Run |
|---|---|---|
| `Evaluator!TypeOK` | `EvaluatorProofs!TypeCorrect` | `evaluator_any` |
| `NoAliasing`, `ImplementsCallStack` | `StoreProofs!NeverAliased`, `CallsAreAStack` | `evaluator_any` |
| the safety part of `Interpreter!ImplementsEvaluator` | `StoreProofs!HostIsAHost`, `HostKeepsTheStore` | `interpreter_ending` |
| `NothingUnprinted` of the interpreter's loop | `StoreProofs!EverythingIsPrinted` | part of what `MatchesReference` of `interpreter_ending` says |
| `OnlyEmptyCallsUnderflow`, `ReturnsFindTheirCaller`, `HaltsClean`, `ContextsBalanced` | `DisciplineProofs!OperandsAreThere`, `CallersAreThere`, `HaltsHoldingNothing`, `StacksAreBalanced` | `discipline` |
| `Contract`, `PointersValid`, `OneOwner`, `NothingForgotten` | `MemoryProofs!ContractIsKept`, `PointersStayValid`, `NobodyShares`, `NothingIsForgotten` | `pooled_resets` |
| `SequenceDiffer!TypeOK`, `CacheIsOptimal`, `ScriptIsAPath`, `ScriptIsShortest`, `ListingShowsBoth`, `EntriesAreStable` | `DifferProofs!AlwaysTyped`, `AlwaysOptimal`, `AlwaysAPath`, `AlwaysShortest`, `ListingIsComplete`, `AlwaysStable` | `differ_words` |
| `DestroyersMatch`, `TagMatches`, `ImplementsTaggedValue` | `OneOfProofs!AlwaysMatching`, `TagIsTrue`, `Implements` | `one_of` |
| `SuccessIsDerived`, over any grammar | `ParserProofs!OnlyDerivationsSucceed` | `grammars_any` checks `SuccessIsAParse`, which reads the tree instead |

`TypeCorrect` (`EvaluatorProofs`): `Spec => []TypeOK`. `TypeOK`
is more than types: `Envs(n)`, `Closures(n)` and `Results(n)` bound the
addresses in every environment, captured environment and lvalue by the length of the
store, in live and suspended contexts. `Typed` is `TypeOK` with one conjunct per
variable and is inductive as it stands. The argument: what depends on the size of the store is
monotonic in it (`Growth`), so a step that extends the store leaves every suspended
context well typed; `Unfold`, `Yield` and `Reduce` each preserve `Typed` under a
condition on what they push; a call binds its parameters to fresh cells that
are consecutive from the end of the store, which needs the ranks of the appending
parameters (`Ranks`, `CallEnvType`, `CallStoreType`).

`NeverAliased` (`StoreProofs`): `Spec => []NoAliasing`. `NoAliasing` speaks of
the live and suspended environments and of the closures
in the store. It is not inductive: an assignment stores whatever closure
lies on the result stack, and a return brings back the stack of a suspended
context. `NothingShared` strengthens it by the closures on all result stacks, and
carries `Typed` along because freshness needs every address to be below the length of the
store. The steps that matter are a lookup of a new name, whose address is above
all the others, and a call, whose new addresses are above those of the
closure and, among each other, ordered by rank (`CallEnvInjective`).

`CallsAreAStack` (`StoreProofs`): `Spec => ImplementsCallStack`, the refinement
of `CallStack`, whose stack is the suspended contexts with the current one on top. The
invariant is `Typed`. Initial states map to initial states (`InitCalls`); a lookup,
an assignment and all handlers that touch no variable are local steps (`KeepsCells`,
`GainsCell`); a call is `Call`, where the point is that every cell it changes or adds is
bound to a parameter (`CallWritesParameters`: a cell beyond the old end of the store has
a rank, so some parameter appends it); `ReturnFromCtx` is `Return`; undefined
behaviour and the reading of output are stutters.

The interpreter's loop (`StoreProofs`): `HostIsAHost` shows that every behaviour of
`HostSpec` is one of `Init /\ [][Next]_vars`, so what is proved of the evaluator holds
under it (`HostKeepsTheStore`). `EverythingIsPrinted` is about the order of the loop: `consume_output`
follows each `Step` before `HasComputation` is asked again, so nothing is left in
`output` when the loop is left or the next step begins.

`DisciplineProofs`, for every program that follows the discipline (`DisciplineAssumption`:
a body returns on all its paths, no return stands outside a function, no child is unset).
The model's `ContextsBalanced` computes the heights of the result stack from the top of a
context's computations down; the inductive invariant `Disciplined` says instead that some
assignment of heights fits, `Balanced`, which a step extends at one end without touching the
rest. A context has an exit, the topmost computation that surely becomes a return, and
nothing is said of what lies below it: that is why a handler may leave results there. A
`func_app_exp_final` balances the caller for the value it will get (`+ 1` in
`SuspendedBalanced`), and the callee starts with an exit because its body has a statement
that returns. `AllStmts` and `OneExp` tell the two kinds of `if_else_final` apart, without which a
ternary could turn into a statement. A call without arguments of something that is not a
function has no balance to give: the context is `EmptyCall`, its one step is the underflow that
`OnlyEmptyCallsUnderflow` excepts. `StacksAreBalanced` then shows that heights that fit
are the ones that are computed (`BalancedComputed`).

`MemoryProofs`, for the messages of the language, every set of programs and every limit of the
arena. `Contract` is what `memory.h` asks of its users and does not check: that an operand is a
local that points to a message of its type, that a local that is assigned does not own anything,
that a `PoolPtr` is made and destroyed only for types with a pool and for messages on the arena,
that nothing is owned across a reset or the end of the block of `ctx_cpy`.

- `AllocatorIsSound` (`Spec => []Owned`) gives `PointersValid`, `OneOwner` and `NothingForgotten`.
  `Owned` adds to the first two what the places, fields and pools are (`MessagesTyped`,
  `PoolsTyped`) and states ownership over one kind of owner, so that a move from a pool to a
  variable, or from a variable to a message, is one lemma (`OneMoved`, `NoneAdded`) instead of
  the six conjuncts of `OneOwner`. There is a lemma per kind of statement; statements of the
  evaluator itself only look (`EvaluatorIsQuiet`). A reset copies nothing, so what survives it is
  on the heap or is the context just made, and with `held` empty and the pools emptied no pointer
  is left to the arena (`ResetArenaStep`). A swap permutes what messages hold (`Permuted`).
  `Owned` alone is not inductive: a step keeps it if its statement keeps the contract.
- `ContractIsKept` (`Spec => []Contract`) is about the statements still to be executed, so the
  invariant `Sound` must speak of them. `Facts` is what is known of the locals between two
  statements: which point to a message on the arena, which to one on the heap, which own what they
  point to, and which may. For every statement a rule says what it needs to be known and what is
  known after it (`Rule`); a list of statements leads from one knowledge to another if its
  statements do, one by one (`Leads`). `Sound` is `Owned`, that messages, their fields and the
  locals have their declared types and counts are numbers (`Typed`), and that what is known now
  leads through all of `code` to `Rest`, where only `ctx_` is known and nothing is owned (`Knows`).
  A statement that follows its rule keeps the contract (`RuleKeepsContract`); a statement of the
  memory leaves the knowledge its rule promises (`ExecuteKnows`), including a deep copy, which puts
  statements for its children in front of the rest and uses locals of its own for each level; and a
  handler is replaced by statements that lead to the same knowledge as the handler does
  (`Replaced`, one lemma per handler, `EvaluatorReplaces`). The handlers with loops need their
  knowledge per round (`LeadsLoop`): the arguments of a call that move up by one place
  (`EmplaceLeads`), cases that are reversed (`IfElseStmtLeads`), the syntax tree of a program
  that is built part by part (`BuildPartsLeads`). That `SyntaxAssumption` gives every part a field
  of its type is `ExpressionParts` and `StatementParts`.

`DifferProofs`, for all sequences over all values and every relation for `eq_`: `AlwaysTyped`,
`AlwaysOptimal`, `AlwaysAPath`, `AlwaysStable`, `AlwaysShortest`, `ListingIsComplete`. The inductive invariant `Inv` is `TypeOK`,
`CacheIsOptimal`, and two parts on what is under way: a frame's key is not yet in the
table, and its best result is optimal among the modifications it has tried (`Sound`,
`CallsSound`); while the list is being made, it leads from the beginning of both
sequences to the entry it has reached (`StageSound`). An entry, once made, satisfies the
equation forever because the table only grows during a comparison (`OptimalGrows`).
`AlwaysShortest` compares the script with every way to leave elements unchanged: a function
from positions of one sequence to equal elements of the other, in order (`Matchings`). That a table
which satisfies the equations has no entry longer than such a way needs an induction over
what is left of the two sequences. It is done by a smallest counterexample
(`EntriesAreShortest`; the order of the numbers is well founded): a matching that uses the first element of both
loses its pair, one that does not is a matching of a smaller subproblem (`BoundStep`). `Counted` adds
to `Inv` that the list being followed has the length that its entry promises.
`ListingIsComplete` says of the listing `diff_tool` prints that the lines it shows for a file are
all the lines of that file, in order. Which line stands at a place of the listing is a matter of how
many of that file's come before it (`LinesUpTo`), and a path advances that number by one exactly where
it shows a line (`LineOf`, `PathIsListed`).

`OneOfProofs`, for any number of objects and values: `AlwaysMatching`, `TagIsTrue` and `Implements`. `Inv` says
of each object that its destroyers match its member and the member its tag (`Sound`), and
that an object that is not constructed has no member. Every operation is
a sequence of `Disarmed`, `Emplace`, `Cleared` and `Overwrite` on one or two objects; each keeps `Sound`, and
`WhatIsShown` translates an object that satisfies it to the tagged value it stands for.
`WhatIsNeeded` shows that what an operation asks of an object in the code (its member is alive) is
what `TaggedValue` asks of the value, so the use of a destroyed member is `Misuse` and nothing
else is. `Implements` thus promises nothing after such a use, which is undefined behaviour.

`ParserProofs`, for every grammar and every sequence of tokens. What a term, rounds of an
expression, the first expressions of an alternative, and alternatives derive is given by
rules (`TermRules`, `ExpressionRules`, `AlternativeRules`); the constant `Derived` is any set
that is closed under them, so what the theorem finds in it is in the least such set.
`OnlyDerivationsSucceed`: `IsGrammar /\ Closed /\ ParseSpec => []SuccessIsDerived`. The
inductive invariant `Parsing` says of every activation on the stack what its three loops
have derived so far (`Sound`), and of two activations on each other that the upper one
is on the term the lower one waits for (`Awaits`). The delicate cases are an optional
term that fails, which must leave exactly the rounds before it (`OptionalEnds`); a mandatory
one that fails after it has taken tokens, after which the code goes on, and the failure must
stay (`OneMoreRound`); and the last expression of an alternative, on which `to_end` rests.
`IsGrammar` asks that alternatives are not empty and that `min <= max`, as in every
grammar of the repository and of `grammars_any`; with `max < min` the code would
take `max` rounds for enough. A term that takes no token is taken
once, whatever its minimum, and `ExpressionRules` says so.

Only model-checked:

- liveness (`Termination`, `Terminates`, `ReadingEnds`, the fairness parts of
  the two `ImplementsEvaluator`), which is out of the prover's reach;
- what is computed by recursion over data: `MatchesReference` (`BigStep` is a recursive
  operator), `SuccessIsAParse`, `AcceptsTheLanguage` and the other properties of `parser_texts` and
  `cfg_tool` (what a grammar derives, the conversion of trees, what a regular
  expression matches);
- that the pooled evaluator implements the plain one (`PooledEvaluator`'s `ImplementsEvaluator`):
  it needs, on top of `Sound`, the value of the tree behind each pointer of each of some fifty
  statement lists;
- that the tokenizer loses no character (`NothingIsLost`): `Patterns`, which it uses, is recursive.

## 5. Plan

1. (done) The evaluator, its literals and syntax, the interpreter's loop, the
   abstract call stack, the reference semantics, the discipline. The generic parser
   against what a grammar derives, the language's grammar and its conversion.
2. (done) `Memory` and the evaluator on it; the tokenizer and the language from its
   text; the grammar tool; the sequence difference; the one-of type.
3. (done) The types, the store and the call stack of the evaluator; the difference; the
   one-of type.
4. (done) The balance of the stacks (`DisciplineProofs`), the ownership of messages
   (`MemoryProofs`), the shortest script (`AlwaysShortest`), the soundness of the generic parser
   (`ParserProofs`).
5. (done) The loop of the interpreter as a host of the evaluator (`HostIsAHost`), the listing of a
   difference (`ListingIsComplete`), the contract of the allocator (`ContractIsKept`).
6. Proofs that remain: that the loops of `Tokenizer` lose no character would need `Patterns` without
   recursive operators; that the pooled evaluator implements the plain one.

## 6. Not modelled

- `cfgtl` and `util/variant.h`: unfinished and unused, its alternatives always fail;
  the variant is a re-export of a library's.
- `source_util` and `pgm_diff_tool`: `InitCtx` annotates its own copy of the program
  and schedules the statements of the other (`interpreter_main.cc:87-92`), so the
  ids reach nothing that is modelled; the tool does not build, its headers are missing.
- `file_io.h`, reading standard input, flags, timing and `DebugString`: pure input and output.
- `HasPrefix` of `strings.h`: nothing calls it.
- Floats, and the literal `Tuple`: see `Evaluator` above.
- `std::stoll` and `std::stoi` out of range, and a repetition `{n,m}` with `m < n`: the
  texts of numbers are read by a constant in `SteinParser`, and the counts of the runs are in range.
- Names that begin with a keyword (`iffy` is read as `if fy`): the rules are modelled as they
  are, but no text of `parser_texts` has such a name.
