# dog-game: TLA+ models and proofs

The server in `src/` runs a game in which dogs gather loot on the roads of a
map. Clients drive it over HTTP, a timer moves the world, players who stand
idle are retired into a PostgreSQL table, and a snapshot file carries the rest
over a restart. This directory holds TLA+ modules for the parts of it whose
state changes are worth arguing about, TLC configurations that check them on
small instances, and TLAPS proofs of what holds for every instance. The browser
client that the server delivers, `src/static/js/game.js`, is part of it.

Paths below are relative to `src/src/` unless they start with `src/`.

## 1. Inventory

### Parts, state and operations

| Part | State | Operations |
|---|---|---|
| `app/app.cpp` Application, use cases | `Players::players_`, `PlayerTokens::token_to_player_` and `player_to_token_`, `time_ticker_used_` | `JoinPlayer`, `MovePlayer`, `StopPlayer`, `TimeTick`, `DogRetire`; read-only `GetPlayers`, `GetGameState`, `Records`; `AddPlayer` when restoring |
| `model/model.cpp` Game, GameSession, Dog | per session `dogs_`, `dog_id_to_dog_`, `dogs_join_`, `dogs_to_retire_`, `loot_obj_id_to_obj_`, `objects_spawned_`; per dog position, speed, bag, score, `holding_time_`, `time_in_game_` | `OnTick` (`Move`, `RetireDogs`, `HandleCollisions`, `SpawnLoot`), `NewDog`, `AddDog`, `AddLootObject` |
| `model/loot_generator.cpp` | `time_without_loot_` | `Generate` |
| `collision/collision_detector.cpp` | none | `TryCollectPoint`, `FindGatherEvents` |
| `db/connection_pool.h` | `pool_`, `used_connections_`, a mutex, a condition variable | `GetConnection`, `ReturnConnection` |
| `db/postgres.cpp`, `app/unit_of_work.h` | one open transaction per unit of work; the table `retired_players` and its unique index | `CreateUnitOfWork`, `Save`, `GetSavedRetiredPlayers`, `Commit` |
| `model/model_serialization.cpp` | the snapshot file, its buffer file, `SerializingListener::counter` | `Serialize`, `Restore`, `OnTick` |
| `tools/ticker.h` | `last_tick_`, a timer | `Start`, `ScheduleTick`, `OnTick` |
| `main.cpp` | the io threads, the API strand, the signal set | start, stop on SIGINT and SIGTERM |
| `http/http_server.h` | acceptor; per connection a stream, a buffer and a request | accept, read, write, close |
| `http/request_handler.cpp` | `RequestData` and path tokens, kept between requests | routing, one handler per endpoint, static files |
| `json/`, `tools/cmd_parser.h`, `tools/logger.*`, `util/` | none that changes after the start | parsing, formatting, logging |
| `src/static/js/game.js` | `GameState`: `desiredState`, `currentState.players`, `players`, `lostObjects`, `disappearingLoot`, the flags of its start; the keys pressed; the scene | load the models; poll the state, list the players, post a command; apply an answer; draw a frame; leave for the records |
| `src/static/js/game_map.js` | the tiles of the map, built once | `gameLoadMap` |
| other scripts under `src/static/js/` | three.js, its loaders, controls and utilities, vendored; a debug print | - |

### How they interact

* All io threads run one `io_context`. API requests and the ticker are
  serialised by one *strand*: no two handlers of the API run at the same time,
  though they may run on different threads. Static files are served outside
  of it.
* `Application::Tick` calls `Game::OnTick`, which calls `OnTick` of every
  session in hash-map order. A session calls back into the application
  (`do_on_retire_`, that is `DogRetire`) in the middle of a loop over its own
  `dogs_to_retire_`; the callback talks to the database through a unit of work,
  whose connection comes from the pool. After the game, `Tick` calls the
  autosave listener.
* An exception thrown in the callback leaves all of these frames. The ticker
  swallows it and ticks on; a tick requested over HTTP turns it into an error
  page. Either way the server goes on with what the interrupted loop left.
* The snapshot is written by the strand's thread (autosave) and by `main` after
  the io threads have stopped. It is read once, before they start.

* The page of a player repeats two GET requests, for the state and for the list
  of players, and posts a command when the last of the pressed keys changes.
  Requests overlap on several connections and carry no sequence number. The
  answers to the two are applied to two pictures, `currentState.players` and
  `players`, which share the data of a dog, its bag among it.

### What is hard here

1. A retirement that fails half way: database, registries, list of dogs and
   `dogs_to_retire_` are updated one after the other, and only exceptions
   separate "not yet" from "already".
2. Time: a retirement clock that runs between commands, a play time that has to
   run ahead of it, a loot generator and an autosave that add up deltas and lose
   those of ticks that threw.
3. Waking the right thread: the pool notifies after unlocking.
4. Resources given back at the wrong time: the unit of work keeps a reference to
   a wrapper that is destroyed when `CreateUnitOfWork` returns.
5. Crashes: snapshot and database are not written together, and the snapshot
   gets its final name before it is complete.
6. Several dogs that meet the same object in one tick.
7. Geometry on floating-point numbers, rounding at road borders.
8. State kept between HTTP requests; sockets that fail.
9. A page that is fed by answers that are late, lost and out of order, and that
   hands the same drawn object from the ground to a bag, on to the fading ones and
   out of the scene in four loops over one answer. An exception in a frame ends
   the animation, because the next frame is asked for at its end.
10. Two derivations of one thing: where a dog may walk (server) and where the
   edges of a road are drawn (page).

`PROJECT.json` lists each hazard at its line with the properties that cover it,
or with the reason why none does yet.

### What makes each part correct

* **Application**: a player exists exactly while its dog does and has exactly
  one token; nobody vanishes without a row in the database; nobody is recorded
  early, while active, or twice; whoever leaves a standing dog is recorded in the
  end; the null player of `DogRetire` is met only after an exception in the loop.
* **Connection pool**: connections are conserved and never shared, nobody sleeps
  through a free one.
* **Unit of work**: no two transactions on one connection, no blocked strand.
* **State file**: a start restores the last completed save; an unfinished save
  harms nothing; autosaves keep their pace.
* **Recovery**: a token leads to the player it was given to; nobody is lost or
  recorded twice over an orderly stop.
* **Loot**: an object is in one place, score is what was dropped, loot follows
  the number of looters.
* **Movement**: the lookup of a dog's road never throws, a dog leaves its road by
  less than rounding allows, loot on the way of a dog is not stepped over, nobody
  walks for ever; the page draws no closed edge where a dog walks.
* **HTTP**: one answer per request, a request is judged by its own data, the
  wish to close is honoured, no request is forgotten in the strand.
* **Browser client**: no frame throws, whatever answers came in whatever order;
  every drawn object is in one place and something will remove it; the dog follows
  the keys; in the end the page knows the game as it is, and has drawn it. A turn
  ends and a dog stays near its place.

## 2. Modules

| Module | Models | How state and actions correspond |
|---|---|---|
| `Application` | `app/app.cpp`, `GameSession::OnTick` and `RetireDogs`, the table and its index | `joined`, `dog`, `retiring`, `players`, `token_to_player`, `player_to_token`, `rows` are the variables of those names; `at`, `tick`, `sessions`, `here`, `pending`, `n`, `unit` are the locals of the call stack of a tick. A request is one action (it runs whole in the strand); a tick is one action per loop turn and per database call, because an exception may come at each call. |
| `MCApplication` | - | the symmetry used by TLC: tokens are interchangeable, and so are maps |
| `ApplicationProofs` | - | theorems about `Application`, that it implements `Retirement` among them |
| `Retirement` | abstract | the life of a dog (unborn, playing, recorded, gone) and the table: what retirement promises, without a word of ticks, lists or transactions |
| `ConnectionPool` | `db/connection_pool.h` | `pool`, `used` are the members; `held` the wrapper of each thread, `pc` its place. Everything done under the mutex is one action; `Notify` is separate. |
| `Lending` | abstract | each connection is free or lent to one thread; what the pool promises |
| `UnitOfWork` | `db/postgres.cpp` over the pool | extends `ConnectionPool` and its variables; `strand` is the thread that runs a handler, `work` each thread's open transaction, `broken` the connections the server dropped. |
| `ConnectionPoolProofs` | - | theorems about `ConnectionPool`, that it implements `Lending` among them, and about `UnitOfWork` |
| `StateFile` | `Serialize`, `Restore`, the autosave listener, start and stop in `main` | `target` and `buf` are the two files, `step` the place of the thread that ticks and saves. A file is a game time and whether its content is whole. |
| `StateFileProofs` | - | theorems about `StateFile` |
| `Recovery`, `MCRecovery` | the content of the snapshot against the database, over restarts | game, rows and snapshot; a tick and a save are atomic here, `StateFile` and `Application` take them apart. |
| `RecoveryProofs` | - | theorems about `Recovery` |
| `Loot`, `MCLoot` | `HandleCollisions`, the handlers of gathering events, `SpawnLoot`, `LootGenerator` | `on_map`, `bag`, `score`, `spawned`, `time_without_loot`; `events` are the results of the collision detector not handled yet. |
| `LootProofs` | - | theorems about `Loot` |
| `CollisionDetector` | `collision/collision_detector.cpp` | operators only: `TryCollectPoint`, `FindGatherEvents` on integers. |
| `Movement`, `MCMovement` | `GameSession::Move`, the index of roads and `RoundRoadCoord`, `MovePlayer`, `StopPlayer`, spawning; collecting through `CollisionDetector` | `coords`, `prev_coords`, `direction` and `moving` are the dog's members; `lying` the spots with loot. A tick is one action, `OnTick`, of a given stride. `MCMovement` has the map and the cases of `src/tests/collision-detector-tests.cpp` as an `ASSUME`. |
| `GameMap` | `game_map.js` | operators only: the range of cells, the cells of a road, which side of a tile is closed. |
| `DrawnRoads` | `JsonifyRoads` of `http/request_handler.cpp` | composes `Movement` with `GameMap`: the roads as they are sent (`AsSent`), from either end (`Backwards`), a walk and the edges drawn across it. |
| `MovementProofs` | - | theorems about `Movement`, `CollisionDetector`, `GameMap` and `DrawnRoads` |
| `Client`, `MCClient` | `game.js`: `GameState`, the keys, the start, the frames | the page's members under their names (`desired` is `desiredState`, `current` the ids of `currentState.players`, `listed` those of `players`); a handler, a callback of a request or a frame is one action. The server and the network are as the page sees them: `fate`, `where`, `heading`, and a bag of unfinished requests of each kind. |
| `ClientProofs` | - | theorems about `Client` and `Motion` |
| `Motion` | `convDirection`, `_interpolateRotation`, `_interpolatePosition`, `MovingObject.doMove` of `game.js` | operators over integers (parts of a circle, of a length); `MCClient` evaluates two facts more. |
| `Api` | routing and endpoints of `http/request_handler.{h,cpp}` | operators only: from a request and what is known to the set of statuses it may be answered with; `Construct` is `RequestData::Construct` over the data of the request before. |
| `HttpServer`, `MCHttpServer` | `http/http_server.{h,cpp}`, the dispatch to the strand, the logging decorator | `session` is the place of each connection, `queue` and `running` are the strand, `req_data` is the member of `ApiHandler`. The completion of an asynchronous operation and the handler that runs on it are two actions. `MCHttpServer` has the requests and a table of routes as an `ASSUME`. |
| `HttpServerProofs` | - | theorems about `HttpServer` |

### Conventions

* A definition whose comment starts with "Mutant" is a plausible wrong version
  of the definition that follows it. No action uses it. `PROJECT.json` says
  which property refuses it.
* A ghost variable (marked as such) records history for a property; no guard
  reads one, but for `Recovery`, where a token is issued only once (`owner`)
  and the numbers of lives and of crashes are bounds.
* The two abstract modules are instantiated in the module that implements them,
  beside the mapping: `Life` and `DueRows` in `Application`, the instance `Lender`
  in `ConnectionPool`.
* Bounds are constants named `Max...` or `...Cap`; each says in its comment
  what it bounds.

### Abstractions

* A dog is the pair of its number and its map: one session per map, and the
  numbers are given out by `dogs_join_`. A player and its dog have the same key
  in `Players`, so the key stands for both.
* In `Application`, geometry is a choice: a moving dog may meet the end of its
  road at any tick and any dog may score at any tick. That is more than the code
  allows, so what holds here holds there. `holding` is cut at the retirement
  time and `time` at `PlayCap`; both are only compared with values up to these.
* In `Loot` a tick may bring about any set of gathering events in any order. The
  random choices are the type of an object and nothing else: `LootGenerator` is
  built with its default generator, which always returns 1, so the number of
  objects is a function (`Generated`), tabulated for a probability of 0.5 and
  checked against the three cases of `src/tests/loot_generator_tests.cpp` for
  four looters by an `ASSUME`.
* In `StateFile` the state of a game is the game time it has reached: two states
  of different times differ, and that is all a restore can get wrong.
* In `Movement` positions are grid points, `Unit` of them to a cell, and one dog
  has room for whatever it meets: dogs do not hinder each other, and full bags
  are the subject of `Loot`. Roads, their side of 0.4, the rounding at 0.5 and
  the radius of 0.3 of a dog are those of the code, on the grid. A dog that
  stands keeps the end points of its last step, as in the code, so it sweeps the
  same way again in every tick.
* `Loot` and `Application` still take the geometry as a choice; `Movement` is
  where it is exact.
* In `HttpServer` an answer is its status and whether the connection is closed
  after it. What the handlers do to the game is the subject of `Application`;
  here a join makes a token known and a tick may make any of them unknown. The
  piece read from an empty queue (`HandleGameRequest`, path `/api/v1/game/player`)
  is undefined behaviour: the outcomes are an answer of 400 and a crash. The log
  may throw. The orderly stop is in `StateFile`, not here.
* In `Client` a lost object and what is drawn for it are told apart: `bag`, `lost`
  and `vanishing` hold the number of a drawn object, or 0. A bag is one variable
  because `players[id].data` and the entry of `currentState.players` are the same
  object; what becomes of it when a dog leaves one list and stays in the other is
  in `Apply` and `UpdatePlayersList`. A frame may poll or not, so the count of
  frames and `requestInstantUpdate` are left out; so are `updateInProgress` and
  `playersSuncInProgress`, which the code sets and resets within one handler and
  which therefore never hold back a request. A request that fails runs no handler
  but that of `_syncPlayers`, which leaves for the records if the answer is
  `Unauthorized`. In the answer to a state poll a lost object has one owner, as
  `Loot` shows of the server (`LootInOnePlace`). `$.ajax`, the browser's event loop
  and the loaders are external.
* A null player that is dereferenced is undefined behaviour; `crashed` stands
  for the outcome that builds produce (an access violation at a small address).

## 3. Runs

| Run | Question | Instance |
|---|---|---|
| `application_core` | With a sound database and distinct names: is an abandoned dog recorded in the end? | 1 map, 2 dogs, 2 names, 2 tokens, ticks of 1 and 2, retirement at 2 |
| `application_faults` | Whatever the database does: do registries agree, is nobody lost, recorded early or twice, is every step one of the life in `Retirement`? What may be left in `dogs_to_retire_`, can anything else lead to the null player, and who retires without having been silent? | 2 maps, 2 dogs on one map or one on each, an ordinary name and one the table refuses, failing connections, failing commits, commits in doubt |
| `application_clash` | violated: two equal rows crash the server | 1 map, 2 dogs of one name, sound database |
| `connection_pool` | Are connections conserved and wake-ups never lost, and is this `Lending`? | 4 threads, 2 connections, spurious wake-ups |
| `unit_of_work` | Does the early return of a connection hurt, do broken ones? | 3 threads, 3 connections, any of them may break |
| `state_file` | What do crashes and errors do to the snapshot and the pace of autosaves? | save period 3, ticks of 1, 2 and 4, 9 units of game time, all faults |
| `state_file_torn` | violated: a server that always starts again | the same, crashes only |
| `recovery` | Do tokens and records survive crashes and stops, and which time does a row tell? | 1 map, 3 lives and tokens, 2 dog numbers, retirement at 2, dogs that go, stand and meet road ends, 2 crashes, any number of stops; tokens interchangeable |
| `loot` | Is loot conserved and replaced? | 2 dogs, 1 office, bags of 1, worths 1 and 3, 4 objects, ticks that throw |
| `movement` | Does a dog stay where its road can be looked up, collect what it walks over, and come to stand, and are the roads drawn open there? | 3 roads that meet in corners, one of them given from its greater end, 20 points to a cell, strides of 1 and 7, a dog anywhere on the roads, 1 spot |
| `http_server` | Is a request answered once, by its own data, and is none forgotten, whatever clients, sockets and the log do? | 2 connections, 1 token, 2 requests read in all, of 12 kinds |
| `client` | Whatever becomes of its requests: does the page go on, keep its scene in order, steer the dog, and know and draw the game in the end? | a dog that stands or runs when the page is opened, a command of the page before, 2 players, 1 lost object, 2 keys, 2 requests of a kind and 3 GETs on their way, 3 changes of the game or 3 keys |

### Why these bounds are enough

* Two dogs are the fewest for which a retirement can succeed and the next one
  in the same loop fail, which is where the interesting states are; two maps let
  one session throw while another is still to be visited; the list may hold two
  leftover ids before a tick, so an id may be there twice. `PlayCap` is one more
  than the retirement time, so rows of two play times exist. `MaxJoins` bounds
  the dogs of all sessions together.
* Two connections and four threads give two waiting threads while two use
  connections, the smallest pool in which slots are returned out of order. In
  `unit_of_work` there are as many connections as threads, as in `main.cpp`.
* In `state_file` a tick may be shorter than, or longer than, the save period,
  and nine units see several saves and restarts.
* In `recovery` three lives over two numbers make a number belong to two lives
  one after the other, two crashes let a crash follow a restart from an old
  snapshot, and `MaxTime` is one more than the retirement time, so that a dog
  that was stopped for a while is still recorded. One map is enough because
  numbers are given out per session.
* In `loot` a bag of one object is full after the first event, two dogs can
  contend for one object, and four objects let both dogs' shortage be filled
  twice.
* In `movement` a corner has a road in each axis, both ends of a road, and cells
  beside a road that have none. The lengths of ticks are arbitrary, so are
  strides; what matters is whether one is shorter than the tenth of a cell (2
  points) by which rounding reaches beyond a road. One is, the other is not, and
  they mix. The two also fall on every grid point, so every border is met from
  every distance.
* In `http_server` two requests are the fewest of which one can overtake, follow
  on the same connection, or leave its token to, the other. The requests take
  every way through the routing.
* In `client` three changes of the game let an object appear, be taken and be
  dropped, or change hands through the ground, and let a player come and go; with
  two requests of a kind on their way an answer can overtake another, and the
  third GET lets one of the other kind fall between them. Two players suffice for an object that
  passes from one bag to another. With `MaxMixed = 0` the game changes only where no
  key was pressed, the dog stood when the page was opened and no command of the page
  before was under way (`Calm`): commands touch none of the variables of the picture,
  and `ClientProofs` covers both together.

### Fairness

* `Application!FairSpec` assumes that a tick is started again and again and that
  a tick that has started goes on. `Ticker::OnTick` calls `ScheduleTick` after
  every tick, whether the handler threw or not, and a handler in a strand runs to
  completion. The live run has no faults: a database that fails forever keeps a
  dog forever. Nothing is assumed of clients. Weak fairness of `TickStep` as a
  whole is enough: while a tick is under way some step of it is enabled.
* `UnitOfWork!FairSpec` assumes that a thread in a handler goes on. It says
  nothing of which waiting thread is woken, and no request is assumed to arrive.
* `Loot!FairSpec` is the ticker's fairness again. Every tick in that run either
  gets through or throws; ticks that get through are assumed to come again and
  again, and ticks that throw may come as often as they like between them.

* `Movement!Spec` assumes that ticks come again and again while the dog moves:
  the ticker's fairness. `Ticking` writes the weak fairness out with the
  condition of the walk alone, which is the cheaper one to evaluate and means the
  same: a tick is possible whenever its walk is. Commands are not assumed to come, or to cease: `ComesToRest`
  allows a dog that is turned over and over to walk for ever.
* `HttpServer!Spec` assumes that the io threads run every handler that is ready
  and that a write ends, by its 30 seconds at the latest. Clients may stay silent
  at any point.

* `Client!Spec` assumes that models load, that frames go on and so poll and ask
  for the players wherever the browser has room for a request, and that the
  server answers a request that reached it. Answers may be lost, but if answers of
  a kind are on their way again and again some of them arrive: strong fairness,
  written out, for a lost answer disables its arrival. Nothing is
  assumed of the order of answers, of commands, or of the first two requests, which
  the page does not repeat.

### Deadlock

`application_core`, `connection_pool`, `unit_of_work`, `state_file`, `recovery` and
`movement` are checked for deadlock. The other runs stop at their bounds (no more joins,
`MaxRetiring` ids left over, `MaxRequests` read on connections that are over, a page that
has left for the records) or in a state the program itself stops in (`crashed`), and say
so in their configuration.

### What the violated runs show

* **`application_clash`.** Two dogs with the same name join, stand idle together
  and become due in the same tick. The first is recorded and erased. The row of
  the second equals it in the unique index, so the insertion throws, and
  `RetireDogs` never reaches `dogs_to_retire_.clear()`. In the next tick the list
  starts with the first dog again, whose player is gone: `FindByDogIdAndMapId`
  returns `nullptr`, `DogRetire` dereferences it. A database error at the second
  of two retirements has the same end, and so may a single one at the first: its id
  stays in the list, the next tick appends it again, and once the first copy is
  retired the second has no player. `CrashesOnlyOnLeftovers` says that there is no
  other way. A dog the table refuses for ever (a name of more than 100 characters, a play
  time beyond `INT`) makes every tick throw that lists it, until one of these ends.
* **`state_file_torn`.** `Serialize` renames the file before the stream that
  fills it is closed. A process killed in between leaves a truncated file under
  the final name; `Restore` throws at it at every later start.

### What was learnt on the way

* *Stranded dogs.* "The cell of a dog always has a road" is false. A road ends
  0.4 beyond its cells, but roads are looked up by rounding at 0.5, so a dog that
  turns off at a crossing, 0.45 from the middle of the other road, walks along
  that road just outside of it. If it then turns outwards, its possible distance
  points inwards; a usual step exceeds it and brings the dog back, but a step
  shorter than it goes outwards, over 0.5, on to a cell without a road, where
  every direction offers a distance of zero.
  `StrandedByShortSteps` says that only such short steps can do it; it is
  what is left of the property one would first write down. The lookup
  still does not throw there (`LookupSucceeds`).
* *Borrowed tokens.* `ApiHandler` keeps one `RequestData`, and `Construct` does
  not reset `auth_token` if a request has no `Authorization` header: it is judged
  by the header of the request before it, of whichever client. `JudgedByItself`
  holds for everything else in `RequestData`, and excepts this.
* *Closing.* A file that is found is sent without the client's wish to close, so
  `CloseIsHonoured` speaks of the API.
* *Exceptions nobody catches.* `Session::HandleRequest` asks a socket for its
  peer's address and `Close` shuts it down, with the throwing overloads, inside
  of handlers that an io thread runs without a `try`. A client that resets its
  connection at that moment ends the server (`crashed`).

* *Time lost over a restart.* The snapshot leaves out how long a dog has played
  and stood. `RowsTellTimeInProcess` says what remains true: a row tells the time
  played in the process that writes it.
* *The page.* A page that loses one of its first two requests stays on its first
  picture (`NeverStarts`, which `EndsInSync` excepts). An answer that overtakes a
  newer one, or a dog that comes and goes between two lists, leaves objects in the
  scene that nothing refers to, or a bag whose objects are not drawn: the condition
  `~slipped` of `SceneIsKept` and of the drawn part of `Synced`. An overtaken list makes
  `_deletePlayer` take the bag of a dog off the scene (`game.js:322-329`), the next
  list adds the dog with the same data (line 317), and `scene.add` is only in
  `_createLoot` (line 375): the page knows what the dog carries and does not draw it. `disappearingLoot` has one entry for an id; a second
  object of that id that begins to fade replaces the first, which stays in the
  scene. A command that is lost, or overtaken by an older one, leaves the
  dog running: the condition `~tangled` of `FollowsKeys`. So does a page that is opened
  again: it comes up with no key pressed and sends nothing, while the dog still obeys
  the page before. `FollowsKeys` speaks from the first command of this page on. The page recognises a
  player who is gone by the text `Unauthorized` of the status line, which only
  HTTP/1.1 has.
* *Turns.* A half turn that is cut short by the next command can end in a jump of
  the drawn angle (`CutShortTurnsMayJump`); the angle is right all the same once
  the turn is over (`TurnsEnd`).

## 4. Proofs

Each theorem holds for every value of the constants that satisfies the named
assumptions of its modules: any number of maps, names, tokens, ticks and faults; any
capacity and any finite set of threads; any set of connections and requests; any map
whose roads run along the axes; any number of players, objects, requests and changes
of the game. TLC evaluates the assumptions in the runs:

| Assumption | What it asks |
|---|---|
| `NilAssumption`, `BoundAssumption`, `InputAssumption` (`Application`) | `NIL` is none of the values it stands beside; bounds, the greatest number of a column and lengths of ticks are natural numbers; the faults are of the known kinds |
| `PoolAssumption` | finitely many threads; `NULL` is neither a thread nor a connection |
| `SaveAssumption` | a save period above zero, ticks are natural numbers |
| `NilAssumption`, `RecoveryAssumption` (`Recovery`) | the same for dogs and snapshots; a retirement time above zero |
| `LootAssumption` | finitely many dogs, chances between 0 and 100, offices are no ids |
| `MovementAssumption` | roads along the axes, whose ends are in order; the first spawn point is the end of a road; a cell of a multiple of ten points, so that 0.4, 0.5 and 0.3 are grid points; strides above zero |
| `BackwardsAssumption` (`DrawnRoads`) | the roads given from their greater end are roads |
| `ApiAssumption`, `HttpAssumption` | the marks for "no token" and "malformed" are no tokens; all requests have the fields of `RequestData` |
| `ClientAssumption`, `HalfAssumption` | finitely many players and objects, I am one of them; `NIL` is no answer; half a circle is an even number |

One more hypothesis is that of a single theorem, and stated there: `Capacity > 0` is that
of `StrandRuns`: `main` makes as many connections as `hardware_concurrency()` tells,
which may be none.

### Arguments

**`ApplicationProofs`.** Layers of induction, each on the ones before.

1. `Base` is the type invariant, `RegistryConsistent` and `Placed` (where the
   handler stands bounds what its locals hold, and a number not given out yet
   belongs to no dog). They need each other: a row is well formed because the
   dog is alive, which `DogRetire` knows only because `Players` and the dogs
   agree; joining keeps them in agreement because the new number is not in use.
   This gives `TypeCorrect` and `RegistriesAgree`.
2. `RecordInv` adds to `RecordedBeforeGone` what the open unit of work holds: at
   the commit it is the row of the dog that is about to go, at the erasure this
   dog has its row. This gives `NoPlayerLost`.
3. `TimeInv` says that play time is never behind holding time, that every id in
   any `dogs_to_retire_` - also one left there by a tick that threw - is of a
   number given out, whose dog has played for the retirement time if it is still
   alive, and that the open unit says the same. This gives `RowsAreDue`. The
   strengthening is needed because the dog retired may not be due *now*: it may
   have moved on since the tick that listed it.
4. `AtHand`: the dog whose row is about to be committed, or which is about to be
   erased, is alive, and the row of an open unit of work is not in the table yet.
   With it each action of `Next` is a step of `Retirement` or a stutter, under the
   mapping that gives each dog a stage from `joined`, `dog` and the place of the
   handler (*recorded* between commit and erasure): joining is `Join`, a commit
   `Record`, a commit in doubt `Doubt`, the erasure `Depart`. This gives
   `RetirementImplemented`.
5. `OnceInv`: a dog that has a row and no commit in doubt is gone, unless it is the
   one between commit and erasure. So a dog whose id is left over in a list, and is
   met there again, has no row of its own. This gives `OneRowEach`.
6. `SilentInv` asks nothing of the database; it tells the ids that an exception left in
   a list (`left`) from the others. `ListInv`: outside of the session being visited a
   list holds only such ids; of the ids still waiting there, one that no exception left
   (`Fresh`) is that of a living dog that has moved, was silent for the retirement time
   and waits once. `HoldingInv`: a standing dog has held no longer than its player has
   been silent. When the loop throws, all that is in the list becomes left over, and
   when it comes through, the list and the mark go together; so nothing has to be
   assumed of names, lengths or commits. This gives `NobodyLeftOver`,
   `CrashNeedsLeftover` and `OnlySilentRetire`.

**`ConnectionPoolProofs`.** The inductive invariant says that the slots up to
`used` are empty and the others hold distinct connections, that as many threads
use connections as `used` says, and that a thread holds a connection exactly
while it uses one. It gives conservation; the theorem about wake-ups counts the
threads that enter or notify against the free connections. `PoolLends` needs of the
invariant only where a connection can be: `Take` lends a connection that no other
slot holds, `Put` fills the empty slot below `used`, and every other step leaves
slots and wrappers alone, which is a stutter.

For units of work, `UnitsUseThePool` comes first: every step of `UnitOfWork` is one of
`ConnectionPool` or leaves the pool alone, so all of the above holds of them. `UnitInv`
adds that whoever has to do with the pool, or has a transaction open, is the thread in
the strand. So a thread that enters `GetConnection` is alone with a full pool, and
neither waits (`StrandRuns`) nor shares (`NoSharedConnection`).

**`StateFileProofs`.** `FilesInv` follows the two files through a save: a whole snapshot
is that of the last completed save; from the rename to the end of the closing the
file under the final name is the unfinished one. `CutInv` says who may be
blamed for a snapshot that is cut short. `PaceInv` balances accounts: what is
neither saved nor missed is in the listener's counter, which at rest is below the save
period. Missed time may be negative, since a restart takes the game back.

**`HttpServerProofs`.** `QueueInv` and `StrandInv`: a connection waits for the strand
once, and one handler runs at a time, whose connection waits for nothing else. That makes
`JudgedByItself` inductive: nobody else constructs request data while a handler runs.
`WritesInv` ties the count of writes to the place of the connection, `CloseInv` the
answer under way to the request it answers.

**`LootProofs`.** To `LootInOnePlace` the invariant adds that bags are finite and hold
only what was spawned, so a new object is nobody's. The order of events
does not matter because `Collect` looks at the map again. `Generated` never makes more
than the shortage, for every table of chances.

`ScoreCountsBanked` needs that a sum over a set does not depend on the order in which
`MapThenSumSet` happens to visit it. `SumExists`, `SumUnique` and `SumTakesAny` show this by
induction over the number of elements, `SumOfTwo` that the sums of two bags add up. The
induction theorems of the library take an operator and cannot be cited; `NatSets` states
induction for a *set* of numbers instead, from the least element of what is not in it
(`WFMin`). `ScoreInv` adds to the property that worths are fixed when an object is spawned,
which no bag can hold before.

**`RecoveryProofs`.** The invariants are said of a game as such (`GameTyped`, `DogsJoined`,
`TokensLead`) and hold of the running one and of the snapshot, which a restart makes
the running one. `ClockInv` ties a dog's clock to the time played in this process. `OnceInv`
holds up to the first crash: a stopped process has all of its game in the snapshot. Whether
a dog goes or stands decides only which of its clocks run (`MovedFacts`, `CommandFacts`).

**`MovementProofs`.** `ColumnInv` is the strengthening for `LookupSucceeds`: a dog is within
0.4 of a road along x, where "the rounded column exists" alone would let the next step
lead out of all columns. A step follows the lane of one of the roads under the dog
(`Keeps`) or strays by less than a tenth of a cell (`Strays`): `StrandedByShortSteps`.
`AheadInv` says that what lay ahead at the start of a straight walk and is not collected lies
ahead still, within reach; `PassedIsCollected` shows from `TryCollectPoint` that a step
which passes a point within reach meets it, and `Reported` that `FindGatherEvents`
reports whatever is met. `WalksAreDrawn` joins this to the page: a road under both cells of
a step covers the edge between them (`KeptCovers`), and an edge that any road covers is
drawn open (`CrossesOpen`). `NeighboursAgree` says of all maps that two cells side by side
agree on the edge between them.

**`ClientProofs`.** For `NoFrameThrows`: once `started` is set, both first answers have
come, and the dogs of `desiredState` are those of `currentState.players`, because
every handler that sets the one applies it to the other and no list of players
touches either. For `DogFollowsKeys`: unless `tangled`, at most one
command is on its way and it is the one of the last key; with none on its way the
server has executed it. Before the first command of the page nothing is said: the dog
obeys the page before. For `ObjectsHaveOneOwner`: what `_createLoot` makes is nobody's
(`NewObjectFacts`, by counting), at most one dog takes an object in an answer, and what
fades was taken from nobody else (`ApplyOwner`).

`SceneStaysInOrder` is about answers that overtake each other, so its invariant speaks of
the past of the game: there are functions `f` and `w` of the version (`History`), the
latest values of which are the game's own, such that every answer on its way or applied is
a moment of them, nobody who left is in the game later, and an object goes from the ground
to one player and is gone with him or before. `Later` draws from it what a newer answer can
hold that an older one did not; `DrawnInv` says of each object where the page then has
it. `CallsAfter` carries the calls under way through a step. `ClientTypeCorrect` needs only
the types of the answers beside those of the variables.

The theorems about `Motion` are statements about single functions, by cases on the
direction of a turn. `StaysNear` is about the jump as well: a dog drawn farther from its
place than that is put there, any other goes on from where it is drawn, and what it is
off by shrinks to nothing in 100 ms and grows again to the same at 200 ms, whatever
the answer was. So an error the polls leave (one comes every five frames) never adds up.

### Theorems

| Theorem | Property | Run that checks it |
|---|---|---|
| `ApplicationProofs!TypeCorrect` | `TypeOK` | `application_core` |
| `ApplicationProofs!RegistriesAgree` | `RegistryConsistent` | `application_faults` |
| `ApplicationProofs!NoPlayerLost` | `RecordedBeforeGone` | implied by `ImplementsRetirement` |
| `ApplicationProofs!RowsAreDue` | `PlayTimeCoversRetirement` | `application_faults` |
| `ApplicationProofs!RetirementImplemented` | `ImplementsRetirement` | `application_faults` |
| `ApplicationProofs!OneRowEach` | `RecordedOnce` | `application_faults` |
| `ApplicationProofs!NobodyLeftOver` | `NoLeftoverRetirees` | `application_faults` |
| `ApplicationProofs!CrashNeedsLeftover` | `CrashesOnlyOnLeftovers` | `application_faults` |
| `ApplicationProofs!OnlySilentRetire` | `RetiresOnlySilent` | `application_faults` |
| `ConnectionPoolProofs!PoolTypeCorrect` | `TypeOK` | - |
| `ConnectionPoolProofs!NoNullConnection` | `UsersHoldConnections` | - |
| `ConnectionPoolProofs!ConnectionsConserved` | `EachConnectionInOnePlace` | `connection_pool` |
| `ConnectionPoolProofs!NobodyOversleeps` | `NoLostWakeup` | `connection_pool` |
| `ConnectionPoolProofs!PoolLends` | `ImplementsLending` | `connection_pool` |
| `ConnectionPoolProofs!UnitsUseThePool` | `Spec` of `ConnectionPool` | - |
| `ConnectionPoolProofs!NoSharedConnection` | `OneWorkPerConnection` | `unit_of_work` |
| `ConnectionPoolProofs!StrandRuns` (if `Capacity > 0`) | `StrandNeverBlocks` | `unit_of_work` |
| `StateFileProofs!SavesKeepPace` | `AutosaveKeepsPace` | `state_file` |
| `StateFileProofs!SnapshotStaysWhole` | `FailedSaveHarmsNothing` | `state_file` |
| `StateFileProofs!RestartRestores` | `RestoresLastSave` | `state_file` |
| `RecoveryProofs!TokensKeepPlayers` | `TokenNamesItsPlayer` | `recovery` |
| `RecoveryProofs!SignalsLoseNobody` | `RecordedOnce` | `recovery` |
| `RecoveryProofs!RowsTellTime` | `RowsTellTimeInProcess` | `recovery` |
| `LootProofs!OnePlaceEach` | `LootInOnePlace` | `loot` |
| `LootProofs!NoMoreThanLooters` | `SpawnFillsUpToLooters` | `loot` |
| `LootProofs!ScoreCountsBanked` | `ScoreIsWorthOfBanked` | `loot` |
| `MovementProofs!LookupNeverThrows` | `LookupSucceeds` | `movement` |
| `MovementProofs!OnlyShortStepsStrand` | `StrandedByShortSteps` | `movement` |
| `MovementProofs!NothingLeftBehind` | `NothingSkipped` | `movement` |
| `MovementProofs!WalksAreDrawn` | `WalksDrawnOpen` | `movement` |
| `MovementProofs!NeighboursAgree` | the operators themselves | - |
| `HttpServerProofs!OneAnswer` | `OneAnswerEach` | `http_server` |
| `HttpServerProofs!StrandKeepsRequest` | `JudgedByItself` | `http_server` |
| `HttpServerProofs!CloseComesThrough` | `CloseIsHonoured` | `http_server` |
| `ClientProofs!NoFrameThrows` | `NeverHalts` | `client` |
| `ClientProofs!DogFollowsKeys` | `FollowsKeys` | `client` |
| `ClientProofs!ObjectsHaveOneOwner` | `OneOwner` | `client` |
| `ClientProofs!SceneStaysInOrder` | `SceneIsKept` | `client` |
| `ClientProofs!ClientTypeCorrect` | `TypeOK` | `client` |
| `ClientProofs!TurnsEnd`, `TurnsTheShorterWay`, `TurnsStayNear`, `StaysNear`, `LootNeverOvershoots` | the operators of `Motion` | - |

### Only model-checked

Every invariant and action property of the runs that pass has a theorem, one of them
under `Capacity > 0`. What is left to TLC:

* Liveness: `AbandonedIsRecorded`, `HandlersEnd`, `ShortageEnds`, `ComesToRest`,
  `EveryRequestEnds` and `EndsInSync`. The prover handles neither fairness nor `ENABLED`.
* The two runs that show a violation: a counterexample is a behaviour, not a theorem.

## 5. Plan

Done: the core (`Application`, `ConnectionPool`), its abstract specifications and
the proofs that it implements them; the components around it, geometry, the HTTP
layer and the browser client; proofs of all safety properties of the runs that pass.
Next, in the order of what it adds:

1. `Loot` over `CollisionDetector` and `Movement` in place of a free choice of
   events, with several dogs that cross the same object.
2. `movement` on other maps: parallel roads side by side, a crossing, columns
   with a gap. The theorems hold on all of them; `ComesToRest` is checked on one.
3. An abstract specification of the page (what it shows is a past state of the game)
   that `Client` implements while no answer is overtaken.

A property that restates less than a new one replaces it, so that the project
stays as large as it has things to say.

## 6. Not modelled, and why

* JSON and command-line parsing, logging, tagged types and UUIDs: sequential,
  without state that changes.
* Wall-clock time: a tick carries the delta the game is told.
* Floating-point rounding: geometry is on a grid, where a border is met exactly.
* Negative and overflowing deltas of a tick over HTTP: the handler takes any
  number; the models take positive ones.
* The static files' content and their encoding; which file a path leads to, or whether
  it leads out of the root: `Api` allows every answer of `HandleFileRequest`.
* The third-party scripts under `src/static/js/`: three.js, its loaders, controls and
  utilities, vendored unchanged. By lines they are most of the code of this
  repository (some 46,000 of 47,000 lines of JavaScript), so models of
  the game's own code, `game.js` and `game_map.js`, stand for a small share of it.
  `Client` marks what it uses of them as external.
* `src/static/js/helper.js` prints a scene to the console.
* Of `game.js`: building the scene, lights and camera, the score table, the
  materials of dogs. The HTML pages beside it list the maps, post a join and keep
  its answer in cookies, or list the records: single requests and their answers.
